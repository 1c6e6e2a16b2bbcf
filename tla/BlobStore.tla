------------------------------- MODULE BlobStore -------------------------------
(***************************************************************************)
(* The content-addressed ciphertext store that clients and workers share.  *)
(*                                                                         *)
(* put() tests that the blob's file is absent, writes `<hash>.tmp' and     *)
(* renames it over `<hash>'.  Nothing else orders two puts: processes that *)
(* store the same bytes -- a retried encrypt, two workers evaluating one   *)
(* request -- use the same two names.  Each system call is a step.  A name *)
(* leads to an inode, and a process that has opened a file keeps its inode *)
(* whatever happens to the name, so a rename moves whatever the name leads *)
(* to at that moment, and a late writer may still be writing to it.  Every *)
(* call may fail, and `?' returns its error at once: nothing is undone.    *)
(***************************************************************************)
EXTENDS Naturals, FiniteSets

CONSTANTS
    Blobs,         \* contents; SHA-256 is injective, so also their file names
    Procs,         \* client and worker processes
    Inodes,        \* pool of inodes
    Chunks,        \* number of write or read calls a whole blob takes
    Hole,          \* a part of a file not written since it was truncated
    NoFile,        \* a name that leads nowhere
    MaxFaults,     \* bound on the writes cut short, by a kill or by an error
    HostileDisk    \* may somebody else overwrite stored files?

ASSUME ChunkAssumption == Chunks \in Nat \ {0}

\* Enough inodes for every name and every open file: open does not run out.
ASSUME InodesAssumption ==
    /\ IsFiniteSet(Blobs) /\ IsFiniteSet(Procs) /\ IsFiniteSet(Inodes)
    /\ Cardinality(Inodes) >= 2 * Cardinality(Blobs) + Cardinality(Procs)
    /\ NoFile \notin Inodes /\ Hole \notin Blobs
ASSUME FaultsAssumption == MaxFaults \in Nat

Positions == 1 .. Chunks
Empty == [k \in Positions |-> Hole]
WholeBlob(b) == [k \in Positions |-> b]

Phases == {"idle", "exists", "open", "write", "rename", "read"}

VARIABLES
    blobFile,   \* blobFile[b]: the inode `<hash of b>' leads to
    tmpFile,    \* tmpFile[b]:  the inode `<hash of b>.tmp' leads to
    bytes,      \* bytes[i]: the content of inode i
    proc,       \* proc[p]: where p is inside put or get
    result,     \* result[p]: what p's last call returned, while p is idle
    stored,     \* history: blobs some put has returned Ok for
    faults      \* how many puts and gets were killed or failed in a write

files == <<blobFile, tmpFile, bytes>>
vars == <<files, proc, result, stored, faults>>

Idle == [at |-> "idle"]
NoResult == [res |-> "none"]

Init ==
    /\ blobFile = [b \in Blobs |-> NoFile]
    /\ tmpFile = [b \in Blobs |-> NoFile]
    /\ bytes = [i \in Inodes |-> Empty]
    /\ proc = [p \in Procs |-> Idle]
    /\ result = [p \in Procs |-> NoResult]
    /\ stored = {}
    /\ faults = 0

At(p, phase) == proc[p].at = phase

Open(p) == At(p, "write") \/ At(p, "rename") \/ At(p, "read")

\* rename comes after fs::write has closed the file; its fd no longer counts.
HoldsInode(p, i) == (At(p, "write") \/ At(p, "read")) /\ proc[p].fd = i

FreeInodes ==
    {i \in Inodes : /\ \A b \in Blobs : blobFile[b] # i /\ tmpFile[b] # i
                    /\ \A p \in Procs : ~HoldsInode(p, i)}

\* Any inode nothing refers to is as good as another.
NewInode == CHOOSE i \in FreeInodes : TRUE

Return(p, r) ==
    /\ proc' = [proc EXCEPT ![p] = Idle]
    /\ result' = [result EXCEPT ![p] = r]

\* A new call: what the last one returned is forgotten.
Begin(p, c) ==
    /\ proc' = [proc EXCEPT ![p] = c]
    /\ result' = [result EXCEPT ![p] = NoResult]

PutOk(p, b) ==
    /\ Return(p, [op |-> "put", blob |-> b, res |-> "ok"])
    /\ stored' = stored \cup {b}

(***************************************************************************)
(* put                                                                     *)
(***************************************************************************)
StartPut(p, b) ==
    /\ At(p, "idle")
    /\ Begin(p, [at |-> "exists", blob |-> b])
    /\ UNCHANGED <<files, stored, faults>>

\* Fault: put does not look whether the file is there.
PathExists_Never(b) == FALSE

\* Fault: a put that finds another one at work leaves it to that.
PathExists_OrTmp(b) == blobFile[b] # NoFile \/ tmpFile[b] # NoFile

\* path.exists()
PathExists(b) == blobFile[b] # NoFile

CheckExists(p) ==
    /\ At(p, "exists")
    /\ LET b == proc[p].blob IN
       IF PathExists(b)
       THEN PutOk(p, b)
       ELSE /\ proc' = [proc EXCEPT ![p] = [at |-> "open", blob |-> b]]
            /\ UNCHANGED <<result, stored>>
    /\ UNCHANGED <<files, faults>>

\* fs::write creates the file, or truncates the one that is there.
OpenTmp(p) ==
    /\ At(p, "open")
    /\ LET b == proc[p].blob
           i == IF tmpFile[b] = NoFile THEN NewInode ELSE tmpFile[b]
       IN
       /\ tmpFile' = [tmpFile EXCEPT ![b] = i]
       /\ bytes' = [bytes EXCEPT ![i] = Empty]
       /\ proc' = [proc EXCEPT ![p] =
              [at |-> "write", blob |-> b, fd |-> i, next |-> 1]]
    /\ UNCHANGED <<blobFile, result, stored, faults>>

\* Fault: the loop runs once too often.
WriteDone_OneTooMany(k) == k > Chunks

\* Fault: one write call, taken for a write_all.
WriteDone_ShortWrite(k) == TRUE

WriteDone(k) == k = Chunks

WriteChunk(p) ==
    /\ At(p, "write")
    /\ LET w == proc[p] IN
       /\ bytes' = [bytes EXCEPT ![w.fd][w.next] = w.blob]
       /\ proc' = [proc EXCEPT ![p] =
              IF WriteDone(w.next)
              THEN [at |-> "rename", blob |-> w.blob]
              ELSE [w EXCEPT !.next = @ + 1]]
    /\ UNCHANGED <<blobFile, tmpFile, result, stored, faults>>

\* rename(2) looks the name up again: it may find another process's file, or
\* nothing at all because another process has renamed it first.
Rename(p) ==
    /\ At(p, "rename")
    /\ LET b == proc[p].blob IN
       IF tmpFile[b] # NoFile
       THEN /\ blobFile' = [blobFile EXCEPT ![b] = tmpFile[b]]
            /\ tmpFile' = [tmpFile EXCEPT ![b] = NoFile]
            /\ PutOk(p, b)
       ELSE /\ Return(p, [op |-> "put", blob |-> b, res |-> "not_found"])
            /\ UNCHANGED <<blobFile, tmpFile, stored>>
    /\ UNCHANGED <<bytes, faults>>

PutError(p) ==
    Return(p, [op |-> "put", blob |-> proc[p].blob, res |-> "io_error"])

\* fs::write cannot open the temporary file, or rename refuses.
OpenOrRenameFails(p) ==
    /\ At(p, "open") \/ At(p, "rename")
    /\ PutError(p)
    /\ UNCHANGED <<files, stored, faults>>

\* The disk is full: what fs::write has written so far stays.
WriteFails(p) ==
    /\ At(p, "write")
    /\ faults < MaxFaults
    /\ faults' = faults + 1
    /\ PutError(p)
    /\ UNCHANGED <<files, stored>>

(***************************************************************************)
(* get                                                                     *)
(***************************************************************************)
StartGet(p, b) ==
    /\ At(p, "idle")
    /\ IF blobFile[b] = NoFile
       THEN Return(p, [op |-> "get", blob |-> b, res |-> "not_found"])
       ELSE Begin(p, [ at |-> "read", blob |-> b, fd |-> blobFile[b], next |-> 1,
                       seen |-> Empty ])
    /\ UNCHANGED <<files, stored, faults>>

\* Fault: the file name is trusted to say what the file holds.
Authentic_ByName(seen, b) == TRUE

\* protocol::sha256(&bytes) != *expected
Authentic(seen, b) == seen = WholeBlob(b)

ReadChunk(p) ==
    /\ At(p, "read")
    /\ LET w == proc[p]
           seen == [w.seen EXCEPT ![w.next] = bytes[w.fd][w.next]]
       IN
       IF w.next < Chunks
       THEN /\ proc' = [proc EXCEPT ![p].seen = seen, ![p].next = @ + 1]
            /\ UNCHANGED result
       ELSE Return(p, IF Authentic(seen, w.blob)
                      THEN [op |-> "get", blob |-> w.blob, res |-> "ok",
                            bytes |-> seen]
                      ELSE [op |-> "get", blob |-> w.blob,
                            res |-> "hash_mismatch"])
    /\ UNCHANGED <<files, stored, faults>>

ReadFails(p) ==
    /\ At(p, "read")
    /\ Return(p, [op |-> "get", blob |-> proc[p].blob, res |-> "io_error"])
    /\ UNCHANGED <<files, stored, faults>>

(***************************************************************************)
(* The environment: a process is killed, a stored file is overwritten.     *)
(***************************************************************************)
\* Fault: a dying process removes its temporary file.
KilledTmpFiles_Cleanup(p) ==
    IF At(p, "write") \/ At(p, "rename")
    THEN [tmpFile EXCEPT ![proc[p].blob] = NoFile]
    ELSE tmpFile

\* put() leaves the temporary file of a killed process where it is.
KilledTmpFiles(p) == tmpFile

Crash(p) ==
    /\ ~At(p, "idle")
    /\ faults < MaxFaults
    /\ faults' = faults + 1
    /\ tmpFile' = KilledTmpFiles(p)
    /\ Return(p, NoResult)
    /\ UNCHANGED <<blobFile, bytes, stored>>

Substitute(b, other) ==
    /\ HostileDisk
    /\ blobFile[b] # NoFile
    /\ bytes' = [bytes EXCEPT ![blobFile[b]] = WholeBlob(other)]
    /\ UNCHANGED <<blobFile, tmpFile, proc, result, stored, faults>>

Step(p) ==
    \/ CheckExists(p)
    \/ OpenTmp(p)
    \/ WriteChunk(p)
    \/ Rename(p)
    \/ ReadChunk(p)

Next ==
    \/ \E p \in Procs :
           \/ Step(p)
           \/ \E b \in Blobs : StartPut(p, b) \/ StartGet(p, b)
           \/ OpenOrRenameFails(p) \/ WriteFails(p) \/ ReadFails(p)
           \/ Crash(p)
    \/ \E b, other \in Blobs : Substitute(b, other)

Spec == Init /\ [][Next]_vars

\* A process inside put or get runs on: it waits for nobody.
FairSpec == Spec /\ \A p \in Procs : WF_vars(Step(p))

-----------------------------------------------------------------------------
(* The type of every variable, and that a process holds what its phase     *)
(* needs; a put that creates its temporary file finds an inode for it.     *)
TypeOK ==
    /\ blobFile \in [Blobs -> Inodes \cup {NoFile}]
    /\ tmpFile \in [Blobs -> Inodes \cup {NoFile}]
    /\ bytes \in [Inodes -> [Positions -> Blobs \cup {Hole}]]
    /\ \A p \in Procs :
           /\ proc[p].at \in Phases
           /\ Open(p) /\ ~At(p, "rename") =>
                  proc[p].fd \in Inodes /\ proc[p].next \in Positions
           /\ At(p, "open") /\ tmpFile[proc[p].blob] = NoFile => FreeInodes # {}
    /\ stored \subseteq Blobs
    /\ faults \in 0 .. MaxFaults

Whole(b) == blobFile[b] # NoFile /\ bytes[blobFile[b]] = WholeBlob(b)

(***************************************************************************)
(* put may find no file to rename, because another put has taken the       *)
(* temporary file away; the blob is in the store then, so the caller's     *)
(* retry returns Ok at once.  Any other error says nothing of the kind.    *)
(***************************************************************************)
FailedPutIsStored ==
    \A p \in Procs :
        result[p].res = "not_found" /\ result[p].op = "put" =>
            blobFile[result[p].blob] # NoFile

(***************************************************************************)
(* As long as no process is killed and no write fails half-way, a blob's   *)
(* file is incomplete only while another put, which truncated it under its *)
(* temporary name, still holds it and is about to fill it.                 *)
(***************************************************************************)
TornOnlyWhileWritten ==
    faults = 0 =>
        \A b \in Blobs :
            blobFile[b] # NoFile /\ ~Whole(b) =>
                \E p \in Procs : At(p, "write") /\ HoldsInode(p, blobFile[b])

(***************************************************************************)
(* A blob's file that no put is at work on is never again replaced,        *)
(* truncated or written to by the store, also after kills and failed       *)
(* writes and whatever the temporary names lead to by then: a whole file   *)
(* stays whole, and a torn one that has got its final name is never        *)
(* repaired.                                                               *)
(***************************************************************************)
AtRest(b) ==
    /\ blobFile[b] # NoFile
    /\ \A p \in Procs :
           At(p, "open") \/ At(p, "write") \/ At(p, "rename") => proc[p].blob # b

RestingFileIsFinal ==
    [][\A b \in Blobs :
           AtRest(b) =>
               /\ AtRest(b)'
               /\ \/ bytes'[blobFile'[b]] = bytes[blobFile[b]]
                  \/ \E other \in Blobs : Substitute(b, other)]_vars

(***************************************************************************)
(* Seen from outside, put and get are the atomic operations of a store     *)
(* that loses nothing: what is there is what has its final name.  A get    *)
(* that overlaps a put of the same blob finds it or does not, and once it  *)
(* has its name nobody is told that the blob is missing.                   *)
(***************************************************************************)
Store == INSTANCE ContentStore WITH
    Content <- [b \in Blobs |-> WholeBlob(b)],
    present <- {b \in Blobs : blobFile[b] # NoFile}

ImplementsContentStore == Store!Spec

(***************************************************************************)
(* So, if no write is cut short, every blob a put has returned Ok for can  *)
(* in the end be read, for good: once the file exists no new put touches   *)
(* it.                                                                     *)
(***************************************************************************)
StoredStaysReadable == \A b \in Blobs : (b \in stored) ~> [](Whole(b))

(***************************************************************************)
(* The test different_ciphertext_cannot_substitute_for_referenced_hash     *)
(* reads back each blob right after put: assert_eq!(store.get(&hash_a)...).*)
(* With a second put of the same bytes in progress this need not hold.     *)
(***************************************************************************)
PutOkIsReadable ==
    \A p \in Procs :
        result[p].res = "ok" /\ result[p].op = "put" => Whole(result[p].blob)

=============================================================================
