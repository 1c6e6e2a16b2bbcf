---------------------------- MODULE BlobStoreProofs ----------------------------
(***************************************************************************)
(* Proofs about BlobStore, for any number of blobs, processes and chunks.  *)
(*                                                                         *)
(* A name leads to an inode no other name leads to, and whoever writes to  *)
(* an inode a name leads to writes that name's blob.  So a write never     *)
(* spoils a file that was whole, and a file that is not whole has a writer *)
(* all of whose chunks so far are in place: it will complete the file.     *)
(***************************************************************************)
EXTENDS BlobStore, FiniteSetTheorems, TLAPS

Contents == [Positions -> Blobs \cup {Hole}]

Writers == [at : {"write"}, blob : Blobs, fd : Inodes, next : Positions]
Readers == [at : {"read"}, blob : Blobs, fd : Inodes, next : Positions, seen : Contents]
Waiting == [at : {"exists", "open", "rename"}, blob : Blobs]

Results ==
    [op : {"put"}, blob : Blobs, res : {"ok", "not_found", "io_error"}]
    \cup [op : {"get"}, blob : Blobs, res : {"not_found", "io_error", "hash_mismatch"}]

Returned(r) ==
    \/ r = NoResult
    \/ r \in Results
    \/ \E b \in Blobs :
           r = [op |-> "get", blob |-> b, res |-> "ok", bytes |-> WholeBlob(b)]

Types ==
    /\ blobFile \in [Blobs -> Inodes \cup {NoFile}]
    /\ tmpFile \in [Blobs -> Inodes \cup {NoFile}]
    /\ bytes \in [Inodes -> Contents]
    /\ proc \in [Procs -> {Idle} \cup Waiting \cup Writers \cup Readers]
    /\ DOMAIN result = Procs
    /\ \A p \in Procs : Returned(result[p])
    /\ stored \subseteq Blobs
    /\ faults \in 0 .. MaxFaults

\* A put about to rename finds its temporary file, or another put has renamed it.
PutBacked ==
    \A p \in Procs : At(p, "write") \/ At(p, "rename") =>
        tmpFile[proc[p].blob] # NoFile \/ blobFile[proc[p].blob] # NoFile

\* No two names lead to one inode.
NamesApart ==
    \A b, e \in Blobs :
        /\ tmpFile[b] # NoFile => tmpFile[b] # blobFile[e]
        /\ b # e /\ tmpFile[b] # NoFile => tmpFile[b] # tmpFile[e]
        /\ b # e /\ blobFile[b] # NoFile => blobFile[b] # blobFile[e]

\* Whoever writes to the inode of a name writes that name's blob.
OwnWriters ==
    \A p \in Procs, b \in Blobs :
        At(p, "write") /\ proc[p].fd \in {tmpFile[b], blobFile[b]} => proc[p].blob = b

\* p has written b up to where it is in inode i, and nobody has truncated i since.
Filling(p, b, i) ==
    /\ At(p, "write") /\ proc[p].fd = i
    /\ \A k \in Positions : k < proc[p].next => bytes[i][k] = b

StoreInv ==
    /\ Types
    /\ PutBacked
    /\ FailedPutIsStored
    /\ NamesApart
    /\ OwnWriters

Filled ==
    faults = 0 =>
        \A b \in Blobs, i \in Inodes :
            i \in {tmpFile[b], blobFile[b]} =>
                bytes[i] = WholeBlob(b) \/ \E p \in Procs : Filling(p, b, i)

-----------------------------------------------------------------------------
LEMMA Known ==
    ASSUME StoreInv, NEW p \in Procs
    PROVE  /\ At(p, "idle") => proc[p] = Idle
           /\ At(p, "exists") \/ At(p, "open") \/ At(p, "rename") => proc[p] \in Waiting
           /\ At(p, "write") => proc[p] \in Writers
           /\ At(p, "read") => proc[p] \in Readers
           /\ proc[p].at \in Phases
BY DEF StoreInv, Types, At, Idle, Waiting, Writers, Readers, Phases

LEMMA InitInv == Init => StoreInv /\ Filled
<1> SUFFICES ASSUME Init PROVE StoreInv /\ Filled
    OBVIOUS
<1>1. Types
    BY FaultsAssumption, ChunkAssumption DEF Init, Types, Contents, Empty, Returned
<1>2. \A p \in Procs : proc[p].at = "idle" /\ result[p].res = "none"
    BY DEF Init, Idle, NoResult
<1>3. PutBacked /\ FailedPutIsStored /\ OwnWriters
    BY <1>2 DEF PutBacked, FailedPutIsStored, OwnWriters, At
<1>4. NamesApart /\ Filled
    BY InodesAssumption DEF Init, NamesApart, Filled
<1> QED BY <1>1, <1>3, <1>4 DEF StoreInv

(***************************************************************************)
(* Three images of finite sets do not cover Inodes when one value of two   *)
(* of them is NoFile.                                                      *)
(***************************************************************************)
LEMMA ImageSmall ==
    ASSUME NEW S, IsFiniteSet(S), NEW f, DOMAIN f = S
    PROVE  LET T == {f[x] : x \in S}
           IN  IsFiniteSet(T) /\ Cardinality(T) <= Cardinality(S)
<1> DEFINE T == {f[x] : x \in S}
           h == [x \in S |-> f[x]]
<1>1. h \in Surjection(S, T)
    BY DEF Surjection
<1> QED BY <1>1, FS_Surjection

LEMMA InodeFound ==
    ASSUME Types, NEW p \in Procs, At(p, "open"), tmpFile[proc[p].blob] = NoFile,
           proc[p].blob \in Blobs
    PROVE  NewInode \in FreeInodes
<1> DEFINE holding == [q \in Procs |-> IF At(q, "write") \/ At(q, "read")
                                       THEN proc[q].fd ELSE NoFile]
           A == {blobFile[b] : b \in Blobs}
           B == {tmpFile[b] : b \in Blobs}
           C == {holding[q] : q \in Procs}
<1>1. /\ IsFiniteSet(A) /\ Cardinality(A) <= Cardinality(Blobs)
      /\ IsFiniteSet(B) /\ Cardinality(B) <= Cardinality(Blobs)
      /\ IsFiniteSet(C) /\ Cardinality(C) <= Cardinality(Procs)
    <2>1. DOMAIN blobFile = Blobs /\ DOMAIN tmpFile = Blobs /\ DOMAIN holding = Procs
        BY DEF Types
    <2> HIDE DEF holding
    <2> QED BY <2>1, ImageSmall, InodesAssumption
<1>2. NoFile \in B
    OBVIOUS
<1> HIDE DEF A, B, C
<1> DEFINE AB == A \cup B
           ABC == AB \cup C
<1>3. /\ IsFiniteSet(ABC)
      /\ Cardinality(ABC) <= 2 * Cardinality(Blobs) + Cardinality(Procs)
    <2>1. /\ Cardinality(Blobs) \in Nat /\ Cardinality(Procs) \in Nat
          /\ Cardinality(A) \in Nat /\ Cardinality(B) \in Nat /\ Cardinality(C) \in Nat
        BY <1>1, FS_CardinalityType, InodesAssumption
    <2>2. IsFiniteSet(AB) /\ Cardinality(AB) <= Cardinality(A) + Cardinality(B)
        <3>1. /\ IsFiniteSet(AB)
              /\ Cardinality(AB)
                 = Cardinality(A) + Cardinality(B) - Cardinality(A \cap B)
            BY <1>1, FS_Union
        <3>2. IsFiniteSet(A \cap B)
            BY <1>1, FS_Intersection
        <3>3. Cardinality(A \cap B) \in Nat
            BY <3>2, FS_CardinalityType
        <3> QED BY <2>1, <3>1, <3>3
    <2>3. IsFiniteSet(ABC) /\ Cardinality(ABC) <= Cardinality(AB) + Cardinality(C)
        <3>1. /\ IsFiniteSet(ABC)
              /\ Cardinality(ABC)
                 = Cardinality(AB) + Cardinality(C) - Cardinality(AB \cap C)
            BY <1>1, <2>2, FS_Union
        <3>2. IsFiniteSet(AB \cap C)
            BY <1>1, <2>2, FS_Intersection
        <3>3. Cardinality(AB \cap C) \in Nat /\ Cardinality(AB) \in Nat
            BY <2>2, <3>2, FS_CardinalityType
        <3> QED BY <2>1, <3>1, <3>3
    <2>4. Cardinality(AB) \in Nat /\ Cardinality(ABC) \in Nat
        BY <2>2, <2>3, FS_CardinalityType
    <2> QED BY <1>1, <2>1, <2>2, <2>3, <2>4
<1>4. PICK i \in Inodes : i \notin ABC
    <2> SUFFICES ASSUME Inodes \subseteq ABC PROVE FALSE
        OBVIOUS
    <2>1. /\ IsFiniteSet(ABC \ {NoFile})
          /\ Cardinality(ABC \ {NoFile}) = Cardinality(ABC) - 1
        BY <1>2, <1>3, FS_RemoveElement
    <2>2. Inodes \in SUBSET (ABC \ {NoFile})
        BY InodesAssumption
    <2>3. Cardinality(Inodes) <= Cardinality(ABC \ {NoFile})
        BY <2>1, <2>2, FS_Subset
    <2>4. /\ Cardinality(Inodes) \in Nat /\ Cardinality(ABC) \in Nat
          /\ Cardinality(Blobs) \in Nat /\ Cardinality(Procs) \in Nat
        BY <1>3, FS_CardinalityType, InodesAssumption
    <2> QED BY <1>3, <2>1, <2>3, <2>4, InodesAssumption
<1>5. i \in FreeInodes
    BY <1>4 DEF FreeInodes, HoldsInode, A, B, C
<1> QED BY <1>5 DEF NewInode

-----------------------------------------------------------------------------
(* A step of p that leaves every file alone and does not make p a writer.  *)
LEMMA QuietStep ==
    ASSUME StoreInv, NEW p \in Procs, ~At(p, "write"),
           NEW c \in {Idle} \cup Waiting \cup Readers, NEW r,
           proc' = [proc EXCEPT ![p] = c],
           result' = result \/ (result' = [result EXCEPT ![p] = r] /\ Returned(r)),
           r = NoResult \/ r.op = "get" \/ r.res # "not_found" \/ blobFile[r.blob] # NoFile,
           c.at = "rename" => tmpFile[c.blob] # NoFile \/ blobFile[c.blob] # NoFile,
           UNCHANGED files, stored' \subseteq Blobs, faults' \in 0 .. MaxFaults
    PROVE  StoreInv' /\ (faults' = faults /\ Filled => Filled')
<1>1. /\ proc'[p] = c /\ c.at # "write"
      /\ \A q \in Procs \ {p} : proc'[q] = proc[q]
    BY DEF StoreInv, Types, Idle, Waiting, Readers
<1>2. Types'
    <2>1. proc' \in [Procs -> {Idle} \cup Waiting \cup Writers \cup Readers]
        BY DEF StoreInv, Types
    <2>2. DOMAIN result' = Procs /\ \A q \in Procs : Returned(result'[q])
        BY DEF StoreInv, Types
    <2>3. UNCHANGED <<blobFile, tmpFile, bytes>>
        BY DEF files
    <2> QED BY <2>1, <2>2, <2>3 DEF StoreInv, Types, Returned
<1>3. \A q \in Procs : /\ At(q, "write")' <=> At(q, "write")
                       /\ At(q, "write") => proc'[q] = proc[q]
    BY <1>1 DEF At
<1>4. PutBacked' /\ NamesApart' /\ OwnWriters'
    BY <1>1, <1>3 DEF StoreInv, PutBacked, NamesApart, OwnWriters, At, files
<1>5. FailedPutIsStored'
    <2>1. CASE result' = result
        BY <2>1 DEF StoreInv, FailedPutIsStored, files
    <2>2. CASE result' = [result EXCEPT ![p] = r]
        <3>1. result'[p] = r /\ \A q \in Procs \ {p} : result'[q] = result[q]
            BY <2>2 DEF StoreInv, Types
        <3>2. r.res = "not_found" /\ r.op = "put" => blobFile[r.blob] # NoFile
            BY DEF NoResult
        <3> QED BY <3>1, <3>2 DEF StoreInv, FailedPutIsStored, files
    <2> QED BY <2>1, <2>2
<1>6. ASSUME faults' = faults, Filled PROVE Filled'
    BY <1>3, <1>6 DEF Filled, Filling, files
<1> QED BY <1>2, <1>4, <1>5, <1>6 DEF StoreInv

LEMMA StartPutInv ==
    ASSUME StoreInv, NEW p \in Procs, NEW b \in Blobs, StartPut(p, b)
    PROVE  StoreInv' /\ (Filled => Filled')
<1> DEFINE c == [at |-> "exists", blob |-> b]
<1>1. c \in Waiting /\ c.at # "rename"
    BY DEF Waiting
<1>2. /\ proc' = [proc EXCEPT ![p] = c]
      /\ result' = [result EXCEPT ![p] = NoResult]
      /\ UNCHANGED <<files, stored, faults>> /\ ~At(p, "write")
    BY DEF StartPut, Begin, At
<1>3. Returned(NoResult) /\ NoResult.res # "not_found"
    BY DEF Returned, NoResult
<1> HIDE DEF c
<1> QED BY <1>1, <1>2, <1>3, QuietStep DEF StoreInv, Types

LEMMA CheckExistsInv ==
    ASSUME StoreInv, NEW p \in Procs, CheckExists(p)
    PROVE  StoreInv' /\ (Filled => Filled')
<1> DEFINE b == proc[p].blob
           r == [op |-> "put", blob |-> b, res |-> "ok"]
           c == [at |-> "open", blob |-> b]
<1>1. b \in Blobs /\ ~At(p, "write") /\ UNCHANGED <<files, faults>>
    BY Known DEF CheckExists, Waiting, At
<1>2. CASE /\ proc' = [proc EXCEPT ![p] = Idle]
           /\ result' = [result EXCEPT ![p] = r]
           /\ stored' = stored \cup {b}
    <2>1. Returned(r) /\ r.res = "ok" /\ Idle.at # "rename"
        BY <1>1 DEF Returned, Results, Idle
    <2>2. stored' \subseteq Blobs /\ faults' \in 0 .. MaxFaults
        BY <1>1, <1>2 DEF StoreInv, Types
    <2> HIDE DEF r, b
    <2> QED BY <1>1, <1>2, <2>1, <2>2, QuietStep
<1>3. CASE proc' = [proc EXCEPT ![p] = c] /\ UNCHANGED <<result, stored>>
    <2>1. c \in Waiting /\ c.at # "rename"
        BY <1>1 DEF Waiting
    <2> HIDE DEF c, b
    <2> QED BY <1>1, <1>3, <2>1, QuietStep DEF StoreInv, Types
<1> QED BY <1>2, <1>3 DEF CheckExists, PutOk, Return

LEMMA StartGetInv ==
    ASSUME StoreInv, NEW p \in Procs, NEW b \in Blobs, StartGet(p, b)
    PROVE  StoreInv' /\ (Filled => Filled')
<1> DEFINE r == [op |-> "get", blob |-> b, res |-> "not_found"]
           c == [ at |-> "read", blob |-> b, fd |-> blobFile[b], next |-> 1,
                  seen |-> Empty ]
<1>1. ~At(p, "write") /\ UNCHANGED <<files, stored, faults>>
    BY DEF StartGet, At
<1>2. CASE /\ proc' = [proc EXCEPT ![p] = Idle]
           /\ result' = [result EXCEPT ![p] = r]
    <2>1. Returned(r) /\ r.op = "get" /\ Idle.at # "rename"
        BY DEF Returned, Results, Idle
    <2> HIDE DEF r
    <2> QED BY <1>1, <1>2, <2>1, QuietStep DEF StoreInv, Types
<1>3. CASE /\ blobFile[b] # NoFile
           /\ proc' = [proc EXCEPT ![p] = c]
           /\ result' = [result EXCEPT ![p] = NoResult]
    <2>1. c \in Readers /\ c.at # "rename"
        BY <1>3, ChunkAssumption
        DEF Readers, StoreInv, Types, Positions, Contents, Empty
    <2>2. Returned(NoResult) /\ NoResult.res # "not_found"
        BY DEF Returned, NoResult
    <2> HIDE DEF c
    <2> QED BY <1>1, <1>3, <2>1, <2>2, QuietStep DEF StoreInv, Types
<1> QED BY <1>2, <1>3 DEF StartGet, Begin, Return

LEMMA ReadChunkInv ==
    ASSUME StoreInv, NEW p \in Procs, ReadChunk(p)
    PROVE  StoreInv' /\ (Filled => Filled')
<1> DEFINE w == proc[p]
           seen == [w.seen EXCEPT ![w.next] = bytes[w.fd][w.next]]
           c == [w EXCEPT !.seen = seen, !.next = @ + 1]
           r == IF Authentic(seen, w.blob)
                THEN [op |-> "get", blob |-> w.blob, res |-> "ok", bytes |-> seen]
                ELSE [op |-> "get", blob |-> w.blob, res |-> "hash_mismatch"]
<1>1. ~At(p, "write") /\ UNCHANGED <<files, stored, faults>> /\ w \in Readers
    BY Known DEF ReadChunk, At
<1>2. CASE w.next < Chunks /\ proc' = [proc EXCEPT ![p] = c] /\ UNCHANGED result
    <2>1. seen \in Contents /\ w.next + 1 \in Positions
        BY <1>1, <1>2, ChunkAssumption
        DEF Readers, StoreInv, Types, Positions, Contents
    <2> HIDE DEF seen
    <2>2. c \in Readers /\ c.at # "rename"
        BY <1>1, <2>1 DEF Readers
    <2> HIDE DEF c, w
    <2> QED BY <1>1, <1>2, <2>2, QuietStep DEF StoreInv, Types
<1>3. CASE /\ proc' = [proc EXCEPT ![p] = Idle]
           /\ result' = [result EXCEPT ![p] = r]
    <2>1. Returned(r) /\ r.op = "get" /\ Idle.at # "rename"
        <3>1. CASE Authentic(seen, w.blob)
            BY <1>1, <3>1 DEF Returned, Results, Idle, Authentic, Readers
        <3>2. CASE ~Authentic(seen, w.blob)
            BY <1>1, <3>2 DEF Returned, Results, Idle, Readers
        <3> QED BY <3>1, <3>2
    <2> HIDE DEF r, w
    <2> QED BY <1>1, <1>3, <2>1, QuietStep DEF StoreInv, Types
<1> QED
    <2>1. proc' = [proc EXCEPT ![p].seen = seen, ![p].next = @ + 1]
          => proc' = [proc EXCEPT ![p] = c]
        BY DEF StoreInv, Types
    <2> QED BY <1>2, <1>3, <2>1 DEF ReadChunk, Return

LEMMA QuietFailureInv ==
    ASSUME StoreInv, NEW p \in Procs, OpenOrRenameFails(p) \/ ReadFails(p)
    PROVE  StoreInv' /\ (Filled => Filled')
<1>1. /\ ~At(p, "write") /\ proc[p].blob \in Blobs
      /\ UNCHANGED <<files, stored, faults>>
    BY Known DEF OpenOrRenameFails, ReadFails, At, Waiting, Readers
<1>2. PICK op \in {"put", "get"} :
          /\ proc' = [proc EXCEPT ![p] = Idle]
          /\ result' = [result EXCEPT ![p] =
                 [op |-> op, blob |-> proc[p].blob, res |-> "io_error"]]
    BY DEF OpenOrRenameFails, ReadFails, PutError, Return
<1> DEFINE r == [op |-> op, blob |-> proc[p].blob, res |-> "io_error"]
<1>3. Returned(r) /\ r.res # "not_found" /\ Idle.at # "rename"
    BY <1>1 DEF Returned, Results, Idle
<1>4. result' = [result EXCEPT ![p] = r]
    BY <1>2
<1> HIDE DEF r
<1> QED BY <1>1, <1>2, <1>3, <1>4, QuietStep DEF StoreInv, Types

-----------------------------------------------------------------------------
(* The steps that write.                                                   *)
LEMMA OpenTmpInv ==
    ASSUME StoreInv, NEW p \in Procs, OpenTmp(p)
    PROVE  StoreInv' /\ (Filled => Filled')
<1> DEFINE b == proc[p].blob
<1>1. /\ At(p, "open") /\ b \in Blobs /\ proc[p].at = "open"
      /\ UNCHANGED <<blobFile, result, stored, faults>>
    BY Known DEF OpenTmp, At, Waiting
<1>2. PICK i : /\ i = IF tmpFile[b] = NoFile THEN NewInode ELSE tmpFile[b]
               /\ tmpFile' = [tmpFile EXCEPT ![b] = i]
               /\ bytes' = [bytes EXCEPT ![i] = Empty]
               /\ proc' = [proc EXCEPT ![p] =
                      [at |-> "write", blob |-> b, fd |-> i, next |-> 1]]
    BY DEF OpenTmp
<1>3. /\ i \in Inodes
      /\ i # tmpFile[b] =>
             /\ \A e \in Blobs : tmpFile[e] # i /\ blobFile[e] # i
             /\ \A q \in Procs : At(q, "write") => proc[q].fd # i
    <2>1. CASE tmpFile[b] = NoFile
        <3>1. NewInode \in FreeInodes
            BY <1>1, <2>1, InodeFound DEF StoreInv
        <3> QED BY <1>2, <2>1, <3>1 DEF FreeInodes, HoldsInode
    <2>2. CASE tmpFile[b] # NoFile
        BY <1>1, <1>2, <2>2 DEF StoreInv, Types
    <2> QED BY <2>1, <2>2
<1>4. /\ tmpFile'[b] = i /\ \A e \in Blobs \ {b} : tmpFile'[e] = tmpFile[e]
      /\ bytes'[i] = Empty /\ \A j \in Inodes \ {i} : bytes'[j] = bytes[j]
      /\ proc'[p].at = "write" /\ proc'[p].blob = b /\ proc'[p].fd = i
      /\ proc'[p].next = 1
      /\ \A q \in Procs \ {p} : proc'[q] = proc[q]
    BY <1>1, <1>2, <1>3 DEF StoreInv, Types
<1>5. Types'
    <2>1. [at |-> "write", blob |-> b, fd |-> i, next |-> 1] \in Writers
        BY <1>1, <1>3, ChunkAssumption DEF Writers, Positions
    <2>2. proc' \in [Procs -> {Idle} \cup Waiting \cup Writers \cup Readers]
        BY <1>2, <2>1 DEF StoreInv, Types
    <2>3. Empty \in Contents
        BY DEF Empty, Contents
    <2>4. /\ tmpFile' \in [Blobs -> Inodes \cup {NoFile}]
          /\ bytes' \in [Inodes -> Contents]
        BY <1>1, <1>2, <1>3, <2>3 DEF StoreInv, Types
    <2> QED BY <1>1, <2>2, <2>4 DEF StoreInv, Types, Returned
<1>6. i # NoFile
    BY <1>3, InodesAssumption
<1>7. NamesApart'
    BY <1>1, <1>3, <1>4, <1>6 DEF StoreInv, NamesApart
<1>8. PutBacked'
    <2>1. \A q \in Procs \ {p} : At(q, "write") \/ At(q, "rename") =>
              proc[q].blob \in Blobs
        BY Known DEF Waiting, Writers
    <2> QED BY <1>1, <1>4, <1>6, <2>1 DEF StoreInv, PutBacked, At
<1>9. FailedPutIsStored'
    BY <1>1 DEF StoreInv, FailedPutIsStored
<1>10. OwnWriters'
    <2> SUFFICES ASSUME NEW q \in Procs, NEW e \in Blobs, At(q, "write")',
                        proc'[q].fd \in {tmpFile'[e], blobFile'[e]}
                 PROVE  proc'[q].blob = e
        BY DEF OwnWriters
    <2>1. CASE q = p
        BY <1>1, <1>3, <1>4, <1>6, <2>1 DEF StoreInv, NamesApart
    <2>2. CASE q # p
        BY <1>1, <1>3, <1>4, <2>2 DEF StoreInv, OwnWriters, At
    <2> QED BY <2>1, <2>2
<1>11. ASSUME Filled PROVE Filled'
    <2> SUFFICES ASSUME faults' = 0, NEW e \in Blobs, NEW j \in Inodes,
                        j \in {tmpFile'[e], blobFile'[e]}
                 PROVE  bytes'[j] = WholeBlob(e) \/ \E q \in Procs : Filling(q, e, j)'
        BY DEF Filled
    <2>1. CASE j = i
        <3>1. Filling(p, e, j)'
            BY <1>4, <2>1 DEF Filling, At, Positions
        <3> QED BY <3>1
    <2>2. CASE j # i
        <3>1. j \in {tmpFile[e], blobFile[e]}
            BY <1>1, <1>4, <2>2
        <3>2. bytes[j] = WholeBlob(e) \/ \E q \in Procs : Filling(q, e, j)
            BY <1>1, <1>11, <3>1 DEF Filled
        <3>3. \A q \in Procs : Filling(q, e, j) => Filling(q, e, j)'
            BY <1>1, <1>4, <2>2 DEF Filling, At
        <3> QED BY <1>4, <2>2, <3>2, <3>3
    <2> QED BY <2>1, <2>2
<1> QED BY <1>5, <1>7, <1>8, <1>9, <1>10, <1>11 DEF StoreInv

LEMMA WriteChunkInv ==
    ASSUME StoreInv, NEW p \in Procs, WriteChunk(p)
    PROVE  StoreInv' /\ (Filled => Filled')
<1>1. /\ At(p, "write") /\ proc[p].at = "write"
      /\ UNCHANGED <<blobFile, tmpFile, result, stored, faults>>
    BY DEF WriteChunk, At
<1>2. PICK w \in Writers : w = proc[p]
    BY <1>1, Known
<1> DEFINE d == IF w.next = Chunks THEN [at |-> "rename", blob |-> w.blob]
                ELSE [w EXCEPT !.next = @ + 1]
<1>3. /\ w.at = "write" /\ w.blob \in Blobs /\ w.fd \in Inodes /\ w.next \in Positions
      /\ bytes' = [bytes EXCEPT ![w.fd][w.next] = w.blob]
      /\ proc' = [proc EXCEPT ![p] = d]
    BY <1>2 DEF WriteChunk, WriteDone, Writers
<1>4. /\ w.next = Chunks => d \in Waiting /\ d.at = "rename"
      /\ w.next # Chunks => /\ d \in Writers /\ d.at = "write" /\ d.fd = w.fd
                            /\ d.next = w.next + 1
      /\ d.blob = w.blob
    <2>1. w.next # Chunks => w.next + 1 \in Positions
        BY <1>3, ChunkAssumption DEF Positions
    <2> QED BY <1>2, <1>3, <2>1 DEF Waiting, Writers
<1> HIDE DEF d
<1>5. /\ proc'[p] = d /\ \A q \in Procs \ {p} : proc'[q] = proc[q]
      /\ \A j \in Inodes \ {w.fd} : bytes'[j] = bytes[j]
      /\ bytes'[w.fd] = [bytes[w.fd] EXCEPT ![w.next] = w.blob]
      /\ bytes[w.fd] \in Contents
    BY <1>3 DEF StoreInv, Types
<1>6. Types'
    <2>1. bytes'[w.fd] \in Contents
        BY <1>3, <1>5 DEF Contents
    <2>2. bytes' \in [Inodes -> Contents]
        BY <1>3, <1>5, <2>1 DEF StoreInv, Types
    <2>3. proc' \in [Procs -> {Idle} \cup Waiting \cup Writers \cup Readers]
        BY <1>3, <1>4 DEF StoreInv, Types
    <2> QED BY <1>1, <2>2, <2>3 DEF StoreInv, Types, Returned
<1>7. NamesApart' /\ FailedPutIsStored'
    BY <1>1 DEF StoreInv, NamesApart, FailedPutIsStored
<1>8. PutBacked'
    BY <1>1, <1>2, <1>4, <1>5 DEF StoreInv, PutBacked, At
<1>9. OwnWriters'
    BY <1>1, <1>2, <1>4, <1>5 DEF StoreInv, OwnWriters, At
<1>10. ASSUME Filled PROVE Filled'
    <2> SUFFICES ASSUME faults' = 0, NEW e \in Blobs, NEW j \in Inodes,
                        j \in {tmpFile'[e], blobFile'[e]}
                 PROVE  bytes'[j] = WholeBlob(e) \/ \E q \in Procs : Filling(q, e, j)'
        BY DEF Filled
    <2>1. bytes[j] = WholeBlob(e) \/ \E q \in Procs : Filling(q, e, j)
        BY <1>1, <1>10 DEF Filled
    <2>2. CASE j # w.fd
        <3>1. \A q \in Procs : Filling(q, e, j) => Filling(q, e, j)'
            BY <1>2, <1>5, <2>2 DEF Filling, At
        <3> QED BY <1>5, <2>1, <2>2, <3>1
    <2>3. CASE j = w.fd
        <3>1. w.blob = e
            BY <1>1, <1>2, <2>3 DEF StoreInv, OwnWriters
        <3>2. \A k \in Positions :
                  bytes'[j][k] = IF k = w.next THEN e ELSE bytes[j][k]
            BY <1>5, <2>3, <3>1 DEF Contents
        <3>3. CASE bytes[j] = WholeBlob(e)
            <4>1. \A k \in Positions : bytes'[j][k] = e
                BY <3>2, <3>3 DEF WholeBlob
            <4> QED BY <1>6, <2>3, <4>1 DEF Types, Contents, WholeBlob
        <3>4. ASSUME NEW q \in Procs, Filling(q, e, j)
              PROVE  bytes'[j] = WholeBlob(e) \/ \E r \in Procs : Filling(r, e, j)'
            <4>1. CASE q # p
                <5>1. Filling(q, e, j)'
                    BY <1>5, <3>2, <3>4, <4>1 DEF Filling, At
                <5> QED BY <5>1
            <4>2. CASE q = p /\ w.next # Chunks
                <5>1. Filling(q, e, j)'
                    BY <1>2, <1>3, <1>4, <1>5, <2>3, <3>2, <3>4, <4>2, ChunkAssumption
                    DEF Filling, At, Positions
                <5> QED BY <5>1
            <4>3. CASE q = p /\ w.next = Chunks
                <5>1. \A k \in Positions : bytes'[j][k] = e
                    BY <1>2, <3>2, <3>4, <4>3, ChunkAssumption DEF Filling, Positions
                <5> QED BY <1>6, <2>3, <5>1 DEF Types, Contents, WholeBlob
            <4> QED BY <4>1, <4>2, <4>3
        <3> QED BY <2>1, <3>3, <3>4
    <2> QED BY <2>2, <2>3
<1> QED BY <1>6, <1>7, <1>8, <1>9, <1>10 DEF StoreInv

LEMMA RenameInv ==
    ASSUME StoreInv, NEW p \in Procs, Rename(p)
    PROVE  StoreInv' /\ (Filled => Filled')
<1> DEFINE b == proc[p].blob
           r == [op |-> "put", blob |-> b, res |-> "not_found"]
<1>1. /\ At(p, "rename") /\ ~At(p, "write") /\ b \in Blobs
      /\ UNCHANGED <<bytes, faults>>
    BY Known DEF Rename, At, Waiting
<1>2. CASE tmpFile[b] = NoFile
    <2>1. /\ proc' = [proc EXCEPT ![p] = Idle]
          /\ result' = [result EXCEPT ![p] = r]
          /\ UNCHANGED <<files, stored>>
        BY <1>1, <1>2 DEF Rename, Return, files
    <2>2. Returned(r) /\ blobFile[r.blob] # NoFile /\ Idle.at # "rename"
        BY <1>1, <1>2 DEF Returned, Results, StoreInv, PutBacked, Idle
    <2> HIDE DEF r, b
    <2> QED BY <1>1, <2>1, <2>2, QuietStep DEF StoreInv, Types
<1>3. CASE tmpFile[b] # NoFile
    <2> DEFINE o == [op |-> "put", blob |-> b, res |-> "ok"]
    <2>1. /\ blobFile' = [blobFile EXCEPT ![b] = tmpFile[b]]
          /\ tmpFile' = [tmpFile EXCEPT ![b] = NoFile]
          /\ proc' = [proc EXCEPT ![p] = Idle]
          /\ result' = [result EXCEPT ![p] = o]
          /\ stored' = stored \cup {b}
        BY <1>3 DEF Rename, PutOk, Return
    <2>2. /\ blobFile'[b] = tmpFile[b] /\ tmpFile'[b] = NoFile
          /\ \A e \in Blobs \ {b} : blobFile'[e] = blobFile[e] /\ tmpFile'[e] = tmpFile[e]
          /\ proc'[p] = Idle /\ \A q \in Procs \ {p} : proc'[q] = proc[q]
          /\ result'[p] = o /\ \A q \in Procs \ {p} : result'[q] = result[q]
          /\ tmpFile[b] \in Inodes
        BY <1>1, <1>3, <2>1 DEF StoreInv, Types
    <2>3. Returned(o)
        BY <1>1 DEF Returned, Results
    <2>4. o.res # "not_found"
        OBVIOUS
    <2> HIDE DEF o
    <2>5. Types'
        <3>1. DOMAIN result' = Procs /\ \A q \in Procs : Returned(result'[q])
            BY <2>1, <2>2, <2>3 DEF StoreInv, Types
        <3>2. /\ blobFile' \in [Blobs -> Inodes \cup {NoFile}]
              /\ tmpFile' \in [Blobs -> Inodes \cup {NoFile}]
              /\ proc' \in [Procs -> {Idle} \cup Waiting \cup Writers \cup Readers]
              /\ stored' \subseteq Blobs
            BY <1>1, <2>1, <2>2 DEF StoreInv, Types
        <3> QED BY <1>1, <3>1, <3>2 DEF StoreInv, Types, Returned
    <2>6. \A q \in Procs : /\ At(q, "write")' <=> At(q, "write")
                           /\ At(q, "rename")' => At(q, "rename") /\ q # p
                           /\ q # p => proc'[q] = proc[q]
                           /\ At(q, "write") => q # p
        BY <1>1, <2>2 DEF At, Idle
    <2>7. NamesApart'
        BY <1>1, <1>3, <2>2 DEF StoreInv, NamesApart
    <2>8. PutBacked'
        <3>1. \A q \in Procs : At(q, "write") \/ At(q, "rename") =>
                  proc[q].blob \in Blobs
            BY Known DEF Waiting, Writers
        <3> QED BY <1>3, <2>2, <2>6, <3>1 DEF StoreInv, PutBacked
    <2>9. FailedPutIsStored'
        <3>1. \A q \in Procs : result[q].res = "not_found" /\ result[q].op = "put" =>
                  result[q].blob \in Blobs
            BY DEF StoreInv, Types, Returned, Results, NoResult
        <3> QED BY <1>3, <2>2, <2>4, <3>1 DEF StoreInv, FailedPutIsStored
    <2>10. OwnWriters'
        <3>1. \A q \in Procs : At(q, "write") => proc[q].fd # NoFile
            BY Known, InodesAssumption DEF Writers
        <3> QED BY <1>1, <2>2, <2>6, <3>1 DEF StoreInv, OwnWriters
    <2>11. ASSUME Filled PROVE Filled'
        <3>1. \A e \in Blobs, j \in Inodes :
                  j \in {tmpFile'[e], blobFile'[e]} => j \in {tmpFile[e], blobFile[e]}
            BY <2>2, InodesAssumption
        <3>2. \A q \in Procs : \A e, j : Filling(q, e, j) => Filling(q, e, j)'
            BY <1>1, <2>6 DEF Filling
        <3> QED BY <1>1, <2>11, <3>1, <3>2 DEF Filled
    <2> QED BY <2>5, <2>7, <2>8, <2>9, <2>10, <2>11 DEF StoreInv
<1> QED BY <1>2, <1>3

\* A call that is cut short leaves its temporary file, whole or not.
LEMMA CutShort ==
    ASSUME StoreInv, NEW p \in Procs, NEW r, Returned(r), r.res # "not_found",
           UNCHANGED <<blobFile, tmpFile, bytes, stored>>,
           faults < MaxFaults, faults' = faults + 1,
           proc' = [proc EXCEPT ![p] = Idle],
           result' = [result EXCEPT ![p] = r]
    PROVE  StoreInv' /\ Filled'
<1>1. /\ proc'[p] = Idle /\ \A q \in Procs \ {p} : proc'[q] = proc[q]
      /\ result'[p] = r /\ \A q \in Procs \ {p} : result'[q] = result[q]
    BY DEF StoreInv, Types
<1>2. faults' \in 1 .. MaxFaults
    BY FaultsAssumption DEF StoreInv, Types
<1>3. Types'
    <2>1. DOMAIN result' = Procs /\ \A q \in Procs : Returned(result'[q])
        BY <1>1 DEF StoreInv, Types, Returned
    <2>2. proc' \in [Procs -> {Idle} \cup Waiting \cup Writers \cup Readers]
        BY DEF StoreInv, Types
    <2> QED BY <1>2, <2>1, <2>2 DEF StoreInv, Types, Returned
<1>4. /\ Idle.at = "idle"
      /\ \A q \in Procs : At(q, "write")' \/ At(q, "rename")' => q # p
    BY <1>1 DEF Idle, At
<1>5. PutBacked' /\ FailedPutIsStored' /\ NamesApart' /\ OwnWriters'
    BY <1>1, <1>4
    DEF StoreInv, PutBacked, FailedPutIsStored, NamesApart, OwnWriters, At
<1>6. Filled'
    BY <1>2 DEF Filled
<1> QED BY <1>3, <1>5, <1>6 DEF StoreInv

LEMMA CutShortInv ==
    ASSUME StoreInv, NEW p \in Procs, Crash(p) \/ WriteFails(p)
    PROVE  StoreInv' /\ Filled'
<1>1. CASE Crash(p)
    <2>1. Returned(NoResult) /\ NoResult.res # "not_found"
        BY DEF Returned, NoResult
    <2>2. /\ UNCHANGED <<blobFile, tmpFile, bytes, stored>>
          /\ faults < MaxFaults /\ faults' = faults + 1
          /\ proc' = [proc EXCEPT ![p] = Idle]
          /\ result' = [result EXCEPT ![p] = NoResult]
        BY <1>1 DEF Crash, KilledTmpFiles, Return
    <2> QED BY <2>1, <2>2, CutShort
<1>2. CASE WriteFails(p)
    <2>1. PICK w \in Writers : w = proc[p]
        BY <1>2, Known DEF WriteFails
    <2> DEFINE r == [op |-> "put", blob |-> w.blob, res |-> "io_error"]
    <2>2. Returned(r) /\ r.res # "not_found"
        BY DEF Returned, Results, Writers
    <2>3. /\ UNCHANGED <<blobFile, tmpFile, bytes, stored>>
          /\ faults < MaxFaults /\ faults' = faults + 1
          /\ proc' = [proc EXCEPT ![p] = Idle]
          /\ result' = [result EXCEPT ![p] = r]
        BY <1>2, <2>1 DEF WriteFails, PutError, Return, files
    <2> HIDE DEF r
    <2> QED BY <2>2, <2>3, CutShort
<1> QED BY <1>1, <1>2

LEMMA SubstituteInv ==
    ASSUME StoreInv, NEW b \in Blobs, NEW other \in Blobs, Substitute(b, other)
    PROVE  StoreInv'
<1>1. /\ UNCHANGED <<blobFile, tmpFile, proc, result, stored, faults>>
      /\ bytes' = [bytes EXCEPT ![blobFile[b]] = WholeBlob(other)]
    BY DEF Substitute
<1>2. WholeBlob(other) \in Contents
    BY DEF WholeBlob, Contents
<1>3. Types'
    BY <1>1, <1>2 DEF StoreInv, Types, Returned
<1>4. PutBacked' /\ FailedPutIsStored' /\ NamesApart' /\ OwnWriters'
    BY <1>1 DEF StoreInv, PutBacked, FailedPutIsStored, NamesApart, OwnWriters, At
<1> QED BY <1>3, <1>4 DEF StoreInv

-----------------------------------------------------------------------------
LEMMA NextInv ==
    StoreInv /\ [Next]_vars => StoreInv' /\ (~HostileDisk /\ Filled => Filled')
<1> SUFFICES ASSUME StoreInv, [Next]_vars
             PROVE  StoreInv' /\ (~HostileDisk /\ Filled => Filled')
    OBVIOUS
<1>1. ASSUME NEW p \in Procs, Step(p) PROVE StoreInv' /\ (Filled => Filled')
    BY <1>1, CheckExistsInv, OpenTmpInv, WriteChunkInv, RenameInv, ReadChunkInv DEF Step
<1>2. ASSUME NEW p \in Procs, NEW b \in Blobs, StartPut(p, b) \/ StartGet(p, b)
      PROVE  StoreInv' /\ (Filled => Filled')
    BY <1>2, StartPutInv, StartGetInv
<1>3. ASSUME NEW p \in Procs,
             OpenOrRenameFails(p) \/ WriteFails(p) \/ ReadFails(p) \/ Crash(p)
      PROVE  StoreInv' /\ (Filled => Filled')
    BY <1>3, QuietFailureInv, CutShortInv
<1>4. ASSUME NEW b \in Blobs, NEW other \in Blobs, Substitute(b, other)
      PROVE  StoreInv' /\ HostileDisk
    BY <1>4, SubstituteInv DEF Substitute
<1>5. CASE UNCHANGED vars
    <2>1. UNCHANGED <<blobFile, tmpFile, bytes, proc, result, stored, faults>>
        BY <1>5 DEF vars, files
    <2> QED BY <2>1 DEF StoreInv, Types, Returned, PutBacked, FailedPutIsStored,
               NamesApart, OwnWriters, Filled, Filling, At
<1> QED BY <1>1, <1>2, <1>3, <1>4, <1>5 DEF Next

LEMMA StoreInvariant == Spec => []StoreInv
<1>1. Init => StoreInv
    BY InitInv
<1>2. StoreInv /\ [Next]_vars => StoreInv'
    BY NextInv
<1> QED BY <1>1, <1>2, PTL DEF Spec

(***************************************************************************)
(* Types, and a put that creates its temporary file finds an inode for it. *)
(***************************************************************************)
THEOREM StoreTypeCorrect == Spec => []TypeOK
<1>1. StoreInv => TypeOK
    <2> SUFFICES ASSUME StoreInv PROVE TypeOK
        OBVIOUS
    <2>1. ASSUME NEW p \in Procs
          PROVE  /\ proc[p].at \in Phases
                 /\ Open(p) /\ ~At(p, "rename") =>
                        proc[p].fd \in Inodes /\ proc[p].next \in Positions
                 /\ At(p, "open") /\ tmpFile[proc[p].blob] = NoFile => FreeInodes # {}
        <3>1. Open(p) /\ ~At(p, "rename") => proc[p] \in Writers \cup Readers
            BY Known DEF Open
        <3>2. At(p, "open") /\ tmpFile[proc[p].blob] = NoFile => NewInode \in FreeInodes
            BY Known, InodeFound DEF StoreInv, Waiting
        <3> QED BY <3>1, <3>2, Known DEF Writers, Readers
    <2> QED BY <2>1 DEF TypeOK, StoreInv, Types, Contents
<1> QED BY <1>1, StoreInvariant, PTL

(***************************************************************************)
(* BlobStore::put: when it finds nothing to rename another put has stored  *)
(* the blob, whatever other calls have failed and whoever was killed.      *)
(***************************************************************************)
THEOREM FailedPutStored == Spec => []FailedPutIsStored
<1>1. StoreInv => FailedPutIsStored
    BY DEF StoreInv
<1> QED BY <1>1, StoreInvariant, PTL

(***************************************************************************)
(* BlobStore::put: if no put was killed or failed in its write, and with   *)
(* no other program at the files, a file that is incomplete is one that a  *)
(* put is still writing to.                                                *)
(***************************************************************************)
THEOREM TornIsBeingWritten ==
    ASSUME ~HostileDisk
    PROVE  Spec => []TornOnlyWhileWritten
<1>1. StoreInv /\ Filled => TornOnlyWhileWritten
    <2> SUFFICES ASSUME StoreInv, Filled, faults = 0, NEW b \in Blobs,
                        blobFile[b] # NoFile, ~Whole(b)
                 PROVE  \E p \in Procs : At(p, "write") /\ HoldsInode(p, blobFile[b])
        BY DEF TornOnlyWhileWritten
    <2>1. blobFile[b] \in Inodes
        BY DEF StoreInv, Types
    <2>2. PICK p \in Procs : Filling(p, b, blobFile[b])
        BY <2>1 DEF Filled, Whole
    <2> QED BY <2>2 DEF Filling, HoldsInode
<1>2. Init => StoreInv /\ Filled
    BY InitInv
<1>3. StoreInv /\ Filled /\ [Next]_vars => (StoreInv /\ Filled)'
    BY NextInv
<1> QED BY <1>1, <1>2, <1>3, PTL DEF Spec

-----------------------------------------------------------------------------
(* Files no put is at work on.                                             *)

\* A call of p ends without having done what it was to do.
Fails(p) == OpenOrRenameFails(p) \/ WriteFails(p) \/ ReadFails(p) \/ Crash(p)

Kept(b) == AtRest(b)' /\ bytes'[blobFile'[b]] = bytes[blobFile[b]]

\* A process that does not begin to work on b, and leaves its file alone.
LEMMA KeptBy ==
    ASSUME StoreInv, NEW b \in Blobs, AtRest(b), NEW p \in Procs, NEW c,
           proc' = [proc EXCEPT ![p] = c],
           c.at \in {"open", "write", "rename"} => c.blob # b,
           blobFile'[b] = blobFile[b], bytes'[blobFile[b]] = bytes[blobFile[b]]
    PROVE  Kept(b)
<1>1. proc'[p] = c /\ \A q \in Procs \ {p} : proc'[q] = proc[q]
    BY DEF StoreInv, Types
<1> QED BY <1>1 DEF Kept, AtRest, At

LEMMA ReadersKeep ==
    ASSUME StoreInv, NEW b \in Blobs, AtRest(b), NEW p \in Procs,
           \/ \E e \in Blobs : StartPut(p, e) \/ StartGet(p, e)
           \/ CheckExists(p) \/ ReadChunk(p) \/ Fails(p)
    PROVE  Kept(b)
<1>1. blobFile'[b] = blobFile[b] /\ bytes'[blobFile[b]] = bytes[blobFile[b]]
    BY DEF StartPut, StartGet, CheckExists, ReadChunk, Fails, OpenOrRenameFails,
           WriteFails, ReadFails, Crash, files
<1>2. Idle.at = "idle"
    BY DEF Idle
<1>3. ASSUME NEW e \in Blobs, StartPut(p, e) PROVE Kept(b)
    BY <1>1, <1>3, KeptBy DEF StartPut, Begin
<1>4. ASSUME NEW e \in Blobs, StartGet(p, e) PROVE Kept(b)
    BY <1>1, <1>2, <1>4, KeptBy DEF StartGet, Begin, Return
<1>5. CASE CheckExists(p)
    BY <1>1, <1>2, <1>5, KeptBy DEF CheckExists, PathExists, PutOk, Return, AtRest
<1>6. CASE ReadChunk(p)
    <2>1. PICK w \in Readers : w = proc[p]
        BY <1>6, Known DEF ReadChunk
    <2> DEFINE seen == [w.seen EXCEPT ![w.next] = bytes[w.fd][w.next]]
               c == [w EXCEPT !.seen = seen, !.next = @ + 1]
    <2>2. \/ proc' = [proc EXCEPT ![p] = Idle]
          \/ proc' = [proc EXCEPT ![p] = c]
        BY <1>6, <2>1 DEF ReadChunk, Return, StoreInv, Types
    <2>3. c.at = "read"
        BY DEF Readers
    <2> HIDE DEF c
    <2> QED BY <1>1, <1>2, <2>2, <2>3, KeptBy
<1>7. CASE Fails(p)
    BY <1>1, <1>2, <1>7, KeptBy DEF Fails, OpenOrRenameFails, WriteFails, ReadFails,
       Crash, PutError, Return
<1> QED BY <1>3, <1>4, <1>5, <1>6, <1>7

\* The inode of a file at rest is in nobody's hands: names lead to different
\* inodes, and whoever holds b's inode to write holds it as b's.
LEMMA WritersKeep ==
    ASSUME StoreInv, NEW b \in Blobs, AtRest(b), NEW p \in Procs,
           OpenTmp(p) \/ WriteChunk(p) \/ Rename(p)
    PROVE  Kept(b)
<1>1. blobFile[b] \in Inodes
    BY DEF AtRest, StoreInv, Types
<1>2. CASE OpenTmp(p)
    <2> DEFINE e == proc[p].blob
    <2>1. At(p, "open") /\ e \in Blobs /\ e # b
        BY <1>2, Known DEF OpenTmp, Waiting, AtRest
    <2>2. PICK i : /\ i = IF tmpFile[e] = NoFile THEN NewInode ELSE tmpFile[e]
                   /\ bytes' = [bytes EXCEPT ![i] = Empty]
                   /\ proc' = [proc EXCEPT ![p] =
                          [at |-> "write", blob |-> e, fd |-> i, next |-> 1]]
        BY <1>2 DEF OpenTmp
    <2>3. i # blobFile[b]
        <3>1. CASE tmpFile[e] = NoFile
            <4>1. NewInode \in FreeInodes
                BY <2>1, <3>1, InodeFound DEF StoreInv
            <4> QED BY <2>2, <3>1, <4>1 DEF FreeInodes
        <3>2. CASE tmpFile[e] # NoFile
            BY <2>1, <2>2, <3>2 DEF StoreInv, NamesApart
        <3> QED BY <3>1, <3>2
    <2>4. blobFile'[b] = blobFile[b] /\ bytes'[blobFile[b]] = bytes[blobFile[b]]
        BY <1>1, <1>2, <2>2, <2>3 DEF OpenTmp, StoreInv, Types
    <2> QED BY <2>1, <2>2, <2>4, KeptBy
<1>3. CASE WriteChunk(p)
    <2>1. At(p, "write")
        BY <1>3 DEF WriteChunk
    <2>2. PICK w \in Writers : w = proc[p]
        BY <2>1, Known
    <2>3. w.blob # b
        BY <2>1, <2>2 DEF AtRest
    <2>4. w.fd # blobFile[b]
        BY <2>1, <2>2, <2>3 DEF StoreInv, OwnWriters
    <2>5. blobFile'[b] = blobFile[b] /\ bytes'[blobFile[b]] = bytes[blobFile[b]]
        BY <1>1, <1>3, <2>2, <2>4 DEF WriteChunk, StoreInv, Types
    <2> DEFINE c == IF WriteDone(w.next) THEN [at |-> "rename", blob |-> w.blob]
                    ELSE [w EXCEPT !.next = @ + 1]
    <2>6. c.blob = w.blob
        BY DEF Writers
    <2>7. proc' = [proc EXCEPT ![p] = c]
        BY <1>3, <2>2 DEF WriteChunk
    <2> HIDE DEF c
    <2> QED BY <2>3, <2>5, <2>6, <2>7, KeptBy
<1>4. CASE Rename(p)
    <2>1. proc[p].blob # b /\ UNCHANGED bytes
        BY <1>4 DEF Rename, AtRest
    <2>2. blobFile'[b] = blobFile[b]
        BY <1>4, <2>1 DEF Rename, StoreInv, Types
    <2>3. proc' = [proc EXCEPT ![p] = Idle] /\ Idle.at = "idle"
        BY <1>4 DEF Rename, PutOk, Return, Idle
    <2> QED BY <2>1, <2>2, <2>3, KeptBy
<1> QED BY <1>2, <1>3, <1>4

LEMMA RestingStep ==
    ASSUME StoreInv, [Next]_vars, NEW b \in Blobs, AtRest(b)
    PROVE  /\ AtRest(b)'
           /\ \/ bytes'[blobFile'[b]] = bytes[blobFile[b]]
              \/ \E other \in Blobs : Substitute(b, other)
<1>1. ASSUME NEW p \in Procs,
             \/ Step(p) \/ Fails(p)
             \/ \E e \in Blobs : StartPut(p, e) \/ StartGet(p, e)
      PROVE  Kept(b)
    BY <1>1, ReadersKeep, WritersKeep DEF Step
<1>2. ASSUME NEW e \in Blobs, NEW other \in Blobs, Substitute(e, other)
      PROVE  /\ AtRest(b)'
             /\ e # b => bytes'[blobFile'[b]] = bytes[blobFile[b]]
    <2>1. /\ UNCHANGED <<blobFile, proc>> /\ blobFile[e] # NoFile
          /\ bytes' = [bytes EXCEPT ![blobFile[e]] = WholeBlob(other)]
        BY <1>2 DEF Substitute
    <2>2. AtRest(b)'
        BY <2>1 DEF AtRest, At
    <2>3. ASSUME e # b PROVE bytes'[blobFile'[b]] = bytes[blobFile[b]]
        <3>1. blobFile[e] # blobFile[b] /\ blobFile[b] \in Inodes
            BY <2>1, <2>3 DEF StoreInv, Types, NamesApart, AtRest
        <3> QED BY <2>1, <3>1 DEF StoreInv, Types
    <2> QED BY <2>2, <2>3
<1>3. CASE UNCHANGED vars
    <2>1. UNCHANGED <<blobFile, bytes, proc>>
        BY <1>3 DEF vars, files
    <2> QED BY <2>1 DEF AtRest, At
<1>4. CASE Next
    <2>1. CASE \E p \in Procs : \/ Step(p) \/ Fails(p)
                                \/ \E e \in Blobs : StartPut(p, e) \/ StartGet(p, e)
        BY <1>1, <2>1 DEF Kept
    <2>2. CASE \E e, other \in Blobs : Substitute(e, other)
        BY <1>2, <2>2
    <2> QED BY <1>4, <2>1, <2>2 DEF Next, Fails
<1> QED BY <1>3, <1>4

(***************************************************************************)
(* BlobStore::put: once no put is at work on a blob's file the store never *)
(* touches it again, after any kills and failed calls: what is whole stays *)
(* whole, and what is torn stays torn.                                     *)
(***************************************************************************)
THEOREM RestingFilesAreFinal == Spec => RestingFileIsFinal
<1> DEFINE Final == \A b \in Blobs :
               AtRest(b) =>
                   /\ AtRest(b)'
                   /\ \/ bytes'[blobFile'[b]] = bytes[blobFile[b]]
                      \/ \E other \in Blobs : Substitute(b, other)
<1>1. StoreInv /\ [Next]_vars => Final
    BY RestingStep
<1> QED BY <1>1, StoreInvariant, PTL DEF Spec, RestingFileIsFinal

(***************************************************************************)
(* BlobStore::put: if no put was killed or failed in its write, and with   *)
(* no other program at the files, a file that no put is at work on is the  *)
(* whole blob.  With the theorem above it can then be read for good: that  *)
(* is StoredStaysReadable but for the claim that puts come to an end.      *)
(***************************************************************************)
THEOREM RestingFilesAreWhole ==
    ASSUME ~HostileDisk
    PROVE  Spec => [](faults = 0 => \A b \in Blobs : AtRest(b) => Whole(b))
<1> DEFINE Readable == faults = 0 => \A b \in Blobs : AtRest(b) => Whole(b)
<1>1. StoreInv /\ TornOnlyWhileWritten => Readable
    <2> SUFFICES ASSUME StoreInv, TornOnlyWhileWritten, faults = 0,
                        NEW b \in Blobs, AtRest(b), ~Whole(b)
                 PROVE  FALSE
        OBVIOUS
    <2>1. PICK p \in Procs : At(p, "write") /\ HoldsInode(p, blobFile[b])
        BY DEF TornOnlyWhileWritten, AtRest
    <2>2. proc[p].blob = b
        BY <2>1 DEF HoldsInode, StoreInv, OwnWriters
    <2> QED BY <2>1, <2>2 DEF AtRest
<1> QED BY <1>1, StoreInvariant, TornIsBeingWritten, PTL

-----------------------------------------------------------------------------
(* The store the files implement.                                          *)

\* What a get is reading has had its final name since the get began.
ReadersFound == \A p \in Procs : At(p, "read") => blobFile[proc[p].blob] # NoFile

LEMMA FilesStay ==
    ASSUME StoreInv, [Next]_vars, NEW b \in Blobs, blobFile[b] # NoFile
    PROVE  blobFile'[b] # NoFile
<1>1. ASSUME NEW p \in Procs, Rename(p) PROVE blobFile'[b] # NoFile
    BY <1>1 DEF Rename, StoreInv, Types
<1>2. CASE UNCHANGED blobFile
    BY <1>2
<1> QED BY <1>1, <1>2 DEF Next, Step, StartPut, StartGet, CheckExists, OpenTmp,
            WriteChunk, ReadChunk, OpenOrRenameFails, WriteFails, ReadFails, Crash,
            Substitute, vars, files

LEMMA ReadersFoundStep == StoreInv /\ ReadersFound /\ [Next]_vars => ReadersFound'
<1> SUFFICES ASSUME StoreInv, ReadersFound, [Next]_vars, NEW q \in Procs, At(q, "read")'
             PROVE  blobFile'[proc'[q].blob] # NoFile
    BY DEF ReadersFound
<1>1. \A b \in Blobs : blobFile[b] # NoFile => blobFile'[b] # NoFile
    BY FilesStay
<1>2. At(q, "read") => proc[q].blob \in Blobs /\ blobFile[proc[q].blob] # NoFile
    BY Known DEF ReadersFound, Readers
<1>3. CASE proc'[q] = proc[q]
    BY <1>1, <1>2, <1>3 DEF At
<1>4. CASE proc'[q] # proc[q]
    <2>1. PICK p \in Procs : \/ Step(p) \/ Fails(p)
                             \/ \E b \in Blobs : StartPut(p, b) \/ StartGet(p, b)
        BY <1>4 DEF Next, Fails, Substitute, vars
    <2>2. Idle.at = "idle" /\ proc \in [Procs -> {Idle} \cup Waiting \cup Writers \cup Readers]
        BY DEF Idle, StoreInv, Types
    <2>3. ASSUME NEW b \in Blobs, StartGet(p, b) PROVE blobFile'[proc'[q].blob] # NoFile
        <3>1. PICK c : /\ proc' = [proc EXCEPT ![p] = c]
                       /\ c = Idle \/ (c.blob = b /\ blobFile[b] # NoFile)
            BY <2>3 DEF StartGet, Begin, Return
        <3>2. p = q /\ proc'[q] = c
            BY <1>4, <2>2, <3>1
        <3> QED BY <1>1, <2>2, <3>1, <3>2 DEF At
    <2>4. CASE ReadChunk(p)
        <3>1. At(p, "read")
            BY <2>4 DEF ReadChunk
        <3>2. PICK w \in Readers : w = proc[p]
            BY <3>1, Known
        <3> DEFINE seen == [w.seen EXCEPT ![w.next] = bytes[w.fd][w.next]]
                   c == [w EXCEPT !.seen = seen, !.next = @ + 1]
        <3>3. \/ proc' = [proc EXCEPT ![p] = Idle]
              \/ proc' = [proc EXCEPT ![p] = c]
            BY <2>2, <2>4, <3>2 DEF ReadChunk, Return
        <3>4. c.blob = w.blob
            BY DEF Readers
        <3> HIDE DEF c
        <3>5. p = q /\ (proc'[q] = Idle \/ proc'[q] = c)
            BY <1>4, <2>2, <3>3
        <3> QED BY <1>1, <1>2, <2>2, <3>1, <3>2, <3>4, <3>5 DEF At
    <2>5. CASE \/ CheckExists(p) \/ OpenTmp(p) \/ Rename(p) \/ Fails(p)
               \/ \E b \in Blobs : StartPut(p, b)
        <3>1. PICK c : proc' = [proc EXCEPT ![p] = c] /\ c.at # "read"
            BY <2>2, <2>5 DEF CheckExists, OpenTmp, Rename, Fails, OpenOrRenameFails,
               WriteFails, ReadFails, Crash, StartPut, Begin, PutOk, PutError, Return
        <3> QED BY <1>4, <2>2, <3>1 DEF At
    <2>6. CASE WriteChunk(p)
        <3>1. At(p, "write")
            BY <2>6 DEF WriteChunk
        <3>2. PICK w \in Writers : w = proc[p]
            BY <3>1, Known
        <3> DEFINE c == IF WriteDone(w.next) THEN [at |-> "rename", blob |-> w.blob]
                        ELSE [w EXCEPT !.next = @ + 1]
        <3>3. c.at # "read"
            BY DEF Writers
        <3>4. proc' = [proc EXCEPT ![p] = c]
            BY <2>6, <3>2 DEF WriteChunk
        <3> HIDE DEF c
        <3> QED BY <1>4, <2>2, <3>3, <3>4 DEF At
    <2> QED BY <2>1, <2>3, <2>4, <2>5, <2>6 DEF Step
<1> QED BY <1>3, <1>4

LEMMA StoreStutters ==
    ASSUME UNCHANGED <<blobFile, result>>
    PROVE  UNCHANGED Store!storeVars
BY DEF Store!storeVars

\* Each operation takes effect in one of its system calls.
LEMMA PutTakesEffect ==
    ASSUME StoreInv, NEW p \in Procs, CheckExists(p) \/ Rename(p)
    PROVE  Store!Next \/ UNCHANGED Store!storeVars
<1>1. PICK b \in Blobs : b = proc[p].blob
    BY Known DEF CheckExists, Rename, Waiting
<1>2. CASE CheckExists(p)
    <2>1. UNCHANGED blobFile
        BY <1>2 DEF CheckExists, files
    <2>2. CASE blobFile[b] # NoFile
        <3>1. result' = [result EXCEPT ![p] = [op |-> "put", blob |-> b, res |-> "ok"]]
            BY <1>1, <1>2, <2>2 DEF CheckExists, PathExists, PutOk, Return
        <3>2. Store!Put(p, b)
            BY <1>1, <2>1, <2>2, <3>1 DEF Store!Put, Store!Returns
        <3> QED BY <1>1, <3>2 DEF Store!Next
    <2>3. CASE blobFile[b] = NoFile
        BY <1>1, <1>2, <2>1, <2>3, StoreStutters DEF CheckExists, PathExists
    <2> QED BY <2>2, <2>3
<1>3. CASE Rename(p)
    <2>1. CASE tmpFile[b] = NoFile
        <3>1. /\ UNCHANGED blobFile
              /\ result' = [result EXCEPT ![p] =
                                [op |-> "put", blob |-> b, res |-> "not_found"]]
            BY <1>1, <1>3, <2>1 DEF Rename, Return
        <3>2. blobFile[b] # NoFile
            BY <1>1, <1>3, <2>1 DEF Rename, StoreInv, PutBacked
        <3>3. Store!PutOvertaken(p, b)
            BY <1>1, <3>1, <3>2 DEF Store!PutOvertaken, Store!Returns
        <3> QED BY <1>1, <3>3 DEF Store!Next
    <2>2. CASE tmpFile[b] # NoFile
        <3>1. /\ blobFile' = [blobFile EXCEPT ![b] = tmpFile[b]]
              /\ result' = [result EXCEPT ![p] =
                                [op |-> "put", blob |-> b, res |-> "ok"]]
            BY <1>1, <1>3, <2>2 DEF Rename, PutOk, Return
        <3>2. {e \in Blobs : blobFile'[e] # NoFile}
              = {e \in Blobs : blobFile[e] # NoFile} \cup {b}
            BY <1>1, <2>2, <3>1 DEF StoreInv, Types
        <3>3. Store!Put(p, b)
            BY <3>1, <3>2 DEF Store!Put, Store!Returns
        <3> QED BY <1>1, <3>3 DEF Store!Next
    <2> QED BY <2>1, <2>2
<1> QED BY <1>2, <1>3

LEMMA GetTakesEffect ==
    ASSUME StoreInv, ReadersFound, NEW p \in Procs,
           ReadChunk(p) \/ \E b \in Blobs : StartGet(p, b)
    PROVE  Store!Next \/ UNCHANGED Store!storeVars
<1>1. UNCHANGED blobFile
    BY DEF ReadChunk, StartGet, files
<1>2. ASSUME NEW b \in Blobs, StartGet(p, b)
      PROVE  Store!Next \/ UNCHANGED Store!storeVars
    <2>1. CASE blobFile[b] = NoFile
        <3>1. result' = [result EXCEPT ![p] =
                             [op |-> "get", blob |-> b, res |-> "not_found"]]
            BY <1>2, <2>1 DEF StartGet, Return
        <3>2. Store!GetAbsent(p, b)
            BY <1>1, <2>1, <3>1 DEF Store!GetAbsent, Store!Returns
        <3> QED BY <3>2 DEF Store!Next
    <2>2. CASE blobFile[b] # NoFile
        <3>1. result' = [result EXCEPT ![p] = NoResult]
            BY <1>2, <2>2 DEF StartGet, Begin
        <3>2. Store!Silent(p)
            BY <1>1, <3>1 DEF Store!Silent, Store!Returns
        <3> QED BY <3>2 DEF Store!Next
    <2> QED BY <2>1, <2>2
<1>3. CASE ReadChunk(p)
    <2>1. At(p, "read")
        BY <1>3 DEF ReadChunk
    <2>2. PICK w \in Readers : w = proc[p]
        BY <2>1, Known
    <2>3. w.blob \in Blobs /\ blobFile[w.blob] # NoFile
        BY <2>1, <2>2 DEF Readers, ReadersFound
    <2>4. CASE w.next < Chunks
        BY <1>1, <1>3, <2>2, <2>4, StoreStutters DEF ReadChunk
    <2>5. CASE ~(w.next < Chunks)
        <3>1. \/ result' = [result EXCEPT ![p] =
                     [ op |-> "get", blob |-> w.blob, res |-> "ok",
                       bytes |-> WholeBlob(w.blob) ]]
              \/ result' = [result EXCEPT ![p] =
                     [op |-> "get", blob |-> w.blob, res |-> "hash_mismatch"]]
            BY <1>3, <2>2, <2>5 DEF ReadChunk, Return, Authentic
        <3>2. Store!Get(p, w.blob) \/ Store!GetSpoiled(p, w.blob)
            BY <1>1, <2>3, <3>1 DEF Store!Get, Store!GetSpoiled, Store!Returns
        <3> QED BY <2>3, <3>2 DEF Store!Next
    <2> QED BY <2>4, <2>5
<1> QED BY <1>2, <1>3

LEMMA StoreStep ==
    StoreInv /\ ReadersFound /\ [Next]_vars => [Store!Next]_(Store!storeVars)
<1> SUFFICES ASSUME StoreInv, ReadersFound, [Next]_vars
             PROVE  Store!Next \/ UNCHANGED Store!storeVars
    OBVIOUS
<1>1. ASSUME NEW p \in Procs,
             \/ CheckExists(p) \/ Rename(p) \/ ReadChunk(p)
             \/ \E b \in Blobs : StartGet(p, b)
      PROVE  Store!Next \/ UNCHANGED Store!storeVars
    BY <1>1, PutTakesEffect, GetTakesEffect
<1>2. ASSUME NEW p \in Procs, Crash(p) \/ \E b \in Blobs : StartPut(p, b)
      PROVE  Store!Next
    <2>1. UNCHANGED blobFile /\ result' = [result EXCEPT ![p] = NoResult]
        BY <1>2 DEF Crash, StartPut, Begin, Return, files
    <2>2. Store!Silent(p)
        BY <2>1 DEF Store!Silent, Store!Returns
    <2> QED BY <2>2 DEF Store!Next
<1>3. ASSUME NEW p \in Procs, OpenOrRenameFails(p) \/ WriteFails(p) \/ ReadFails(p)
      PROVE  Store!Next
    <2>1. PICK b \in Blobs : b = proc[p].blob
        BY <1>3, Known DEF OpenOrRenameFails, WriteFails, ReadFails, Waiting, Writers,
           Readers
    <2>2. PICK op \in {"put", "get"} :
              result' = [result EXCEPT ![p] = [op |-> op, blob |-> b, res |-> "io_error"]]
        BY <1>3, <2>1 DEF OpenOrRenameFails, WriteFails, ReadFails, PutError, Return
    <2>3. UNCHANGED blobFile
        BY <1>3 DEF OpenOrRenameFails, WriteFails, ReadFails, files
    <2>4. Store!CallFails(p, op, b)
        BY <2>2, <2>3 DEF Store!CallFails, Store!Returns
    <2> QED BY <2>4 DEF Store!Next
<1>4. CASE UNCHANGED <<blobFile, result>>
    BY <1>4, StoreStutters
<1>5. ASSUME NEW p \in Procs, OpenTmp(p) \/ WriteChunk(p)
      PROVE  UNCHANGED <<blobFile, result>>
    BY <1>5 DEF OpenTmp, WriteChunk, files
<1> QED BY <1>1, <1>2, <1>3, <1>4, <1>5 DEF Next, Step, Substitute, vars, files

(***************************************************************************)
(* BlobStore: files, temporary names and renames, with any number of       *)
(* processes killed at any moment and any system call failing, make a      *)
(* store that loses nothing: a blob once present stays, and a failed put   *)
(* promises the blob only if what failed is that its file was gone.        *)
(***************************************************************************)
THEOREM FilesImplementStore == Spec => ImplementsContentStore
<1>1. Init => ReadersFound /\ Store!Init
    BY DEF Init, ReadersFound, At, Idle, Store!Init
<1>2. StoreInv /\ ReadersFound /\ [Next]_vars => ReadersFound'
    BY ReadersFoundStep
<1> QED BY <1>1, <1>2, StoreInvariant, StoreStep, PTL
        DEF Spec, ImplementsContentStore, Store!Spec

================================================================================
