# Confidential token lab: specification and proofs

This directory specifies the Solana FHE confidential token lab in TLA+. It
covers the on-chain coordinator program, the signature look-back it relies on,
the shared ciphertext store, the keys and what is encrypted under them, and the
devnet client with its two ways of sending a transaction. The TLC configurations
check the modules on small instances; the theorems are proved with TLAPS for
every value of the constants. Source paths below are relative to `src/`.

## 1. The system and its parts

A token owner submits a policy request (`amount <= balance` and
`amount <= limit`) over ciphertexts that live off chain. The coordinator program records
hashes, locks the owner's account for the one request, and waits. A worker
evaluates the circuit with the evaluation key and signs the result. Somebody,
not necessarily the worker, sends a transaction with that signature, and the
program records the result hash if the signature is by the operator the request
is bound to. The owner may cancel, and after the expiry slot anyone may expire.

| Component | Source | State | Operations | What makes it correct |
|---|---|---|---|---|
| Coordinator program | `programs/confidential-coordinator/src/lib.rs`, `state.rs` | `Config` per mint, `ConfidentialAccount` per mint and owner, `Request` per account and nonce | initialize_config, set_paused, rotate_operator, set_key_version, create_account, submit, cancel, expire, finalize | lock, nonce and version agree; one settlement per request, never rewritten; a result only with the bound operator's signature of that request; a lock can always be released |
| Ed25519 look-back | `programs/.../ed25519.rs`, `crates/client/src/relayer/types.rs` (adjacency check) | none; reads the transaction | verify_operator_message | what it accepts, the native program has verified |
| Protocol encodings | `crates/protocol/src/lib.rs` | none | request and result digests, blob header | a signature commits to everything finalize compares; a label is read the way it was written |
| FHE worker | `crates/fhe-worker/src/lib.rs`, `src/bin/fhe-worker.rs`, `crates/client/src/main.rs` | key files, request.json, result.json | evaluate (process_request) | signs whatever file it is given; what it signs binds the whole request, and is the outcome under the keys it names if the labels are true |
| Ciphertext store | `crates/fhe-worker/src/lib.rs` (BlobStore) | files `<hash>` and `<hash>.tmp` | put, get | get returns the named bytes or an error; a stored blob becomes readable |
| Devnet commands | `crates/client/src/devnet/` | request.json, result.json, devnet-state.json | initialize, create-account, submit, fetch-request, finalize, inspect | Ok is true of the chain; the files hold only what is true of it; every command returns |
| JSON-RPC client | `devnet/rpc.rs` | none | getAccountInfo, sendTransaction, confirmation loop | a timeout is an error, never an Ok |
| OpenZeppelin transport | `relayer/openzeppelin.rs`, `relayer/types.rs` | none | submit, poll | its statuses decide nothing by themselves |
| Key setup, encrypt, decrypt | `crates/client/src/lib.rs`, `main.rs` | key files, params.json | setup, encrypt_inputs, decrypt | keys, labels and commitment belong together; what is printed is the outcome |
| LiteSVM demo | `crates/client/src/lib.rs` | the data directory of the other commands | demo, measure | prints the outcome whatever else uses the directory, and what it writes there misleads no devnet command |
| Argument parsing, printing | `devnet/args.rs`, `main.rs` | none | | no state of its own |

How they interact:

- client and program meet only in transactions and account reads; the program
  sees one transaction at a time, the client sees accounts one read at a time;
- client, worker, finalizer and demo share files, and nothing locks a file; demo
  writes request.json and result.json for a chain of its own;
- the worker hands its signature over in result.json, and anyone who holds it
  may present it, at any time, for any request;
- the program never verifies a signature itself; it trusts the native Ed25519
  program to have verified the instruction in front of finalize.

What is hard to test, in short (PROJECT.json lists each hazard at its line):
long legal sequences of instructions; counters at the u64 limit; rotation and
key changes while a request is in flight; the settlement race at the expiry
slot; signatures made before submit or presented again elsewhere; three account
reads that are not a snapshot; an answer that comes late, or never, or from an
unreliable relayer; puts that share a temporary file name; processes killed and
writes failing half-way; key files of two setups side by side; files that belong
to another chain; a state file that every command loads at its start and
writes as a whole at its end.

## 2. Modules

| Module | Models |
|---|---|
| `Coordinator` | the program: one action per instruction, the worker's signature, the clock |
| `RequestLedger` | the abstract promise to an account owner: a ledger of settled requests |
| `CoordinatorLedger` | the refinement mapping from `Coordinator` to `RequestLedger` |
| `CoordinatorClaims` | a statement of the documentation that the program does not keep |
| `CoordinatorProofs`, `CoordinatorStepProofs`, `CoordinatorAttestationProofs` | theorems about `Coordinator` |
| `CoordinatorLedgerProofs` | the proof that `Coordinator` implements `RequestLedger` |
| `Ed25519Verify` | the transaction, the native program, the look-back, the client's pair |
| `Ed25519VerifyProofs` | theorems about `Ed25519Verify` |
| `ContentStore` | what a content-addressed store promises, each call at one moment |
| `BlobStore` | put and get, system call by system call |
| `BlobStoreProofs` | theorems about `BlobStore` |
| `KeyMaterial` | setup, encrypt, evaluate, decrypt and demo on one data directory's keys and ciphertexts |
| `KeyMaterialProofs` | theorems about `KeyMaterial` |
| `DevnetClient` | the devnet commands and evaluate as processes, composed with `Coordinator` |
| `DevnetClientProofs` | theorems about `DevnetClient` |
| `MC...` | constants, definitions and symmetry sets for TLC |

### Coordinator

`config`, `account` and `request` are functions from addresses to records or
`Absent`. A program-derived address is the tuple of its seeds, so `has_one`,
`seeds` and `init` constraints become equalities and "is `Absent`". An
instruction is atomic because the runtime locks the accounts it writes and rolls
back on error: a `require!` that fails is an action that is not enabled.
`signed` is everything operators have ever signed. Signatures never disappear
and anyone can present one, so `Finalize` only asks that the signature exists.
`ProcessRequest` is what the worker's evaluation does to the world: it signs the
request of any file (`FilesAtHand`), which may be the binding of a request on
chain or one of `RequestFiles`, any set of bindings, for the worker has no chain
to compare with. Whether keys and blobs fit is `KeyMaterial`'s business.
`operatorLog` is a history variable; no guard reads it.

Abstractions: SHA-256 is injective (`Digest` tags its argument); bumps, the
domain id and the operation code are constant and left out. u64 is
`0 .. U64Max` with the checked additions of the code, so the limit is reached in
every run.

### Ed25519Verify

Where `Coordinator!VerifyOperatorMessage` says "the operator has signed this
message", this module says why. A transaction is a sequence of instructions; an
Ed25519 instruction has a count, entries with offsets and instruction indexes,
and data. The native program and the coordinator read that data separately.
Whatever an instruction does to other state is left out. A CPI into finalize is
checked against the top-level instruction in front of the caller, so the
position of a finalize is that of its top-level instruction.

### BlobStore

Names lead to inodes, and a process that has opened a file keeps its inode when
the name is moved. `put` is `StartPut`, `CheckExists`, `OpenTmp` (truncates),
`WriteChunk`s, `Rename`; `get` is `StartGet` and `ReadChunk`s followed by the
hash comparison. Every call may fail: fs::write on opening or half-way
(`OpenOrRenameFails`, `WriteFails`), rename (`OpenOrRenameFails`), a read
(`ReadFails`); the error is returned and nothing is undone. That rename finds no
temporary file is part of `Rename`, because another put has caused it. `Crash`
kills a process between any two calls. `Substitute` stands for another program
that overwrites a stored file. Kills and half-way writes together are bounded by
`MaxFaults`; the other failures are not bounded.

Seen from outside this is `ContentStore`: a blob is present when its final name
leads somewhere, put takes effect in `CheckExists` or `Rename`, get in `StartGet`
(where the blob is absent) or in its last `ReadChunk`. A put that fails for want
of its temporary file leaves the blob present (`PutOvertaken`); one that fails
otherwise says nothing of it (`CallFails`).

### KeyMaterial

A setup makes a new generation of keys and writes it as `keys/client.bin`,
`server.bin`, `operator.json` and `params.json`, in this order and over whatever
is there. Each write is two steps, `Truncate` and `Fill` (the fill is one write
call; a reader that meets a file before its fill fails to parse it). A command
can be killed at every step (`Stop`). Every other command reads the files one at
a time: `ReadParams`, `ReadClient`, `ReadServer`, `ReadOperator`, in the order of
load_material, load_server_material and the worker binary.

Keys and ciphertexts are known by the generation they belong to. The hash of a
server key is injective, so the commitment in params.json, in a Config and in a
blob's header is the generation too. What a ciphertext really is encrypted under
is `under`; a policy evaluated with keys and inputs of several generations is
`Garbage`. Blobs only accumulate, because the store is content-addressed and
nothing deletes; how they get there is the business of `BlobStore`.

evaluate may find any request whatever: request.json is written by other
commands at any time, a Config commits to whatever hash its authority gave, and
users name what blobs they like. The request is chosen where it is first looked
at, which is as good as choosing it earlier. A demo keeps its keys in memory,
except that the operator's is read back, and runs its own chain (LiteSVM).

Blobs made by another program (`StoreElsewhere`) carry any label over any key or
none, for the store takes any bytes and unwrap_blob compares the label only; in
the runs there is at most `MaxElsewhere` of them. The field `history` of a blob
is what no code can see of it: whether an operand was encrypted here, and whether
a result was computed from operands with true labels.

`unsettled` and `overlapped` are history: a setup is under way or what it left
has not been redone by a setup that ran alone, and the generations read by
commands at such a time. They say under which condition the promises hold, and
no guard reads them.

### DevnetClient

Each RPC call, file write and poll is one step of a process; between two steps
anything may happen on chain. A transaction sent is in flight until the cluster
executes (`Land`) or drops it (`Forget`), whether or not its sender still waits.
All reads go to one node at commitment `confirmed`, so a read returns the
current state. A command that fails, times out or is killed stops where it is
(`Stop`). A torn JSON file is indistinguishable from a parse error for the
commands that read it and is treated as an error. The worker reads request.json
in one step and signs and writes result.json in a later one, so files and chain
may change in between. Two more writers share the directory (`OtherWriters`): a
demo puts the request of its own chain into request.json (`DemoWritesRequest`),
and a demo or a worker that was handed any other file puts the result for that
into result.json (`EvaluateOther`). `RequestFiles` are the bindings that are not
of this chain.

initialize and create-account test whether the account exists (`exists`), send,
wait, and save without reading back what they sent; submit and finalize read
everything again. The relayer is asked for its description first (`validate`);
afterwards it may reply anything at any time (`RelayerReplies`): an HTTP error, an envelope
without data or with `success: false`, a status that is not true. Of
devnet-state.json three fields are kept: the mint (for the Config derived from
it), the account and the latest request; every save writes all of them as the
command had loaded them when it began, apart from its own.

Where initialize and create-account are not among `Commands`, `SetUp` runs them
at once and without a fault, so that the two big runs start their races from a
directory that has been set up. `Disturbances` names what others may do besides:
users and authority on chain, demo and other workers in the directory.

## 3. Runs

Two workers; the longest (`keys`) takes about three minutes.

| Run | Distinct states | Checks |
|---|---|---|
| `account` | 623,776 | one account with all administrative actions: `TypeOK`, `RecordsAtHome`, `LockCoherence`, `NonceAccounting`, `LockReleasable`, `RequestUsesAccountKeyVersion`, `FinalizedByBoundOperator`, and the action properties `RotationRevokes`, `SettledIsFinal` |
| `ledger` | 106,670 | two users, two requests each, one of them signed before submit: `ImplementsLedger` (`Coordinator` implements `RequestLedger`), `NoAttestationReplay` across accounts and requests, and `EveryRequestSettles` under the named fairness assumption |
| `attestation` | 49,000 | `AttestationGenuine` and `CheckedPayloadAccepted` over 12,851 transactions |
| `blobs` | 512,480 | with kills, failing calls and an overwriting disk: `TypeOK`, `FailedPutIsStored`, `RestingFileIsFinal` (the store never touches a file no put is at work on), `ImplementsContentStore` (`BlobStore` implements `ContentStore`) |
| `blob_shared` | 18,804 | three processes on one blob, no write cut short: `TornOnlyWhileWritten`, `StoredStaysReadable` |
| `keys` | 3,458,484 | two commands, two generations, one blob from elsewhere: `TypeOK`, `SetupIsWhole`, `EncryptedAsLabelled`, `SignedMeansOutcome`, `DecryptedIsOutcome` |
| `finalize` | 799,803 | `ClientTypeOK`, `FinalizeOkIsTrue`: two finalizes, two results, both transports, cancel |
| `submit` | 1,001,588 | `SubmitOkIsOwn`, `DataDirGenuine`, `VerifiedIsCurrent`: two submits or fetches, expire, and demo writing request.json |
| `composition` | 543,004 | all five commands from the first one on, one at a time, while others create and administer and other workers write result.json: `FinalizeSendsItsOwn` (what finalize sends was signed for the request it names), `StateFileGenuine`, `SetUpOkIsOwn`, `CommandsReturn` although transactions are lost and the relayer is silent, and `CommandsAdvance`: no command goes back, so each takes a bounded number of steps |

Why the bounds are enough to meet the cases that matter:

- `account`: `U64Max = 3` gives three requests in a row, four slots, three
  rotations with two operator keys (so a key can return), two key versions
  (so a version can return), and every counter at its limit. A zero lifetime is
  among those proposed. One account is enough because these properties relate
  one account to its own requests. A worker may be handed the account's second
  request before it is submitted (`SecondRequests`).
- `ledger`: two users with two requests each, so that a ledger has an order and
  a signature can be presented for a later request of the same account and for a
  request of another one. The first account's first request may be signed before
  it is submitted (`FirstRequest`). One signature is made in a run, and presented
  for whichever request it fits; two at a time are in `finalize`, any number of
  them in the theorem, as `AttestationsSpentOnce` covers any number of mints.
- `attestation`: keys, signatures and header are one byte; messages are one or
  two bytes so that a size can be wrong; stored indexes range over the first two
  instructions and u16::MAX; a count is 0, 1 or 2 with 0, 1 or 2 entries. The
  client's pair is placed before, after and around other instructions.
- `blobs`: a file takes two write calls, so that it can be half written; two
  processes share a name. Two kills or failed writes leave a torn file and hit
  the put that meets it. As many inodes as names and processes together never
  run out (part of `TypeOK`, and proved).
- `keys`: one process can set up, be killed and set up again while the other is
  anywhere inside any command; two generations tell old keys from new ones. One
  blob from elsewhere is enough to spoil an operand. There is one key version:
  setup, encrypt and decrypt know no other, and a request with another finds
  only blobs from elsewhere. The theorems hold for any number of processes,
  generations, versions and such blobs.
- `finalize` and `submit`: two processes are a race; three sends are a submit
  and two finalizes, two sends two competing submits; `MaxPolls` 0 is a command
  whose first poll is its last, and `composition` polls again.
- `submit` and `composition`: one binding that no request of this chain can have
  stands for what demo works on (`DemoRequest`).
- `composition`: four sends are the four commands that send, or a command that
  is tried again after a loss. Two lifetimes tell an own Config from
  another's. One process at a time, since the races are in the other two runs;
  but a command's transaction may still land, and others act, when the next
  command runs, so a late initialize or submit meets its own retry.

Sends and slots are used up in the end, which is why these three configurations,
and that of `attestation` where a transaction ends, switch deadlock checking off.
In the other runs it is on.

`Symmetry` is used in safety runs only.

### Fairness

- `ledger` assumes `SlotsAdvance` (Solana produces slots) and
  `SomeoneExpires` (weak fairness of `Expire`). The second is not something the
  repository provides: no component sends expire. It is an assumption about
  the environment, named so that the property states what it depends on.
- `blob_shared` assumes weak fairness of a process's own next system call:
  puts and gets wait for nobody. Starting a call is not fair. Calls may fail, but
  no write is cut short (`MaxFaults = 0`): after a torn write the property is
  false, see `blob_read_back` below.
- `composition` assumes weak fairness of a process's next step, because
  every HTTP call has a timeout and every loop a deadline. Neither delivery of a
  transaction nor a useful relayer status is assumed.

## 4. Where documentation and code disagree

Three runs are expected to find a violation; PROJECT.json quotes the lines.

1. `key_version`: README and the security mapping say a key-version change makes
   finalize of pending requests fail closed. finalize compares versions, and
   set_key_version may write an earlier one, so a request survives a change that
   is put back. Rotation of the operator does not have this weakness: epochs only
   grow (`RotationRevokes` is proved).
2. `blob_read_back`: two puts of the same bytes share one temporary name, and a
   put can return Ok while the other still rewrites the very file. If that other
   process is killed the file stays incomplete, and put does not repair it.
3. `next_request`: a finalize that went through is reported as failed if the
   owner's next request is already pending when it looks.

Other things came up while modelling that contradict no document and have no run
of their own:

- The client tells the owner of a pending request to wait for expiry
  (commands.rs:234), but the lock is only released by an expire instruction,
  which no command sends; `EveryRequestSettles` therefore rests on
  `SomeoneExpires`.
- fetch reads Request, Config and ConfidentialAccount in turn: a request settled
  between the reads makes it fail although nothing is wrong on chain.
  `VerifiedIsCurrent` shows that such a mixture is never accepted; that it is
  refused is the price.
- load_material never compares the client key with the server key. On a
  directory that a setup left half-finished, encrypt can label a blob with the
  commitment of one generation while it encrypts under another. Two setups at
  once may both report Ok and leave such a directory. `EncryptedAsLabelled` and
  `DecryptedIsOutcome` name this exception (`overlapped`).
- process_request sees of a ciphertext only its label (unwrap_blob). An operand
  encrypted under other keys than its label names -- by encrypt in the case just
  described, or by any other program -- is evaluated, and a result that means
  nothing is signed and can be finalized. `SignedMeansOutcome` claims the outcome
  only of results whose operands are encrypted as their labels say (`history` is
  "sound"), and then without exception: label check and commitment check catch
  every other mixture of blobs, requests and key files.
- put's error does not tell whether the blob is stored: after a failed write it is
  not, after a rename that finds no temporary file it is.
- demo with its default directory overwrites request.json, result.json and the
  keys of the devnet commands. finalize then finds a request address that does
  not exist on devnet, or a result that is not for its request, and fails; it
  sends nothing that is not its own (`FinalizeSendsItsOwn`).
- setup, encrypt and initialize write key version 1 into params, labels and
  Config. After set_key_version the labels of new blobs no longer match, and
  evaluate refuses every new request: it fails closed, with no command that
  would re-encrypt.
- initialize or create-account whose transaction lands after the confirmation
  loop has given up is never recorded; tried again it reports that the account
  exists. Of two commands that overlap, the later save of devnet-state.json
  drops what the earlier one recorded. What the file does say stays true
  (`StateFileGenuine`).

## 5. Theorems

No bound of a configuration appears in a proof; the assumptions are the named
ASSUMEs of the modules and what the abstractions above say (SHA-256 is injective,
addresses are their seeds). Of `Coordinator`: u64 is a nonempty range from 0,
lifetimes are u64, the zero hash and the default key are nobody's, the policy
result is one of the kinds; the files a worker may be handed are any set of
bindings. Of `Ed25519Verify`: a transaction is a finite
sequence, header, keys, signatures and messages are sequences of bytes, and all
keys and all signatures have one length ([u8; 32], [u8; 64]). Of `BlobStore`: a
blob has at least one chunk, there are enough inodes for two names a blob and a
file in the hands of each process, processes and blobs are finitely many, and
`MaxFaults` is any natural. Of `KeyMaterial`: the markers of a missing and of a
torn file are no generations, key version 1 is among the versions, and
`MaxElsewhere` is any natural. Of
`DevnetClient`: key version 1 likewise, `MaxSends` and `MaxPolls` are any
naturals, and `None` is nothing else.

**CoordinatorProofs.** The inductive invariant is

    IInv == TypeOK /\ RecordsAtHome /\ LockCoherence /\ NonceAccounting
              /\ RequestUsesAccountKeyVersion

None of the parts is inductive alone. That a released account has no other
pending request (`LockCoherence` after a settlement) needs the request to be at
the address its fields derive (`RecordsAtHome`). That the request submit creates
does not overwrite one (`NonceAccounting`) is what keeps `LockCoherence` and the
key versions. And that release does not overflow needs
`request_nonce = state_version + 1` while the lock is held: submit's own
checked addition is what makes room for it. From `IInv` follow `TypeCorrect`,
`RecordsHome`, `LockCoherent`, `NoncesAccounted`, `KeyVersionBound` and
`LocksReleasable`.

**CoordinatorStepProofs.** `SettlementFinal` follows from `IInv` step by step.
`RotationIsRevocation` needs `EpochOrder` (no request carries an epoch later
than its Config's), and `EInv == IInv /\ EpochOrder`.

**CoordinatorAttestationProofs.** `AInv` adds to `EInv` that the log holds the
current operator at the current epoch (`OperatorOfEpoch`) and
`FinalizedByBoundOperator` itself: a rotation writes only the next epoch, which
no request carries yet, so what was true of settled requests stays true.
`ResultsAttested` follows, and `AttestationsSpentOnce` from it: the digest
contains the request's address.

**CoordinatorLedgerProofs.** `CoordinatorImplementsLedger` is the refinement the
`ledger` run checks, for every value of the constants. Its invariant is
`LInv == AInv /\ LockNewest`. A ledger is read off the request
PDAs below the account's state version; that it never changes needs those
requests to be settled, which they are because the only pending one is the one
the lock names (`LockCoherence`), and the lock names the newest (`LockNewest`).
Then a settlement appends the outcome at the next position (`SettleCloses`). A
worker may have signed the request before it is submitted; submit then opens it
together with the attestations its operator has already made (`SubmitOpens`), and
touches no ledger. finalize checks the signature of the current operator at the
request's epoch, who is by `OperatorOfEpoch` the operator the request is bound
to, so the attestation the ledger asks for is there (`FinalizeGrants`). Any other
signature attests for a request that exists, in the ledger or open, if it is over
that request's binding and by its operator, and for nothing otherwise
(`SignatureAttests`). Account creation, the administrator's instructions and
ticks change nothing the ledger shows.

**Ed25519VerifyProofs.** `AcceptedIsVerified`: the native program has run on every
Ed25519 instruction already passed (`PrecompileHasRun`), and since the look-back
forces all three indexes to the instruction itself and the count to one, both
have read the same slices (`LookBackSound`). `CheckedPayloadIsAccepted` is the
other direction. Its invariant says that a failed transaction stands at an
instruction with a reason to fail (`FailedForAReason`), and the two instructions
the client builds have none, wherever they stand (`BuiltIsAccepted`): a slice of
the concatenation of header, key, signature and message at the client's offsets is
the key, the signature and the message again (`BuiltSlices`, from `SliceMiddle`,
which holds of all sequences).

**BlobStoreProofs.** `StoreInv` says of every state that no two names lead to
one inode (`NamesApart`), that whoever writes to the inode of a name writes that
name's blob (`OwnWriters`), and that a put about to rename finds its temporary
file or finds that another put has renamed it (`PutBacked`, which is what
`FailedPutIsStored` needs). `Filled` says what a torn file is, as long as no
write is cut short (`faults = 0`): an incomplete file has a writer whose chunks
so far are in place, so that it will be completed. A kill or a failed write keeps
`StoreInv` because it changes no file (`CutShortInv`). From these follow
`StoreTypeCorrect` (inodes never run out) and `FailedPutStored` for any disk,
and `TornIsBeingWritten` where no other program overwrites files
(`~HostileDisk`).

`RestingFilesAreFinal` needs `NamesApart` and `OwnWriters` only, so it holds after
kills and failed writes too: whatever a file that no put is at work on holds,
whole or torn, it keeps. It says that nothing is spoiled, and as much that nothing
is repaired. If no write was cut short the file is whole (`RestingFilesAreWhole`);
the two together are `StoredStaysReadable` but for the claim that puts come to an
end. `FilesImplementStore` maps every system call to a step of `ContentStore` or
to none: names are never removed, so what a get has begun to read stays present
(`ReadersFound`), and a put that finds no file to rename finds the blob under its
final name (`PutBacked`). Every other failure returns an error and leaves the
names alone.

**KeyMaterialProofs.** `KeysInv` relates every file to the setup that wrote it and
every command to the files it has read. The argument has two halves. If
params.json was read while no setup was under way and none had been left
unfinished, then all four files were of its generation; and if a client key of
another generation is read later, server.bin has been truncated for good, so the
commitment check that comes after it fails. `OutcomeInv` then follows an evaluated
policy: its inputs carry the label of the key evaluate has checked, so that if
their labels are true they are encrypted under it, and the encrypted answer is the
outcome. This second half needs nothing of the first, and so no exception for
setups that overlap; what is printed needs both. `KeysTypeCorrect`, `SetupWhole`,
`EncryptedLabelled`, `SignedOutcome` and `DecryptedOutcome` follow for any number
of processes and generations.

**DevnetClientProofs.** `CInv` says of every command what its record holds at the
place where it is (`Shape`) and what it may rely on there (`Truth`), of every
result that it is so (`Reported`), and of the files that each request in them is
one of this chain or one of `RequestFiles` (`FilesGenuine`). The argument is that
knowledge of the chain does not go stale: no step of the coordinator loses a
Config, account or request, changes what a later reader compares, or unsettles a
request (`StepKeepsConfigs`, `StepKeepsAccounts`, `StepKeepsRequests`). So what a
command has read or caused stays true while it waits, whatever others do
(`TruthKept`):

- a transaction that is reported as landed was this command's own, since no
  other is sent under its signature, and its effect is still there (`Effect`,
  `TicketKnown`). That is why initialize and create-account need not read back
  what they sent, and why of two submits for one nonce only the winner says Ok;
- a request that has been read is still there, and is what was read unless it was
  pending then and is settled now (`ReadEarlier`). If it was pending, the account
  read last must carry its lock, and `LockCoherence` says that it is pending
  still (`VerifiedHere`). Comparing status, result hash and digest with a result
  is then as good as comparing them on chain, so a relayer's word is not needed;
- devnet-state.json may be put back to what a command loaded long ago, and that
  was true then.

`FinalizeSendsOwn` is about what finalize does with files it cannot trust.
validate_finalize_consistency compares result.json, field by field, with the
request it has read from the chain and checks the signature, so that an
attestation it hands on was signed over the binding of that very request
(`ReadAccountOwns`). Between there and the cluster nothing can change that: the
terms of a request are fixed when it is submitted, and signatures stay
(`OwnKept`). Neither the worker's checks nor who wrote the files is used.

`ChainStep` uses `CInv` in the other direction: whatever a worker evaluates, from
request.json or from another file, is a file at hand in the sense of `Coordinator`
(`KnownAtHand`), and what a finalize carries is checked by the program against
the digest submit has sealed (`DigestsSealed`). So every step of the system is a
step of `Coordinator` (`ClientsObeyCoordinator`, a lemma: it says how the modules
are put together), and every theorem about `Coordinator` holds of the system of
all parts; `SystemKeepsLedger` draws the conclusion for the ledger, for replayed
signatures and for settled requests. `FinalizeReportsTheAttested` puts the two
directions together: a finalize that says Ok reports a result that the operator
its request was bound to has signed for that request. None of this uses fairness,
or that a preflight is right.

`CommandsOnlyAdvance` orders the places a command can be at (`Remaining`). Reading
the same accounts before and after sending differs in the ticket, and a poll that
does not end the command uses up one of `MaxPolls`; every step then brings the
command nearer its end (`StepAdvances`), so it takes at most `11 + MaxPolls` of
them. That, and that a command which is not idle can always take a step, is
`CommandsReturn`.

Only model-checked: the three liveness properties (`EveryRequestSettles`,
`StoredStaysReadable`, `CommandsReturn`), because TLAPS 1.4.5 proves neither
liveness under fairness nor ENABLED; what each rests on apart from fairness is
proved (`LocksReleasable`, `RestingFilesAreFinal` with `RestingFilesAreWhole`,
`CommandsOnlyAdvance`). Every other property of a passing run is a theorem. No
module uses a RECURSIVE operator.

## 6. Not modelled

- The TFHE circuit, encryption and decryption: their correctness is that of the
  library. The policy result is a value (`Coordinator`), or the outcome when all
  keys and inputs belong together (`KeyMaterial`).
- Argument parsing, printing and `measure`: no state.
- The LiteSVM demo's own chain and boot_svm: one process and no race. Its use of
  keys and ciphertexts is modelled in `KeyMaterial`; that it writes request.json
  and result.json under the devnet commands, in `DevnetClient`. The two are not
  composed: `DevnetClient` does not say which keys a result was computed with.
- path.exists() answering no because stat failed although the file is there: put
  then writes the blob once more, as it does when another put stores it between
  the test and the write; the file that is replaced may be in use.
- `inspect`: it reads and prints, and other commands' reads are modelled.
- The text of HTTP requests and JSON envelopes: what the client distinguishes in
  a reply is modelled, not how it is spelled.
- Fields of devnet-state.json that no command reads back.
- A torn request.json, result.json or devnet-state.json: the command that meets
  one fails to parse it, which is the same as stopping there. Torn key files and
  blobs are modelled, because others rewrite them.
- Reads from several RPC nodes that disagree: the client talks to one.

## 7. Plan

What would come next: `DevnetClient` composed with `BlobStore` through evaluate,
a worker that meets an incomplete blob, and with `KeyMaterial`, so that a result
in flight has its keys. The parts are there (get fails, evaluate stops).

## 8. Running

    tlc -workers 2 -config MCCoordinatorAccount.cfg MCCoordinator.tla
    tlapm CoordinatorProofs.tla

PROJECT.json lists every run with its module and configuration, the lines each
definition models, and a changed definition for each property that makes TLC
find it violated.
