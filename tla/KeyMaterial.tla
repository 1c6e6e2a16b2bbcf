------------------------------ MODULE KeyMaterial ------------------------------
(***************************************************************************)
(* The keys of one data directory and what is done with them: setup,       *)
(* encrypt, evaluate (of the lab client and of the worker binary), decrypt *)
(* and demo.                                                               *)
(*                                                                         *)
(* setup makes one generation of keys and writes it as four files, one     *)
(* after the other and over whatever is there.  A file that is written is  *)
(* first truncated.  The other commands read these files one at a time.    *)
(* Nothing locks them, so a command may meet a setup that is under way, or *)
(* what one that was killed has left.  What keeps keys and ciphertexts     *)
(* together is that params.json and every blob name the hash of the server *)
(* key they belong to; since that hash is injective, it is modelled by the *)
(* generation itself.                                                      *)
(***************************************************************************)
EXTENDS Naturals, FiniteSets

CONSTANTS
    Procs,         \* command processes
    Generations,   \* generations of keys; every setup makes a new one
    KeyVersions,   \* key versions a request may name
    MaxElsewhere,  \* bound on the blobs made elsewhere
    None           \* nothing there yet

\* setup and encrypt_inputs() know no other.
LocalKeyVersion == 1

ASSUME KeyVersionsAssumption == KeyVersions \subseteq Nat /\ LocalKeyVersion \in KeyVersions
ASSUME ElsewhereAssumption == MaxElsewhere \in Nat

VARIABLES
    keys,        \* the four files of keys/
    store,       \* the blobs stored
    result,      \* result.json
    proc,        \* proc[p]: the command p runs and where it is
    output,      \* output[p]: what p's last decrypt or demo printed
    used,        \* generations made so far
    unsettled,   \* history: a setup is under way, or what it left was not redone
    overlapped   \* history: generations loaded by a command that met such a setup

vars == <<keys, store, result, proc, output, used, unsettled, overlapped>>

-----------------------------------------------------------------------------
(* setup writes the files in this order.                                   *)
KeyFiles == {"client", "server", "operator", "params"}

\* A file that has been truncated and not yet filled; no reader accepts it.
Torn == "torn"
ASSUME GenerationsAssumption == Generations \cap {None, Torn} = {}

Readable(content) == content \in Generations

\* Fault: a params.json that is there already is kept.
NextFile_KeepsParams(f) ==
    CASE f = "client" -> "server"
      [] f = "server" -> "operator"
      [] f = "operator" /\ ~Readable(keys["params"]) -> "params"
      [] OTHER -> "written"

\* Fault: one file too many.
NextFile_OneMore(f) ==
    CASE f = "client" -> "server"
      [] f = "server" -> "operator"
      [] f = "operator" -> "params"
      [] f = "params" -> "backup"
      [] OTHER -> "written"

NextFile(f) ==
    CASE f = "client"   -> "server"
      [] f = "server"   -> "operator"
      [] f = "operator" -> "params"
      [] OTHER          -> "written"

\* A ciphertext with its header (wrap_blob).  `under' is the generation whose
\* client key decrypts it to what it stands for, Garbage if none does: nothing
\* in the bytes tells.  Nor do they tell the blob's history: whether an operand
\* was encrypted here, and whether a result was made from operands each of which
\* is encrypted as its own label says.
Garbage == "garbage"
Histories == {"here", "elsewhere", "sound", "unsound"}
Blob(kind, version, params, under, history) ==
    [ kind |-> kind, key_version |-> version, params |-> params, under |-> under,
      history |-> history ]
Blobs == [ kind : {"u64", "bool"}, key_version : KeyVersions, params : Generations,
           under : Generations \cup {Garbage}, history : Histories ]

Idle == [ at |-> "idle", cmd |-> None, file |-> None,
          made |-> None,       \* the generation a setup or demo has made
          alone |-> TRUE,      \* no other setup ran meanwhile
          params |-> None,     \* params.json as read
          client |-> None, server |-> None,
          result |-> None,     \* the result blob made or read
          settled |-> TRUE ]   \* no read so far met an unfinished setup

Silent == [cmd |-> None, right |-> TRUE, params |-> None, sound |-> TRUE]

Init ==
    /\ keys = [f \in KeyFiles |-> None]
    /\ store = {}
    /\ result = None
    /\ proc = [p \in Procs |-> Idle]
    /\ output = [p \in Procs |-> Silent]
    /\ used = {}
    /\ unsettled = FALSE /\ overlapped = {}

At(p, place) == proc[p].at = place

GoOn(p, command) == proc' = [proc EXCEPT ![p] = command]
End(p) == GoOn(p, Idle)

Start(p, cmd, place) ==
    /\ At(p, "idle")
    /\ GoOn(p, [Idle EXCEPT !.at = place, !.cmd = cmd])
    /\ output' = [output EXCEPT ![p] = Silent]
    /\ UNCHANGED <<keys, store, result, used, unsettled, overlapped>>

\* The command fails or is killed; what it has written stays.
Stop(p) ==
    /\ ~At(p, "idle")
    /\ End(p)
    /\ UNCHANGED <<keys, store, result, output, used, unsettled, overlapped>>

-----------------------------------------------------------------------------
(* setup(), also as the first thing a demo does.                           *)
SettingUp(q) == proc[q].at \in {"truncate", "fill"}

StartSetup(p, cmd) ==
    /\ At(p, "idle")
    /\ \E g \in Generations \ used :
           /\ used' = used \cup {g}
           /\ proc' = [q \in Procs |->
                  IF q = p
                  THEN [Idle EXCEPT !.at = "truncate", !.cmd = cmd,
                                    !.file = "client", !.made = g,
                                    !.alone = \A r \in Procs : ~SettingUp(r)]
                  ELSE [proc[q] EXCEPT !.alone = @ /\ ~SettingUp(q)]]
    /\ output' = [output EXCEPT ![p] = Silent]
    /\ unsettled' = TRUE
    /\ UNCHANGED <<keys, store, result, overlapped>>

Truncate(p) ==
    /\ At(p, "truncate")
    /\ keys' = [keys EXCEPT ![proc[p].file] = Torn]
    /\ GoOn(p, [proc[p] EXCEPT !.at = "fill"])
    /\ UNCHANGED <<store, result, output, used, unsettled, overlapped>>

Fill(p) ==
    /\ At(p, "fill")
    /\ LET c == proc[p]  next == NextFile(c.file) IN
       /\ keys' = [keys EXCEPT ![c.file] = c.made]
       /\ IF next # "written"
          THEN GoOn(p, [c EXCEPT !.at = "truncate", !.file = next])
               /\ UNCHANGED unsettled
          ELSE /\ IF c.cmd = "demo"
                  THEN GoOn(p, [c EXCEPT !.at = "encrypt_demo", !.file = None])
                  ELSE End(p)
               /\ unsettled' = (unsettled /\ ~c.alone)
    /\ UNCHANGED <<store, result, output, used, overlapped>>

-----------------------------------------------------------------------------
(* Reading keys.                                                           *)
Loads(p) == proc[p].cmd \in {"encrypt", "decrypt"}
Settled(p) == proc[p].settled /\ ~(Loads(p) /\ unsettled)

ReadInto(p, file, command, place) ==
    /\ IF Readable(keys[file])
       THEN GoOn(p, [command EXCEPT !.at = place, !.settled = Settled(p)])
       ELSE End(p)
    /\ UNCHANGED <<keys, store, result, output, used, unsettled, overlapped>>

ReadParams(p) ==
    /\ At(p, "params")
    /\ ReadInto(p, "params", [proc[p] EXCEPT !.params = keys["params"]],
                IF proc[p].cmd = "evaluate" THEN "server" ELSE "client")

ReadClient(p) ==
    /\ At(p, "client")
    /\ ReadInto(p, "client", [proc[p] EXCEPT !.client = keys["client"]], "server")

\* Fault: any server key will do.
ServerKeyCommitment_Any(server, params) == TRUE

\* require_server_key_commitment()
ServerKeyCommitment(server, params) == server = params

\* read_compressed_server_key(), and the commitment check of load_material()
\* and load_server_material(); the worker binary has no params.json.
ReadServer(p) ==
    /\ At(p, "server")
    /\ LET c == proc[p] IN
       /\ IF /\ Readable(keys["server"])
             /\ c.params # None => ServerKeyCommitment(keys["server"], c.params)
          THEN /\ GoOn(p, [c EXCEPT !.server = keys["server"],
                                    !.settled = Settled(p),
                                    !.at = IF Loads(p) THEN c.cmd ELSE "operator"])
               /\ overlapped' = IF Loads(p) /\ ~Settled(p)
                                THEN overlapped \cup {c.params}
                                ELSE overlapped
          ELSE End(p) /\ UNCHANGED overlapped
    /\ UNCHANGED <<keys, store, result, output, used, unsettled>>

ReadOperator(p) ==
    /\ At(p, "operator")
    /\ ReadInto(p, "operator", proc[p],
                IF proc[p].cmd = "demo" THEN "process_demo" ELSE "process")

-----------------------------------------------------------------------------
(* Storing and loading ciphertexts.                                        *)
\* store_u64() of a value encrypted under this client key.
StoreU64(version, params, client) ==
    store' = store \cup {Blob("u64", version, params, client, "here")}

\* Another program puts a ciphertext into the store, under whatever label: the
\* store takes any bytes, and users name whatever hash they like.
StoreElsewhere(version, params, under) ==
    /\ Cardinality({b \in store : b.history = "elsewhere"}) < MaxElsewhere
    /\ store' = store \cup {Blob("u64", version, params, under, "elsewhere")}
    /\ UNCHANGED <<keys, result, proc, output, used, unsettled, overlapped>>

\* Fault: the header's params hash is not looked at.
UnwrapBlob_AnyParams(blob, kind, version, params) ==
    blob.kind = kind /\ blob.key_version = version

\* unwrap_blob()
UnwrapBlob(blob, kind, version, params) ==
    /\ blob.kind = kind
    /\ blob.key_version = version
    /\ blob.params = params

\* load_u64(), load_bool()
LoadU64(blob, version, params) ==
    blob \in store /\ UnwrapBlob(blob, "u64", version, params)
LoadBool(blob, version, params) ==
    blob \in store /\ UnwrapBlob(blob, "bool", version, params)

\* encrypt: three blobs, all with this label and under this key.
Encrypt(p) ==
    /\ At(p, "encrypt")
    /\ StoreU64(LocalKeyVersion, proc[p].params, proc[p].client)
    /\ End(p)
    /\ UNCHANGED <<keys, result, output, used, unsettled, overlapped>>

\* evaluate_policy() with this server key: the outcome of the policy if all
\* the ciphertexts are of the same generation as the key.
EvaluatePolicy(inputs, server) ==
    IF \A b \in inputs : b.under = server THEN server ELSE Garbage

AsLabelled(inputs) == \A b \in inputs : b.under = b.params

\* process_request(): its checks, and what it stores.
ProcessRequestAdmits(request, server) ==
    /\ ServerKeyCommitment(server, request.params)
    /\ \A b \in request.inputs :
           LoadU64(b, request.key_version, request.params)

ResultBlob(request, server) ==
    Blob("bool", request.key_version, request.params,
         EvaluatePolicy(request.inputs, server),
         IF AsLabelled(request.inputs) THEN "sound" ELSE "unsound")

\* StoreAndSign: store_bool(), then the signature.
StoreAndSign(p, request, server) ==
    LET blob == ResultBlob(request, server) IN
    /\ store' = store \cup {blob}
    /\ GoOn(p, [proc[p] EXCEPT !.at = "write", !.result = blob])

(* evaluate.  request.json is written by submit, fetch-request and demo at *)
(* any time, or given with --request: a Config commits to whatever hash    *)
(* its authority gave, and users name whatever blobs they like, their own  *)
(* included.  An evaluate that begins may find any request; which one is   *)
(* chosen where it is first looked at.                                     *)
ProcessRequest(p) ==
    /\ At(p, "process")
    /\ \/ \E g \in used, v \in KeyVersions, balance, amount, limit \in store :
              LET request == [params |-> g, key_version |-> v,
                              inputs |-> {balance, amount, limit}]
              IN  /\ ProcessRequestAdmits(request, proc[p].server)
                  /\ StoreAndSign(p, request, proc[p].server)
       \/ End(p) /\ UNCHANGED store
    /\ UNCHANGED <<keys, result, output, used, unsettled, overlapped>>

\* The last write of an evaluate; a demo goes on to finalize and decrypt.
WriteResult(p) ==
    /\ At(p, "write")
    /\ result' = proc[p].result
    /\ IF proc[p].cmd = "demo"
       THEN GoOn(p, [proc[p] EXCEPT !.at = "decrypt_demo"])
       ELSE End(p)
    /\ UNCHANGED <<keys, store, output, used, unsettled, overlapped>>

(* decrypt                                                                 *)
ReadResult(p) ==
    /\ At(p, "result")
    /\ IF result = None
       THEN End(p)
       ELSE GoOn(p, [proc[p] EXCEPT !.result = result, !.at = "params"])
    /\ UNCHANGED <<keys, store, result, output, used, unsettled, overlapped>>

PrintOutcome(p, client, params) ==
    output' = [output EXCEPT ![p] =
        [cmd |-> proc[p].cmd, right |-> proc[p].result.under = client,
         params |-> params, sound |-> proc[p].result.history = "sound"]]

\* load_bool() and decrypt_bool()
Decrypt(p) ==
    /\ At(p, "decrypt")
    /\ LET c == proc[p] IN
       IF LoadBool(c.result, LocalKeyVersion, c.params)
       THEN PrintOutcome(p, c.client, c.params)
       ELSE UNCHANGED output
    /\ End(p)
    /\ UNCHANGED <<keys, store, result, used, unsettled, overlapped>>

-----------------------------------------------------------------------------
(* run_demo(), after its setup: the keys stay in memory, except that the   *)
(* operator's is read back; the chain is its own (LiteSVM), and the        *)
(* request.json it writes is one that an evaluate may find.                *)
DemoInputs(g) == {Blob("u64", LocalKeyVersion, g, g, "here")}
DemoRequest(g) ==
    [params |-> g, key_version |-> LocalKeyVersion, inputs |-> DemoInputs(g)]

EncryptDemo(p) ==
    /\ At(p, "encrypt_demo")
    /\ StoreU64(LocalKeyVersion, proc[p].made, proc[p].made)
    /\ GoOn(p, [proc[p] EXCEPT !.at = "operator"])
    /\ UNCHANGED <<keys, result, output, used, unsettled, overlapped>>

ProcessDemo(p) ==
    /\ At(p, "process_demo")
    /\ LET g == proc[p].made IN
       IF ProcessRequestAdmits(DemoRequest(g), g)
       THEN StoreAndSign(p, DemoRequest(g), g)
       ELSE End(p) /\ UNCHANGED store
    /\ UNCHANGED <<keys, result, output, used, unsettled, overlapped>>

DecryptDemo(p) ==
    /\ At(p, "decrypt_demo")
    /\ LET c == proc[p] IN
       IF LoadBool(c.result, LocalKeyVersion, c.made)
       THEN PrintOutcome(p, c.made, c.made)
       ELSE UNCHANGED output
    /\ End(p)
    /\ UNCHANGED <<keys, store, result, used, unsettled, overlapped>>

-----------------------------------------------------------------------------
Begin(p) ==
    \/ \E cmd \in {"setup", "demo"} : StartSetup(p, cmd)
    \/ Start(p, "encrypt", "params")
    \/ Start(p, "evaluate", "params")
    \/ Start(p, "fhe-worker", "server")
    \/ Start(p, "decrypt", "result")

Step(p) ==
    \/ Truncate(p) \/ Fill(p)
    \/ ReadParams(p) \/ ReadClient(p) \/ ReadServer(p) \/ ReadOperator(p)
    \/ Encrypt(p)
    \/ ProcessRequest(p) \/ WriteResult(p)
    \/ ReadResult(p) \/ Decrypt(p)
    \/ EncryptDemo(p) \/ ProcessDemo(p) \/ DecryptDemo(p)

Next ==
    \/ \E p \in Procs :
           \/ Begin(p)
           \/ Step(p)
           \/ Stop(p)
    \/ \E version \in KeyVersions, params \in used, under \in used \cup {Garbage} :
           StoreElsewhere(version, params, under)

Spec == Init /\ [][Next]_vars

-----------------------------------------------------------------------------
Places == { "idle", "truncate", "fill", "params", "client", "server", "operator",
            "encrypt", "process", "write", "result", "decrypt",
            "encrypt_demo", "process_demo", "decrypt_demo" }
Commands == {"setup", "demo", "encrypt", "evaluate", "fhe-worker", "decrypt"}

(* Types, and that a setup always has a next file to write.                *)
TypeOK ==
    /\ keys \in [KeyFiles -> Generations \cup {None, Torn}]
    /\ store \subseteq Blobs
    /\ result \in Blobs \cup {None}
    /\ \A p \in Procs :
           /\ proc[p].at \in Places
           /\ SettingUp(p) => proc[p].file \in KeyFiles /\ proc[p].made \in used
    /\ used \subseteq Generations /\ overlapped \subseteq Generations

(***************************************************************************)
(* setup(): a setup that ran to its end without another one beside it      *)
(* leaves four files of one generation, whatever interrupted or competing  *)
(* setups had left there before.                                           *)
(***************************************************************************)
SetupIsWhole ==
    ~unsettled => \E g \in Generations \cup {None} : \A f \in KeyFiles : keys[f] = g

(***************************************************************************)
(* load_material() reads three files and compares two of them.  That is    *)
(* enough: a setup that runs from start to end between two of the reads is *)
(* noticed, and what encrypt and demo store is encrypted under the         *)
(* generation its label names -- unless one of the reads of an encrypt met *)
(* an unfinished setup.                                                    *)
(***************************************************************************)
EncryptedAsLabelled ==
    \A b \in store :
        b.history = "here" /\ b.params \notin overlapped => b.under = b.params

(***************************************************************************)
(* process_request() cannot see what a ciphertext is encrypted under; it   *)
(* sees labels, and a mislabelled operand yields a signed result that      *)
(* means nothing.  But its label checks and its commitment check make up   *)
(* for everything else: if each operand is encrypted as its own label      *)
(* says, the result is the policy's outcome under the keys that the        *)
(* request commits to, from whatever files the worker read its keys, and   *)
(* also when a setup that was under way has mixed them.                    *)
(***************************************************************************)
SignedMeansOutcome ==
    \A b \in store : b.history = "sound" => b.under = b.params

(***************************************************************************)
(* decrypt takes whatever result.json names, finalized or not, old or new. *)
(* With keys none of whose reads met an unfinished setup it prints the     *)
(* outcome or fails, unless an operand was mislabelled; a demo, which      *)
(* overwrites keys and files of the data directory, prints the outcome in  *)
(* any case.                                                               *)
(***************************************************************************)
DecryptedIsOutcome ==
    \A p \in Procs :
        /\ output[p].cmd = "demo" => output[p].right
        /\ output[p].cmd = "decrypt" /\ output[p].sound =>
               output[p].right \/ output[p].params \in overlapped

=============================================================================
