------------------------------ MODULE DevnetClient ------------------------------
(***************************************************************************)
(* The devnet commands of the lab client -- initialize, create-account,    *)
(* submit, fetch-request and finalize over either transport -- with the    *)
(* worker's evaluate, on top of the coordinator program.                   *)
(*                                                                         *)
(* Commands run as processes that share one data directory: request.json,  *)
(* result.json and devnet-state.json. Others write there as well: demo,    *)
(* which puts the request of its own LiteSVM chain and the result for it   *)
(* under the same names, and workers that were handed some other file. A   *)
(* command reads the chain one account at a time, and everything may       *)
(* happen between two reads: other commands, other users, the authority,   *)
(* slots. What it sends is in flight until the cluster executes or forgets *)
(* it, whether or not the command is still there to see. All reads are     *)
(* served at commitment `confirmed' by one node, so a read sees the        *)
(* current state of the chain. A command that fails, or is killed, stops   *)
(* where it is.                                                            *)
(***************************************************************************)
EXTENDS Coordinator

CONSTANTS
    Procs,         \* command processes
    None,          \* no file, no flag, nothing yet
    MaxSends,      \* bound on the number of transactions ever sent
    MaxPolls,      \* status polls a command makes before its deadline
    Commands,      \* those of CommandNames that are run step by step
    Transports,    \* the transports finalize is given
    Disturbances   \* what others do meanwhile: "create", "administer", "cancel",
                   \* "expire", "demo", "worker"

VARIABLES
    proc,     \* proc[p]: the command p runs and where it is
    result,   \* result[p]: what p's last command ended with
    data,     \* the data directory
    worker,   \* the RequestBinding an evaluate has read, or None
    tx        \* tx[n]: the n-th transaction sent

chain == vars
clientVars == <<vars, proc, result, data, worker, tx>>

-----------------------------------------------------------------------------
CommandNames == {"initialize", "create", "submit", "fetch", "finalize"}

\* result.json, as it is parsed.
Attestations == [operator : Operators, message : ResultBindings]

Idle ==
    [ at       |-> "idle",   \* where the command is
      cmd      |-> None,
      target   |-> None,     \* the Request's address
      via      |-> None,     \* FinalizeTransport
      parsed   |-> None,     \* result.json: an operator's signed message
      cached   |-> None,     \* request.json, where there was one
      state    |-> None,     \* DevnetState as loaded
      req      |-> None,     \* the Request fetched
      conf     |-> None,     \* the Config fetched
      ix       |-> None,     \* the instruction to send
      prior    |-> None,     \* PreparedFinalize.prior_state_version
      ticket   |-> None,     \* the transaction sent
      left     |-> 0 ]       \* polls left before the deadline

\* What is used of a DevnetState; mint stands for the Config derived from it.
NothingRecorded == [mint |-> None, account |-> None, latest |-> None]

NoResult == [cmd |-> None, res |-> "none"]
Unsent == [state |-> "unsent", ix |-> None]

ClientInit ==
    /\ Init
    /\ proc = [p \in Procs |-> Idle]
    /\ result = [p \in Procs |-> NoResult]
    /\ data = [request |-> None, result |-> None, state |-> NothingRecorded]
    /\ worker = None
    /\ tx = [n \in 1 .. MaxSends |-> Unsent]

At(p, place) == proc[p].at = place

Begin(p, command) ==
    /\ At(p, "idle")
    /\ proc' = [proc EXCEPT ![p] = command]
    /\ result' = [result EXCEPT ![p] = NoResult]
    /\ UNCHANGED <<chain, data, worker, tx>>

\* p goes on; nothing outside p changes.
GoOn(p, command) ==
    /\ proc' = [proc EXCEPT ![p] = command]
    /\ UNCHANGED result

End(p, outcome) ==
    /\ proc' = [proc EXCEPT ![p] = Idle]
    /\ result' = [result EXCEPT ![p] = outcome]

\* An error that no property tells from the others.
Fail(p) == End(p, [cmd |-> None, res |-> "error", why |-> "other"])

FailOn(p, why, value) ==
    End(p, [ cmd |-> proc[p].cmd, res |-> "error", why |-> why,
             request |-> proc[p].target, value |-> value ])

Succeed(p, r, value) ==
    End(p, [cmd |-> proc[p].cmd, res |-> "ok", request |-> r, value |-> value])

-----------------------------------------------------------------------------
(* Transactions.  One carries a single coordinator instruction; a finalize *)
(* has the Ed25519 instruction right before it.                            *)
\* initialize_ix(), which knows no other key version.
InitialKeyVersion == 1

InitializeIx(u, m, operator, params, life) ==
    [ kind |-> "initialize", owner |-> u, mint |-> m, operator |-> operator,
      params |-> params, life |-> life ]

CreateAccountIx(u, m, hash) ==
    [kind |-> "create", owner |-> u, mint |-> m, hash |-> hash]

SubmitIx(u, m, amount, version, nonce) ==
    [ kind |-> "submit", owner |-> u, mint |-> m, amount |-> amount,
      version |-> version, nonce |-> nonce ]

\* finalize_ixs_with_signature()
FinalizeIx(m, r, parsed) ==
    [kind |-> "finalize", mint |-> m, request |-> r, parsed |-> parsed]

Instructions ==
    [ kind : {"initialize"}, owner : Users, mint : Mints, operator : Operators,
      params : InputHashes, life : Lifetimes ]
    \cup [kind : {"create"}, owner : Users, mint : Mints, hash : InputHashes]
    \cup [ kind : {"submit"}, owner : Users, mint : Mints, amount : InputHashes,
           version : U64, nonce : U64 ]
    \cup [kind : {"finalize"}, mint : Mints, request : RequestKeys, parsed : Attestations]

ASSUME InitialKeyVersionAssumption == InitialKeyVersion \in KeyVersions
ASSUME BoundsAssumption == MaxSends \in Nat /\ MaxPolls \in Nat
ASSUME NoneAssumption ==
    None \notin CommandNames \cup Mints \cup Accounts \cup RequestKeys \cup Bindings
                 \cup Attestations \cup Instructions \cup (1 .. MaxSends)

Execute(ix) ==
    \/ /\ ix.kind = "initialize"
       /\ InitializeConfig(ix.owner, ix.mint, ix.operator, InitialKeyVersion,
                           ix.params, ix.life)
    \/ /\ ix.kind = "create"
       /\ CreateAccount(ix.owner, ix.mint, ix.hash, ix.hash)
    \/ /\ ix.kind = "submit"
       /\ Submit(ix.owner, ix.mint, ix.amount, ix.version, ix.nonce)
    \/ /\ ix.kind = "finalize"
       /\ LET hash == ix.parsed.message.result_hash IN
          /\ Finalize(ix.mint, ix.request, hash, PolicyResult)
          /\ ix.parsed =
                 [ operator |-> config[ix.mint].operator,
                   message  |-> ResultBinding(ix.request, request[ix.request],
                                              hash, PolicyResult) ]

\* An instruction executes without an error exactly when its action is enabled.
WouldExecute(ix) == ENABLED Execute(ix)

InFlight(n) == tx[n].state = "flight"

Land(n) ==
    /\ InFlight(n)
    /\ \/ Execute(tx[n].ix) /\ tx' = [tx EXCEPT ![n] = [state |-> "ok", ix |-> None]]
       \/ /\ ~WouldExecute(tx[n].ix)
          /\ tx' = [tx EXCEPT ![n] = [state |-> "err", ix |-> None]]
          /\ UNCHANGED chain
    /\ UNCHANGED <<proc, result, data, worker>>

\* Its blockhash is too old, or the relayer gives it up.
Forget(n) ==
    /\ InFlight(n)
    /\ tx' = [tx EXCEPT ![n] = [state |-> "gone", ix |-> None]]
    /\ UNCHANGED <<chain, proc, result, data, worker>>

-----------------------------------------------------------------------------
(* fetch_and_verify_request(): three reads, then checks without RPC.       *)

\* Fault: the account's lock is not compared with the pending request.
VerifyRequestAccounts_NoLockCheck(r, req, conf, acct) ==
    /\ req.confidential_account = r[1] /\ req.request_nonce = r[2]
    /\ r[1] = <<req.mint, acct.owner>>
    /\ req.request_digest = Digest(RequestBinding(r, req))

\* verify_request_accounts()
VerifyRequestAccounts(r, req, conf, acct) ==
    /\ acct.mint = req.mint
    /\ req.requester = acct.owner
    /\ req.params_hash = conf.params_hash
    /\ r = <<req.confidential_account, req.request_nonce>>
    /\ r[1] = <<req.mint, acct.owner>>
    /\ req.status = "pending" =>
           /\ acct.pending_request = r
           /\ acct.request_nonce = req.request_nonce
           /\ acct.state_version = req.state_version
    /\ req.request_digest = Digest(RequestBinding(r, req))

\* fetch_and_decode() finds an account.  What has the address of a coordinator
\* account was created by the coordinator, so its owner and discriminator fit.
FetchAndDecode(record) == record # Absent

ReadRequest(p) ==
    /\ At(p, "read_request")
    /\ LET r == proc[p].target IN
       IF FetchAndDecode(request[r])
       THEN GoOn(p, [proc[p] EXCEPT !.at = "read_config", !.req = request[r]])
       ELSE Fail(p)
    /\ UNCHANGED <<chain, data, worker, tx>>

ReadConfig(p) ==
    /\ At(p, "read_config")
    /\ GoOn(p, [proc[p] EXCEPT !.at = "read_account",
                               !.conf = config[proc[p].req.mint]])
    /\ UNCHANGED <<chain, data, worker, tx>>

(***************************************************************************)
(* What the command does with a request it has fetched and verified.       *)
(***************************************************************************)
\* reconstruct_request_binding()
Reconstructed(p) == RequestBinding(proc[p].target, proc[p].req)

\* Fault: result.json is not compared with the request it is used for.
ValidateFinalizeConsistency_AnyMessage(p) ==
    LET c == proc[p] IN
    /\ c.cached # None => c.cached = Reconstructed(p)
    /\ c.req.status = "pending"
    /\ c.parsed.operator = c.conf.operator
    /\ c.parsed \in signed

\* validate_finalize_consistency()
ValidateFinalizeConsistency(p) ==
    LET c == proc[p] IN
    /\ c.cached # None => c.cached = Reconstructed(p)
    /\ c.req.status = "pending"
    /\ c.parsed.message.request_digest = c.req.request_digest
    /\ c.parsed.operator = c.conf.operator
    /\ c.parsed.message =
           ResultBinding(c.target, c.req, c.parsed.message.result_hash,
                         PolicyResult)
    /\ c.parsed \in signed

\* prepare_finalize(), after its fetch.
Prepare(p, acct) ==
    LET c == proc[p] IN
    IF ValidateFinalizeConsistency(p) /\ ~c.conf.paused
    THEN GoOn(p, [c EXCEPT !.at = IF c.via = "direct" THEN "send" ELSE "validate",
                           !.req = None, !.conf = None,
                           !.ix = FinalizeIx(c.req.mint, c.target, c.parsed),
                           !.prior = acct.state_version])
    ELSE Fail(p)

\* Fault: only the status is looked at.
ResultOnChain_StatusOnly(req, parsed) == req.status = "finalized"

\* The first three checks of verify_authoritative_finalized().
ResultOnChain(req, parsed) ==
    /\ req.status = "finalized"
    /\ req.result_hash = parsed.message.result_hash
    /\ req.result_digest = Digest(parsed.message)

\* verify_authoritative_finalized()
CheckFinalized(p, acct) ==
    LET c == proc[p] IN
    IF ~ResultOnChain(c.req, c.parsed)
    THEN Fail(p)
    ELSE IF acct.pending_request # DefaultKey
    THEN FailOn(p, "still has pending_request", acct.pending_request)
    ELSE IF acct.state_version # c.prior + 1
    THEN Fail(p)
    ELSE GoOn(p, [c EXCEPT !.at = "save", !.req = None, !.conf = None])

Prepared(p) == proc[p].ticket # None

ReadAccount(p) ==
    /\ At(p, "read_account")
    /\ LET c == proc[p]  acct == account[c.target[1]] IN
       IF ~VerifyRequestAccounts(c.target, c.req, c.conf, acct)
       THEN FailOn(p, "verification failed", None)
       ELSE \/ c.cmd # "finalize" /\ GoOn(p, [c EXCEPT !.at = "write"])
            \/ c.cmd = "finalize" /\ ~Prepared(p) /\ Prepare(p, acct)
            \/ c.cmd = "finalize" /\ Prepared(p) /\ CheckFinalized(p, acct)
    /\ UNCHANGED <<chain, data, worker, tx>>

-----------------------------------------------------------------------------
Unused == {n \in 1 .. MaxSends : tx[n] = Unsent}

\* Only as many commands that send are begun as MaxSends has room for.
Sending == {q \in Procs : proc[q].cmd \notin {None, "fetch"}
                             /\ proc[q].ticket = None}
TicketLeft == Cardinality(Sending) < Cardinality(Unused)

(* cmd_initialize and cmd_create_account, up to their transactions.  The   *)
(* mint is generated or given by a flag, hashes by flags, operator and     *)
(* parameters by files that setup has written.                             *)
StartInitialize(p, u, m, operator, params, life) ==
    /\ TicketLeft
    /\ Begin(p, [Idle EXCEPT
           !.at = "exists", !.cmd = "initialize", !.via = "direct",
           !.target = m, !.state = data.state,
           !.ix = InitializeIx(u, m, operator, params, life)])

StartCreateAccount(p, u, hash) ==
    LET m == data.state.mint IN
    /\ TicketLeft
    /\ m # None
    /\ Begin(p, [Idle EXCEPT
           !.at = "exists", !.cmd = "create", !.via = "direct",
           !.target = <<m, u>>, !.state = data.state,
           !.ix = CreateAccountIx(u, m, hash)])

\* account_exists()
AccountExists(c) ==
    IF c.cmd = "initialize" THEN config[c.target] # Absent
                            ELSE account[c.target] # Absent

CheckAccountExists(p) ==
    /\ At(p, "exists")
    /\ IF AccountExists(proc[p])
       THEN Fail(p)
       ELSE GoOn(p, [proc[p] EXCEPT !.at = "send"])
    /\ UNCHANGED <<chain, data, worker, tx>>

(* cmd_submit, up to its transaction: two reads and local checks.  The     *)
(* latest_request it has loaded is of no use: it will be overwritten.      *)
StartSubmit(p, u, amount) ==
    /\ TicketLeft
    /\ data.state.mint # None /\ data.state.account # None
    /\ Begin(p, [Idle EXCEPT !.at = "submit_config", !.cmd = "submit",
                             !.state = [data.state EXCEPT !.latest = None],
                             !.ix = SubmitIx(u, data.state.mint, amount, 0, 0)])

ReadSubmitConfig(p) ==
    /\ At(p, "submit_config")
    /\ LET m == proc[p].ix.mint IN
       IF FetchAndDecode(config[m])
       THEN GoOn(p, [proc[p] EXCEPT !.at = "submit_account",
                                    !.conf = config[m]])
       ELSE Fail(p)
    /\ UNCHANGED <<chain, data, worker, tx>>

ReadSubmitAccount(p) ==
    /\ At(p, "submit_account")
    /\ LET c == proc[p]
           a == c.state.account
           acct == account[a]
       IN
       IF /\ FetchAndDecode(acct)
          /\ ~c.conf.paused
          /\ acct.owner = c.ix.owner /\ acct.mint = c.ix.mint
          /\ acct.key_version = c.conf.key_version
          /\ acct.pending_request = DefaultKey
          /\ FitsU64(acct.request_nonce + 1)
       THEN GoOn(p, [c EXCEPT
                !.at = "send", !.via = "direct", !.conf = None,
                !.target = <<a, acct.request_nonce + 1>>,
                !.ix.version = acct.state_version,
                !.ix.nonce = acct.request_nonce + 1])
       ELSE Fail(p)
    /\ UNCHANGED <<chain, data, worker, tx>>

-----------------------------------------------------------------------------
(* Delivery.  The relayer is asked first who and how it is; its transaction *)
(* names it as payer.                                                       *)
RelayerInfos ==
    [ network_type : {"solana", "evm"}, network : {"devnet", "mainnet-beta"},
      paused : BOOLEAN, system_disabled : BOOLEAN, address : BOOLEAN,
      fee_payment_strategy : {"relayer", "user", None} ]

\* validate_solana_devnet_relayer(); address: whether it is a usable one.
ValidSolanaDevnetRelayer(info) ==
    /\ info.network_type = "solana" /\ info.network = "devnet"
    /\ ~info.paused /\ ~info.system_disabled
    /\ info.address
    /\ info.fee_payment_strategy = "relayer"

ValidateRelayer(p) ==
    /\ At(p, "validate")
    /\ \E info \in RelayerInfos :
           IF ValidSolanaDevnetRelayer(info)
           THEN GoOn(p, [proc[p] EXCEPT !.at = "send"])
           ELSE Fail(p)
    /\ UNCHANGED <<chain, data, worker, tx>>

NextTicket == CHOOSE n \in Unused : TRUE

\* send_transaction() simulates first; the relayer is handed whatever it is.
PreflightFails(p) == proc[p].via = "direct" /\ ~WouldExecute(proc[p].ix)

\* What the commands save, whatever others have saved since they loaded it.
SavedState(c) ==
    CASE c.cmd = "initialize" -> [c.state EXCEPT !.mint = c.target]
      [] c.cmd = "create"     -> [c.state EXCEPT !.account = c.target]
      [] c.cmd = "submit"     -> [c.state EXCEPT !.latest = c.target]
      [] c.cmd = "finalize"   -> c.state

\* Fault: devnet-state.json is written before anything is known to exist.
DataWhenSending_Latest(p) ==
    IF proc[p].cmd = "submit"
    THEN [data EXCEPT !.state = SavedState(proc[p])]
    ELSE data

\* Fault: likewise, by the commands that set up.
DataWhenSending_Setup(p) ==
    IF proc[p].cmd \in {"initialize", "create"}
    THEN [data EXCEPT !.state = SavedState(proc[p])]
    ELSE data

DataWhenSending(p) == data

Send(p) ==
    /\ At(p, "send")
    /\ Unused # {}
    /\ IF PreflightFails(p)
       THEN Fail(p) /\ UNCHANGED <<tx, data>>
       ELSE /\ tx' = [tx EXCEPT ![NextTicket] =
                         [state |-> "flight", ix |-> proc[p].ix]]
            /\ data' = DataWhenSending(p)
            /\ GoOn(p, [proc[p] EXCEPT !.at = "confirm",
                                       !.ticket = NextTicket,
                                       !.left = MaxPolls])
    /\ UNCHANGED <<chain, worker>>

\* Fault: the deadline is computed anew in every round.
DeadlinePassed_Never(left) == FALSE

DeadlinePassed(left) == left = 0

\* Fault: the time left runs below zero.
PollAgain_Overrun(p) == GoOn(p, [proc[p] EXCEPT !.left = @ - 1])

\* Fault: what has not been confirmed in time is sent again.
PollAgain_Resends(p) ==
    IF DeadlinePassed(proc[p].left)
    THEN GoOn(p, [proc[p] EXCEPT !.at = "send", !.ticket = None])
    ELSE GoOn(p, [proc[p] EXCEPT !.left = @ - 1])

\* A poll that finds nothing to return on.
PollAgain(p) ==
    IF DeadlinePassed(proc[p].left)
    THEN Fail(p)
    ELSE GoOn(p, [proc[p] EXCEPT !.left = IF @ = 0 THEN 0 ELSE @ - 1])

\* initialize and create-account do not read again what they have sent.
ReadsAgain(cmd) == cmd \in {"submit", "finalize"}

Delivered(p) ==
    GoOn(p, [proc[p] EXCEPT
        !.at = IF ReadsAgain(proc[p].cmd) THEN "read_request" ELSE "save",
        !.left = 0])

\* Fault: a status is taken for a success.
LandedWell_AnyStatus(state) == state \in {"ok", "err"}

\* status.err is null and confirmation_status is confirmed or finalized.
LandedWell(state) == state = "ok"

\* send_and_confirm(): the cluster says what became of the signature.
ConfirmDirect(p) ==
    /\ At(p, "confirm")
    /\ proc[p].via = "direct"
    /\ LET state == tx[proc[p].ticket].state IN
       \/ LandedWell(state) /\ Delivered(p)
       \/ ~LandedWell(state) /\ state = "err" /\ Fail(p)
       \/ state \in {"flight", "gone"} /\ PollAgain(p)
    /\ UNCHANGED <<chain, data, worker, tx>>

\* submit_instructions_and_wait(): the relayer says what became of the job, in
\* its reply to the submission or to a poll.  It is not believed: any reply may
\* come at any time.
RelayerJobStates == {"InProgress", "Succeeded", "Failed"}

RelayerReplies ==
    [ http : {"2xx", "error"}, success : BOOLEAN \cup {None},
      data : RelayerJobStates \cup {None} ]

\* decode_envelope() makes something of the reply.
DecodeEnvelope(reply) ==
    /\ reply.http = "2xx"
    /\ reply.success # FALSE
    /\ reply.data # None

PollRelayer(p, reply) ==
    /\ At(p, "confirm")
    /\ proc[p].via = "openzeppelin"
    /\ LET status == IF DecodeEnvelope(reply) THEN reply.data ELSE None IN
       \/ status = "Succeeded" /\ Delivered(p)
       \/ status \in {"Failed", None} /\ Fail(p)
       \/ status = "InProgress" /\ PollAgain(p)
    /\ UNCHANGED <<chain, data, worker, tx>>

-----------------------------------------------------------------------------
(* The other commands, and the files.                                      *)
StartFetchRequest(p, flag) ==
    LET r == IF flag # None THEN flag ELSE data.state.latest IN
    /\ r # None
    /\ Begin(p, [Idle EXCEPT !.at = "read_request", !.cmd = "fetch",
                             !.target = r])

\* resolve_request_address()
ResolveRequestAddress(flag) ==
    IF flag # None THEN flag
    ELSE IF data.request # None THEN data.request.request_pda
    ELSE data.state.latest

\* The files are loaded one after the other, but a mixture of two versions is
\* no different from what a command that starts at another time finds.
StartFinalize(p, flag, via) ==
    LET r == ResolveRequestAddress(flag) IN
    /\ TicketLeft
    /\ data.result # None
    /\ r # None
    /\ Begin(p, [Idle EXCEPT
           !.at = "read_request", !.cmd = "finalize", !.via = via,
           !.target = r, !.parsed = data.result, !.cached = data.request,
           !.state = data.state])

\* write_request_file()
WriteRequestFile(p) ==
    /\ At(p, "write")
    /\ data' = [data EXCEPT !.request = Reconstructed(p)]
    /\ IF proc[p].cmd = "submit"
       THEN GoOn(p, [proc[p] EXCEPT !.at = "save"])
       ELSE Succeed(p, proc[p].target, None)
    /\ UNCHANGED <<chain, worker, tx>>

\* What a command that ends well vouches for.
Vouched(c) ==
    CASE c.cmd = "submit"   -> c.ix.amount
      [] c.cmd = "finalize" -> c.parsed.message.result_hash
      [] OTHER              -> c.ix

\* DevnetState.save(): the whole file is written.
SaveState(p) ==
    /\ At(p, "save")
    /\ data' = [data EXCEPT !.state = SavedState(proc[p])]
    /\ Succeed(p, proc[p].target, Vouched(proc[p]))
    /\ UNCHANGED <<chain, worker, tx>>

\* An RPC or HTTP call fails, a file cannot be read or written, or the user
\* gives up; what was sent stays in flight.
Stop(p) ==
    /\ ~At(p, "idle")
    /\ Fail(p)
    /\ UNCHANGED <<chain, data, worker, tx>>

-----------------------------------------------------------------------------
(* evaluate: reads request.json, runs the circuit, writes result.json.     *)
EvaluateRead ==
    /\ worker = None
    /\ data.request # None
    /\ worker' = data.request
    /\ UNCHANGED <<chain, proc, result, data, tx>>

\* result.json, for a request, with the result of evaluating it.
ResultFile(operator, binding, hash) ==
    [operator |-> operator, message |-> SignedResult(binding, hash)]

EvaluateWrite(operator, hash) ==
    /\ worker # None
    /\ ProcessRequest(operator, worker, hash)
    /\ data' = [data EXCEPT !.result = ResultFile(operator, worker, hash)]
    /\ worker' = None
    /\ UNCHANGED <<proc, result, tx>>

EvaluateStop ==
    /\ worker # None
    /\ worker' = None
    /\ UNCHANGED <<chain, proc, result, data, tx>>

-----------------------------------------------------------------------------
(* Who else writes to the data directory.  demo does both, the first before *)
(* the second; fhe-worker's --request and --out are any file.               *)
DemoWritesRequest(binding) ==
    /\ data' = [data EXCEPT !.request = binding]
    /\ UNCHANGED <<chain, proc, result, worker, tx>>

EvaluateOther(operator, binding, hash) ==
    /\ ProcessRequest(operator, binding, hash)
    /\ data' = [data EXCEPT !.result = ResultFile(operator, binding, hash)]
    /\ UNCHANGED <<proc, result, worker, tx>>

OtherWriters ==
    \/ /\ "demo" \in Disturbances
       /\ \E binding \in RequestFiles : DemoWritesRequest(binding)
    \/ /\ "worker" \in Disturbances
       /\ \E op \in Operators, binding \in FilesAtHand, hash \in ResultHashes :
              EvaluateOther(op, binding, hash)

-----------------------------------------------------------------------------
Evaluate ==
    \/ EvaluateRead
    \/ \E op \in Operators, hash \in ResultHashes : EvaluateWrite(op, hash)
    \/ EvaluateStop

RequestFlags == {None} \cup {r \in RequestKeys : Exists(r)}

Start(p) ==
    \/ /\ "initialize" \in Commands
       /\ \E u \in Users, m \in Mints, op \in Operators, hash \in InputHashes,
             life \in Lifetimes : StartInitialize(p, u, m, op, hash, life)
    \/ /\ "create" \in Commands
       /\ \E u \in Users, hash \in InputHashes : StartCreateAccount(p, u, hash)
    \/ /\ "submit" \in Commands
       /\ \E u \in Users, amount \in InputHashes : StartSubmit(p, u, amount)
    \/ /\ "fetch" \in Commands
       /\ \E flag \in RequestFlags : StartFetchRequest(p, flag)
    \/ /\ "finalize" \in Commands
       /\ \E flag \in RequestFlags, via \in Transports :
              StartFinalize(p, flag, via)

Step(p) ==
    \/ CheckAccountExists(p)
    \/ ReadRequest(p) \/ ReadConfig(p) \/ ReadAccount(p)
    \/ ReadSubmitConfig(p) \/ ReadSubmitAccount(p)
    \/ ValidateRelayer(p)
    \/ Send(p)
    \/ ConfirmDirect(p)
    \/ \E reply \in RelayerReplies : PollRelayer(p, reply)
    \/ WriteRequestFile(p)
    \/ SaveState(p)

\* Where they are not among the Commands, initialize and create-account run at
\* once and without a fault.  No command tells the hashes of balance, limit and
\* parameters apart, so one serves for all three.
SetUp ==
    /\ \/ /\ "initialize" \notin Commands
          /\ \E u \in Users, m \in Mints, op \in Operators, hash \in InputHashes,
                life \in Lifetimes :
                 /\ InitializeConfig(u, m, op, InitialKeyVersion, hash, life)
                 /\ data' = [data EXCEPT !.state.mint = m]
       \/ /\ "create" \notin Commands
          /\ data.state.mint # None
          /\ \E u \in Users, hash \in InputHashes :
                 /\ CreateAccount(u, data.state.mint, hash, hash)
                 /\ data' = [data EXCEPT !.state.account = <<data.state.mint, u>>]
    /\ UNCHANGED <<proc, result, worker, tx>>

\* Instructions of others, and the clock.
Elsewhere ==
    /\ \/ /\ "create" \in Disturbances
          /\ \E m \in Mints, u \in Users, hash \in InputHashes :
                 \/ CreateAccount(u, m, hash, hash)
                 \/ \E op \in Operators, kv \in KeyVersions, life \in Lifetimes :
                        InitializeConfig(u, m, op, kv, hash, life)
       \/ \E m \in Mints : "administer" \in Disturbances /\ Administer(m)
       \/ \E r \in RequestKeys :
              \/ "cancel" \in Disturbances /\ \E u \in Users : Cancel(u, r)
              \/ "expire" \in Disturbances /\ Expire(r)
       \/ Tick
    /\ UNCHANGED <<proc, result, data, worker, tx>>

ClientNext ==
    \/ \E p \in Procs : Start(p) \/ Step(p) \/ Stop(p)
    \/ \E n \in 1 .. MaxSends : Land(n) \/ Forget(n)
    \/ Evaluate \/ OtherWriters
    \/ SetUp \/ Elsewhere

ClientSpec == ClientInit /\ [][ClientNext]_clientVars

\* A command that runs goes on: its calls return, if only with an error.
FairClientSpec == ClientSpec /\ \A p \in Procs : WF_clientVars(Step(p))

-----------------------------------------------------------------------------
Places == { "idle", "exists", "submit_config", "submit_account", "read_request",
            "read_config", "read_account", "validate", "send", "confirm", "write",
            "save" }

Genuine(binding) ==
    LET r == binding.request_pda IN
    Exists(r) /\ binding = RequestBinding(r, request[r])

(* Types, and that a command which waits for a transaction has sent one.   *)
ClientTypeOK ==
    /\ TypeOK
    /\ \A p \in Procs :
           /\ proc[p].at \in Places
           /\ At(p, "confirm") => proc[p].ticket \notin Unused
           /\ proc[p].left \in 0 .. MaxPolls
    /\ worker # None => worker \in Bindings
    /\ \A n \in 1 .. MaxSends : InFlight(n) <=> tx[n].ix # None

(***************************************************************************)
(* What submit and fetch-request leave behind is true on chain: apart from *)
(* what demo has put there, request.json holds the binding of a request    *)
(* that exists, and latest_request is the address of one.  A submit that   *)
(* failed, timed out or was killed leaves nothing that later commands trip *)
(* over.                                                                   *)
(***************************************************************************)
DataDirGenuine ==
    /\ data.request # None => Genuine(data.request) \/ data.request \in RequestFiles
    /\ data.state.latest # None => Exists(data.state.latest)

(***************************************************************************)
(* cmd_initialize, cmd_create_account: what devnet-state.json records has  *)
(* been created, whatever was lost, timed out or sent twice, and also when *)
(* a slow command puts back the file it loaded before others changed it.   *)
(* What they report on stdout is what they have asked for themselves.      *)
(***************************************************************************)
StateFileGenuine ==
    /\ data.state.mint # None => config[data.state.mint] # Absent
    /\ data.state.account # None => account[data.state.account] # Absent

SetUpOkIsOwn ==
    \A p \in Procs :
        LET r == result[p] IN
        /\ r.res = "ok" /\ r.cmd = "initialize" =>
               /\ config[r.request] # Absent
               /\ config[r.request].authority = r.value.owner
               /\ config[r.request].params_hash = r.value.params
               /\ config[r.request].max_request_lifetime_slots = r.value.life
        /\ r.res = "ok" /\ r.cmd = "create" =>
               /\ account[r.request] # Absent
               /\ account[r.request].balance_ref = r.value.hash

(***************************************************************************)
(* Three reads that are not one snapshot are accepted only if they could   *)
(* be one: when fetch_and_verify_request() succeeds, the Request it read   *)
(* first is still what the chain holds at the time of the last read.       *)
(***************************************************************************)
VerifiedIsCurrent ==
    [][\A p \in Procs :
           At(p, "read_account") /\ proc'[p].at \in {"write", "validate", "send", "save"} =>
               request[proc[p].target] = proc[p].req]_clientVars

(***************************************************************************)
(* finalize says Ok only if the request is finalized with the result of    *)
(* this result.json -- whatever the relayer claims and whoever else        *)
(* finalizes, cancels or expires it meanwhile.                             *)
(***************************************************************************)
FinalizeOkIsTrue ==
    \A p \in Procs :
        result[p].res = "ok" /\ result[p].cmd = "finalize" =>
            /\ Finalized(result[p].request)
            /\ request[result[p].request].result_hash = result[p].value

(***************************************************************************)
(* submit says Ok only if the request at the address it reports is the one *)
(* it asked for, also when two submits race for the same nonce.            *)
(***************************************************************************)
SubmitOkIsOwn ==
    \A p \in Procs :
        result[p].res = "ok" /\ result[p].cmd = "submit" =>
            /\ Exists(result[p].request)
            /\ request[result[p].request].amount_hash = result[p].value

(***************************************************************************)
(* finalize sends what belongs together: a signature that an operator has  *)
(* made over the very request it names, as the chain has it -- whatever    *)
(* request.json and result.json held when it read them, of demo's chain,   *)
(* of another request, or of two different ones.                           *)
(***************************************************************************)
FinalizeSendsItsOwn ==
    \A n \in 1 .. MaxSends :
        InFlight(n) /\ tx[n].ix.kind = "finalize" =>
            LET r == tx[n].ix.request  attestation == tx[n].ix.parsed IN
            /\ Exists(r)
            /\ attestation \in signed
            /\ attestation.message.request = RequestBinding(r, request[r])

(***************************************************************************)
(* Every command returns: no status, no lost transaction and no silent     *)
(* relayer keeps it polling for ever.                                      *)
(***************************************************************************)
CommandsReturn == \A p \in Procs : ~At(p, "idle") ~> At(p, "idle")

(***************************************************************************)
(* What makes them return: the places form an order no command goes back   *)
(* in, although a command reads the same three accounts before and after   *)
(* it sends.  So, with Remaining never below 0, a command takes at most    *)
(* 11 + MaxPolls steps, whatever it reads, and sends at most once.         *)
(***************************************************************************)
Remaining(c) ==
    LET sent == c.ticket # None IN
    CASE c.at = "idle"           -> 0
      [] c.at = "save"           -> 1
      [] c.at = "write"          -> 2
      [] c.at = "read_account"   -> IF sent THEN 3 ELSE 9 + MaxPolls
      [] c.at = "read_config"    -> IF sent THEN 4 ELSE 10 + MaxPolls
      [] c.at = "read_request"   -> IF sent THEN 5 ELSE 11 + MaxPolls
      [] c.at = "confirm"        -> 6 + c.left
      [] c.at = "send"           -> 7 + MaxPolls
      [] c.at = "validate"       -> 8 + MaxPolls
      [] c.at = "exists"         -> 8 + MaxPolls
      [] c.at = "submit_account" -> 8 + MaxPolls
      [] c.at = "submit_config"  -> 9 + MaxPolls

CommandsAdvance ==
    [][\A p \in Procs :
           ~At(p, "idle") /\ proc'[p] # proc[p] =>
               Remaining(proc'[p]) \in 0 .. Remaining(proc[p]) - 1]_clientVars

(***************************************************************************)
(* verify_authoritative_finalized(): "confidential account {} still has    *)
(* pending_request {} after finalize".  It need not be the finalized       *)
(* request's lock that is seen; it may be the owner's next request.        *)
(***************************************************************************)
StillPendingIsThisRequest ==
    \A p \in Procs :
        result[p].res = "error" /\ result[p].why = "still has pending_request" =>
            result[p].value = result[p].request

=============================================================================
