--------------------------- MODULE DevnetClientProofs ---------------------------
(***************************************************************************)
(* Proofs about DevnetClient, for any number of processes, transactions    *)
(* and polls.                                                              *)
(*                                                                         *)
(* What a command knows of the chain stays true, because records of the    *)
(* chain are never lost and their terms never change: that something       *)
(* exists, that its own transaction has had its effect, that a request it  *)
(* has read was pending and is now settled or is still what was read.      *)
(***************************************************************************)
EXTENDS DevnetClient, CoordinatorLedgerProofs

DevnetStates ==
    [ mint : Mints \cup {None}, account : Accounts \cup {None},
      latest : RequestKeys \cup {None} ]

CommandRecords ==
    [ at : Places, cmd : CommandNames \cup {None},
      target : Mints \cup Accounts \cup RequestKeys \cup {None},
      via : Transports \cup {"direct", None}, parsed : Attestations \cup {None},
      cached : Bindings \cup {None}, state : DevnetStates \cup {None},
      req : Requests \cup {None}, conf : Configs \cup {Absent, None},
      ix : Instructions \cup {None}, prior : U64 \cup {None},
      ticket : (1 .. MaxSends) \cup {None}, left : 0 .. MaxPolls ]

Transactions ==
    [ state : {"unsent", "flight", "ok", "err", "gone"}, ix : Instructions \cup {None} ]

ClientTypes ==
    /\ proc \in [Procs -> CommandRecords]
    /\ DOMAIN result = Procs
    /\ data \in [ request : Bindings \cup {None}, result : Attestations \cup {None},
                  state : DevnetStates ]
    /\ worker \in Bindings \cup {None}
    /\ tx \in [1 .. MaxSends -> Transactions]
    /\ \A n \in 1 .. MaxSends : InFlight(n) <=> tx[n].ix # None

-----------------------------------------------------------------------------
(* Where a command can be, and what its record holds there.                *)
SetUpPlaces == {"exists", "send", "confirm", "save"}
ReadPlaces == {"read_request", "read_config", "read_account"}

\* The address of the Request a submit creates.
SubmittedAt(ix) == <<<<ix.mint, ix.owner>>, ix.nonce>>

Shape(c) ==
    /\ c.cmd = None => c.at = "idle"
    /\ c.cmd = "initialize" =>
           /\ c.at \in SetUpPlaces /\ c.via = "direct" /\ c.state \in DevnetStates
           /\ c.ix \in Instructions /\ c.ix.kind = "initialize"
           /\ c.target = c.ix.mint
    /\ c.cmd = "create" =>
           /\ c.at \in SetUpPlaces /\ c.via = "direct" /\ c.state \in DevnetStates
           /\ c.ix \in Instructions /\ c.ix.kind = "create"
           /\ c.target = <<c.ix.mint, c.ix.owner>>
    /\ c.cmd = "submit" =>
           /\ c.at \in {"submit_config", "submit_account", "send", "confirm", "write",
                        "save"} \cup ReadPlaces
           /\ c.state \in DevnetStates
           /\ c.ix \in Instructions /\ c.ix.kind = "submit"
           /\ c.at \in {"submit_config", "submit_account"} => c.state.account \in Accounts
           /\ c.at \notin {"submit_config", "submit_account"} =>
                  c.via = "direct" /\ c.target = SubmittedAt(c.ix)
    /\ c.cmd = "fetch" =>
           c.at \in {"write"} \cup ReadPlaces /\ c.target \in RequestKeys
    /\ c.cmd = "finalize" =>
           /\ c.at \in {"validate", "send", "confirm", "save"} \cup ReadPlaces
           /\ c.state \in DevnetStates
           /\ c.target \in RequestKeys /\ c.parsed \in Attestations
           /\ c.at \in {"validate", "send", "confirm"} => c.ix \in Instructions
    /\ c.at \in {"read_config", "read_account", "write"} => c.req \in Requests
    /\ c.at = "confirm" => c.ticket \in 1 .. MaxSends

(* What it knows of the chain there.                                       *)
StateGenuine(s) ==
    /\ s.mint # None => config[s.mint] # Absent
    /\ s.account # None => account[s.account] # Absent
    /\ s.latest # None => Exists(s.latest)

\* The instruction has had its effect.
Effect(ix) ==
    /\ ix.kind = "initialize" =>
           /\ config[ix.mint] # Absent
           /\ config[ix.mint].authority = ix.owner
           /\ config[ix.mint].params_hash = ix.params
           /\ config[ix.mint].max_request_lifetime_slots = ix.life
    /\ ix.kind = "create" =>
           /\ account[<<ix.mint, ix.owner>>] # Absent
           /\ account[<<ix.mint, ix.owner>>].balance_ref = ix.hash
    /\ ix.kind = "submit" =>
           /\ Exists(SubmittedAt(ix))
           /\ request[SubmittedAt(ix)].amount_hash = ix.amount

\* q has been read at r: it is there still, or it was pending and is settled now.
ReadEarlier(r, q) ==
    /\ Exists(r)
    /\ RequestBinding(r, request[r]) = RequestBinding(r, q)
    /\ q = request[r] \/ (q.status = "pending" /\ ~Pending(r))

TicketKnown(n, ix) ==
    /\ tx[n].state # "unsent"
    /\ tx[n].state = "flight" => tx[n].ix = ix
    /\ tx[n].state = "ok" => Effect(ix)

FinalizedWith(r, parsed) ==
    Finalized(r) /\ request[r].result_hash = parsed.message.result_hash

Truth(c) ==
    /\ c.cmd \in CommandNames \ {"fetch"} => StateGenuine(c.state)
    /\ c.at \in {"read_config", "read_account", "write"} => ReadEarlier(c.target, c.req)
    /\ c.at = "confirm" => TicketKnown(c.ticket, c.ix)
    /\ c.cmd \in {"initialize", "create", "submit"}
           /\ c.at \in {"write", "save"} \cup ReadPlaces => Effect(c.ix)
    /\ c.cmd = "finalize" /\ c.at = "save" => FinalizedWith(c.target, c.parsed)

\* What a command has reported is so.
Reported(r) ==
    r.res = "ok" =>
        /\ r.cmd = "initialize" =>
               /\ r.request \in Mints
               /\ config[r.request] # Absent
               /\ config[r.request].authority = r.value.owner
               /\ config[r.request].params_hash = r.value.params
               /\ config[r.request].max_request_lifetime_slots = r.value.life
        /\ r.cmd = "create" =>
               /\ r.request \in Accounts
               /\ account[r.request] # Absent
               /\ account[r.request].balance_ref = r.value.hash
        /\ r.cmd = "submit" =>
               /\ r.request \in RequestKeys
               /\ Exists(r.request)
               /\ request[r.request].amount_hash = r.value
        /\ r.cmd = "finalize" =>
               /\ r.request \in RequestKeys
               /\ Finalized(r.request)
               /\ request[r.request].result_hash = r.value

\* What a file may hold: a request of this chain, or one from elsewhere.
Known(binding) == Genuine(binding) \/ binding \in RequestFiles

FilesGenuine ==
    /\ StateGenuine(data.state)
    /\ data.request # None => Known(data.request)
    /\ data.result # None =>
           data.result \in signed /\ Known(data.result.message.request)
    /\ worker # None => Known(worker)

\* The record of p's command, and what p has reported, are as said above.
Knows(p) == \E c \in CommandRecords : c = proc[p] /\ Shape(c) /\ Truth(c)
Reports(p) == \E r : r = result[p] /\ Reported(r)

ChainInv == IInv /\ DigestsSealed

CInv ==
    /\ ChainInv
    /\ ClientTypes
    /\ FilesGenuine
    /\ \A p \in Procs : Knows(p) /\ Reports(p)

-----------------------------------------------------------------------------
LEMMA IdleFits == Idle \in CommandRecords /\ Shape(Idle) /\ Truth(Idle)
<1>1. Idle \in CommandRecords
  BY BoundsAssumption DEF Idle, CommandRecords, Places
<1>2. /\ Idle.at = "idle" /\ Idle.cmd = None /\ None \notin CommandNames
      /\ \A s \in CommandNames : None # s
  BY NoneAssumption DEF Idle
<1>3. Shape(Idle)
  BY <1>2 DEF Shape, CommandNames
<1>4. Truth(Idle)
  BY <1>2 DEF Truth, CommandNames, ReadPlaces
<1> QED
  BY <1>1, <1>3, <1>4

LEMMA InitCInv == ClientInit => CInv
<1> SUFFICES ASSUME ClientInit PROVE CInv
  OBVIOUS
<1>1. ChainInv
  BY InitIInv DEF ClientInit, ChainInv, DigestsSealed, Init, Exists
<1>2. NothingRecorded \in DevnetStates
  BY DEF NothingRecorded, DevnetStates
<1>3. Unsent \in Transactions /\ Unsent.state # "flight" /\ Unsent.ix = None
  BY DEF Unsent, Transactions
<1>4. ClientTypes
  BY <1>2, <1>3, IdleFits DEF ClientInit, ClientTypes, InFlight
<1>5. FilesGenuine
  BY DEF ClientInit, FilesGenuine, StateGenuine, NothingRecorded
<1>6. \A p \in Procs : proc[p] = Idle /\ Reported(result[p])
  BY DEF ClientInit, Reported, NoResult
<1> QED
  BY <1>1, <1>4, <1>5, <1>6, IdleFits DEF CInv, Knows, Reports

-----------------------------------------------------------------------------
(* What stays true whatever happens on chain.                              *)
Kept ==
    /\ RequestsKept /\ ConfigsKept /\ AccountsKept
    /\ signed \subseteq signed'

\* How one step may change a transaction that has been sent.
TxKept ==
    \A n \in 1 .. MaxSends :
        tx[n].state # "unsent" =>
            \/ tx'[n] = tx[n]
            \/ tx'[n].state \in {"err", "gone"}
            \/ /\ tx[n].state = "flight" /\ tx'[n].state = "ok"
               /\ \E ix \in Instructions : ix = tx[n].ix /\ Effect(ix)'

LEMMA InstructionFields ==
    ASSUME NEW ix \in Instructions
    PROVE  /\ ix.mint \in Mints
           /\ ix.kind \in {"initialize", "create", "submit"} => ix.owner \in Users
           /\ ix.kind = "submit" => SubmittedAt(ix) \in RequestKeys
           /\ ix.kind = "create" => <<ix.mint, ix.owner>> \in Accounts
BY DEF Instructions, SubmittedAt, RequestKeys, Accounts

LEMMA EffectKept ==
    ASSUME Kept, NEW ix \in Instructions, Effect(ix)
    PROVE  Effect(ix)'
<1>1. CASE ix.kind = "initialize"
  BY <1>1, InstructionFields DEF Kept, ConfigsKept, Effect
<1>2. CASE ix.kind = "create"
  BY <1>2, InstructionFields DEF Kept, AccountsKept, Effect
<1>3. CASE ix.kind = "submit"
  <2> DEFINE r == SubmittedAt(ix)
  <2>1. /\ r \in RequestKeys /\ Exists(r) /\ request[r].amount_hash = ix.amount
        /\ RequestBinding(r, request[r]).amount_hash = request[r].amount_hash
        /\ RequestBinding(r, request'[r]).amount_hash = request'[r].amount_hash
    BY <1>3, InstructionFields DEF Effect, RequestBinding
  <2> HIDE DEF r
  <2>2. Exists(r)' /\ request'[r].amount_hash = ix.amount
    BY <2>1 DEF Kept, RequestsKept
  <2> QED
    BY <1>3, <2>2 DEF Effect, r, Exists
<1> QED
  BY <1>1, <1>2, <1>3 DEF Effect

LEMMA StateKept ==
    ASSUME Kept, NEW s \in DevnetStates, StateGenuine(s)
    PROVE  StateGenuine(s)'
BY DEF Kept, ConfigsKept, AccountsKept, RequestsKept, StateGenuine, DevnetStates

LEMMA KnownKept ==
    ASSUME Kept, NEW binding \in Bindings, Known(binding)
    PROVE  Known(binding)'
BY DEF Kept, RequestsKept, Known, Genuine, Bindings

LEMMA ReadKept ==
    ASSUME Kept, NEW r \in RequestKeys, NEW q, ReadEarlier(r, q)
    PROVE  ReadEarlier(r, q)'
<1>1. /\ Exists(r)'
      /\ RequestBinding(r, request'[r]) = RequestBinding(r, q)
      /\ ~Pending(r) => request'[r] = request[r]
      /\ request'[r] # request[r] => ~Pending(r)'
  BY DEF Kept, RequestsKept, ReadEarlier
<1>2. CASE q = request[r] /\ q # request'[r]
  <2>1. Pending(r) /\ ~Pending(r)'
    BY <1>1, <1>2
  <2>2. q.status = "pending"
    BY <1>2, <2>1 DEF Pending, HasStatus
  <2> QED
    BY <1>1, <2>1, <2>2 DEF ReadEarlier
<1>3. CASE q = request'[r]
  BY <1>1, <1>3 DEF ReadEarlier
<1>4. CASE q.status = "pending" /\ ~Pending(r)
  <2>1. ~Pending(r)'
    BY <1>1, <1>4 DEF Pending, HasStatus, Exists
  <2> QED
    BY <1>1, <1>4, <2>1 DEF ReadEarlier
<1> QED
  BY <1>2, <1>3, <1>4 DEF ReadEarlier

LEMMA FinalizedKept ==
    ASSUME Kept, NEW r \in RequestKeys, Finalized(r)
    PROVE  Finalized(r)' /\ request'[r] = request[r]
BY DEF Kept, RequestsKept, Finalized, Pending, HasStatus, Exists

LEMMA TicketKept ==
    ASSUME Kept, TxKept, NEW n \in 1 .. MaxSends, NEW ix \in Instructions,
           TicketKnown(n, ix)
    PROVE  TicketKnown(n, ix)'
<1>1. CASE tx'[n] = tx[n]
  BY <1>1, EffectKept DEF TicketKnown
<1>2. CASE tx'[n].state \in {"err", "gone"}
  BY <1>2 DEF TicketKnown
<1>3. CASE /\ tx[n].state = "flight" /\ tx'[n].state = "ok"
           /\ \E j \in Instructions : j = tx[n].ix /\ Effect(j)'
  BY <1>3 DEF TicketKnown
<1> QED
  BY <1>1, <1>2, <1>3 DEF TicketKnown, TxKept

LEMMA ShapeFields ==
    ASSUME NEW c \in CommandRecords, Shape(c)
    PROVE  /\ c.cmd \in CommandNames \ {"fetch"} => c.state \in DevnetStates
           /\ c.at \in {"read_config", "read_account", "write"} => c.target \in RequestKeys
           /\ c.cmd = "finalize" => c.target \in RequestKeys
           /\ c.at = "confirm" => c.ticket \in 1 .. MaxSends /\ c.ix \in Instructions
           /\ c.cmd \in {"initialize", "create", "submit"} => c.ix \in Instructions
<1>1. c.cmd \in CommandNames \cup {None}
  BY DEF CommandRecords
<1>2. CASE c.cmd = None
  BY <1>2, NoneAssumption DEF Shape, CommandNames
<1>3. CASE c.cmd = "initialize" \/ c.cmd = "create"
  BY <1>3 DEF Shape, SetUpPlaces
<1>4. CASE c.cmd = "submit"
  BY <1>4, InstructionFields DEF Shape, ReadPlaces
<1>5. CASE c.cmd = "fetch"
  BY <1>5 DEF Shape, ReadPlaces
<1>6. CASE c.cmd = "finalize"
  BY <1>6 DEF Shape, ReadPlaces, CommandNames
<1> QED
  BY <1>1, <1>2, <1>3, <1>4, <1>5, <1>6 DEF CommandNames

\* So a command that rests does not forget.
LEMMA TruthKept ==
    ASSUME Kept, TxKept, NEW c \in CommandRecords, Shape(c), Truth(c)
    PROVE  Truth(c)'
<1>1. c.cmd \in CommandNames \ {"fetch"} => StateGenuine(c.state)'
  BY ShapeFields, StateKept DEF Truth
<1>2. c.at \in {"read_config", "read_account", "write"} => ReadEarlier(c.target, c.req)'
  BY ShapeFields, ReadKept DEF Truth
<1>3. c.at = "confirm" => TicketKnown(c.ticket, c.ix)'
  BY ShapeFields, TicketKept DEF Truth
<1>4. c.cmd \in {"initialize", "create", "submit"}
          /\ c.at \in {"write", "save"} \cup ReadPlaces => Effect(c.ix)'
  BY ShapeFields, EffectKept DEF Truth
<1>5. c.cmd = "finalize" /\ c.at = "save" => FinalizedWith(c.target, c.parsed)'
  BY ShapeFields, FinalizedKept DEF Truth, FinalizedWith
<1> QED
  BY <1>1, <1>2, <1>3, <1>4, <1>5 DEF Truth

LEMMA ReportKept ==
    ASSUME Kept, NEW r, Reported(r)
    PROVE  Reported(r)'
<1> SUFFICES ASSUME r.res = "ok" PROVE Reported(r)'
  BY DEF Reported
<1>1. CASE r.cmd = "initialize"
  BY <1>1 DEF Reported, Kept, ConfigsKept
<1>2. CASE r.cmd = "create"
  BY <1>2 DEF Reported, Kept, AccountsKept
<1>3. CASE r.cmd = "submit"
  BY <1>3 DEF Reported, Kept, RequestsKept, RequestBinding
<1>4. CASE r.cmd = "finalize"
  <2>1. Finalized(r.request)' /\ request'[r.request] = request[r.request]
    BY <1>4, FinalizedKept DEF Reported
  <2> QED
    BY <1>4, <2>1 DEF Reported
<1> QED
  BY <1>1, <1>2, <1>3, <1>4 DEF Reported

-----------------------------------------------------------------------------
(* The chain, under these clients, is a coordinator.                       *)
LEMMA ExecuteStep ==
    ASSUME NEW ix \in Instructions, Execute(ix)
    PROVE  Next
<1>1. CASE ix.kind = "initialize"
  <2>1. /\ ix.owner \in Users /\ ix.mint \in Mints /\ ix.operator \in Operators
        /\ ix.params \in InputHashes /\ ix.life \in Lifetimes
    BY <1>1 DEF Instructions
  <2>2. InitializeConfig(ix.owner, ix.mint, ix.operator, InitialKeyVersion,
                         ix.params, ix.life)
    BY <1>1 DEF Execute
  <2>3. Administer(ix.mint)
    BY <2>1, <2>2, InitialKeyVersionAssumption DEF Administer
  <2> QED
    BY <2>1, <2>3 DEF Next
<1>2. CASE ix.kind = "create"
  <2>1. ix.owner \in Users /\ ix.mint \in Mints /\ ix.hash \in InputHashes
    BY <1>2 DEF Instructions
  <2>2. CreateAccount(ix.owner, ix.mint, ix.hash, ix.hash)
    BY <1>2 DEF Execute
  <2> QED
    BY <2>1, <2>2 DEF Next, Use
<1>3. CASE ix.kind = "submit"
  <2>1. /\ ix.owner \in Users /\ ix.mint \in Mints /\ ix.amount \in InputHashes
        /\ ix.version \in U64 /\ ix.nonce \in U64
    BY <1>3 DEF Instructions
  <2>2. Submit(ix.owner, ix.mint, ix.amount, ix.version, ix.nonce)
    BY <1>3 DEF Execute
  <2> QED
    BY <2>1, <2>2 DEF Next, Use
<1>4. CASE ix.kind = "finalize"
  <2>1. /\ ix.mint \in Mints /\ ix.request \in RequestKeys
        /\ ix.parsed.message.result_hash \in ResultHashes
    BY <1>4 DEF Instructions, Attestations, ResultBindings
  <2>2. Finalize(ix.mint, ix.request, ix.parsed.message.result_hash, PolicyResult)
    BY <1>4 DEF Execute
  <2>3. Settle(ix.request)
    BY <2>1, <2>2, KindAssumption DEF Settle
  <2> QED
    BY <2>1, <2>3 DEF Next
<1> QED
  BY <1>1, <1>2, <1>3, <1>4 DEF Execute

\* Whatever is read from request.json, or handed to a worker, is Known.
LEMMA KnownAtHand ==
    ASSUME NEW binding \in Bindings, Known(binding)
    PROVE  binding \in FilesAtHand
BY DEF Known, Genuine, FilesAtHand, Bindings

LEMMA AtHandKnown ==
    ASSUME ChainInv, NEW binding \in FilesAtHand
    PROVE  binding \in Bindings /\ Known(binding)
<1>1. binding \in Bindings
  BY FilesType DEF ChainInv, IInv
<1>2. CASE binding \in RequestFiles
  BY <1>1, <1>2 DEF Known
<1>3. CASE \E r \in RequestKeys : Exists(r) /\ binding = RequestBinding(r, request[r])
  <2>1. PICK r \in RequestKeys : Exists(r) /\ binding = RequestBinding(r, request[r])
    BY <1>3
  <2>2. binding.request_pda = r
    BY <2>1 DEF RequestBinding
  <2> QED
    BY <1>1, <2>1, <2>2 DEF Known, Genuine
<1> QED
  BY <1>2, <1>3 DEF FilesAtHand

\* Both ways to a result.json are a ProcessRequest of a file at hand.
Evaluates(op, binding, hash) ==
    /\ ProcessRequest(op, binding, hash)
    /\ data' = [data EXCEPT !.result = ResultFile(op, binding, hash)]
    /\ worker' \in {worker, None}
    /\ UNCHANGED <<proc, result, tx>>

LEMMA EvaluateWriteEvaluates ==
    ASSUME CInv, NEW op \in Operators, NEW hash \in ResultHashes, EvaluateWrite(op, hash)
    PROVE  worker \in FilesAtHand /\ Evaluates(op, worker, hash)
<1>1. worker \in Bindings /\ Known(worker)
  BY DEF CInv, ClientTypes, FilesGenuine, EvaluateWrite
<1> QED
  BY <1>1, KnownAtHand DEF EvaluateWrite, Evaluates

LEMMA OtherWritersCases ==
    ASSUME OtherWriters
    PROVE  \/ \E binding \in RequestFiles : DemoWritesRequest(binding)
           \/ \E op \in Operators, binding \in FilesAtHand, hash \in ResultHashes :
                  Evaluates(op, binding, hash)
BY DEF OtherWriters, EvaluateOther, Evaluates

LEMMA CommandStep ==
    ASSUME NEW p \in Procs, Start(p) \/ Step(p) \/ Stop(p)
    PROVE  UNCHANGED chain /\ UNCHANGED worker
<1>1. CASE Start(p)
  BY <1>1 DEF Start, StartInitialize, StartCreateAccount, StartSubmit, StartFetchRequest,
              StartFinalize, Begin
<1>2. CASE Step(p)
  BY <1>2 DEF Step, CheckAccountExists, ReadRequest, ReadConfig, ReadAccount,
              ReadSubmitConfig, ReadSubmitAccount, ValidateRelayer, Send, ConfirmDirect,
              PollRelayer, WriteRequestFile, SaveState
<1> QED
  BY <1>1, <1>2 DEF Stop

LEMMA SetUpStep == CInv /\ SetUp => Next
<1> SUFFICES ASSUME CInv, SetUp PROVE Next
  OBVIOUS
<1>1. CASE \E u \in Users, m \in Mints, op \in Operators, hash \in InputHashes,
              life \in Lifetimes :
               InitializeConfig(u, m, op, InitialKeyVersion, hash, life)
  BY <1>1, InitialKeyVersionAssumption DEF Next, Administer
<1>2. CASE /\ data.state.mint # None
           /\ \E u \in Users, hash \in InputHashes :
                  CreateAccount(u, data.state.mint, hash, hash)
  <2>1. data.state.mint \in Mints
    BY <1>2 DEF CInv, ClientTypes, DevnetStates
  <2> QED
    BY <1>2, <2>1 DEF Next, Use
<1> QED
  BY <1>1, <1>2 DEF SetUp

LEMMA ElsewhereStep == Elsewhere => Next
<1>1. ASSUME NEW m \in Mints, NEW u \in Users, NEW hash \in InputHashes,
             CreateAccount(u, m, hash, hash)
      PROVE  Next
  BY <1>1 DEF Next, Use
<1>2. ASSUME NEW m \in Mints, NEW u \in Users, NEW hash \in InputHashes,
             NEW op \in Operators, NEW kv \in KeyVersions, NEW life \in Lifetimes,
             InitializeConfig(u, m, op, kv, hash, life)
      PROVE  Next
  BY <1>2 DEF Next, Administer
<1>3. ASSUME NEW r \in RequestKeys, (\E u \in Users : Cancel(u, r)) \/ Expire(r)
      PROVE  Next
  BY <1>3 DEF Next, Settle
<1> QED
  BY <1>1, <1>2, <1>3 DEF Elsewhere, Next

LEMMA ChainStep == CInv /\ [ClientNext]_clientVars => [Next]_vars
<1> SUFFICES ASSUME CInv, [ClientNext]_clientVars PROVE [Next]_vars
  OBVIOUS
<1>1. CASE \E p \in Procs : Start(p) \/ Step(p) \/ Stop(p)
  BY <1>1, CommandStep DEF chain
<1>2. CASE \E n \in 1 .. MaxSends : Land(n) \/ Forget(n)
  <2> SUFFICES ASSUME NEW n \in 1 .. MaxSends, Land(n) \/ Forget(n) PROVE [Next]_vars
    BY <1>2
  <2>1. CASE Execute(tx[n].ix) /\ InFlight(n)
    <3>1. tx[n].ix \in Instructions
      BY <2>1 DEF CInv, ClientTypes, Transactions
    <3> QED
      BY <2>1, <3>1, ExecuteStep
  <2>2. CASE UNCHANGED chain
    BY <2>2 DEF chain
  <2> QED
    BY <2>1, <2>2 DEF Land, Forget
<1>3. CASE Evaluate
  BY <1>3, EvaluateWriteEvaluates
     DEF Evaluate, EvaluateRead, EvaluateStop, Evaluates, Next, chain
<1>4. CASE UNCHANGED clientVars
  BY <1>4 DEF clientVars
<1>5. CASE OtherWriters
  BY <1>5, OtherWritersCases DEF DemoWritesRequest, Evaluates, Next, chain
<1> QED
  BY <1>1, <1>2, <1>3, <1>4, <1>5, SetUpStep, ElsewhereStep DEF ClientNext

LEMMA ChainInvStep ==
    ASSUME ChainInv, [Next]_vars
    PROVE  ChainInv' /\ Kept
BY NextIInv, StepSeals, StepKeepsRequests, StepKeepsConfigs, StepKeepsAccounts, SignedGrows
   DEF ChainInv, Kept

-----------------------------------------------------------------------------
(* A step keeps the invariant if every command it moves knows what it must *)
(* where it gets to.                                                       *)
LEMMA KnowsKept ==
    ASSUME Kept, TxKept, NEW p \in Procs, Knows(p), proc'[p] = proc[p]
    PROVE  Knows(p)'
BY TruthKept DEF Knows

LEMMA ReportsKept ==
    ASSUME Kept, NEW p \in Procs, Reports(p), result'[p] = result[p]
    PROVE  Reports(p)'
BY ReportKept DEF Reports

LEMMA FilesKept ==
    ASSUME CInv, Kept, UNCHANGED <<data, worker>>
    PROVE  FilesGenuine'
<1>1. StateGenuine(data.state)'
  <2>1. PICK s \in DevnetStates : s = data.state /\ StateGenuine(s)
    BY DEF CInv, ClientTypes, FilesGenuine
  <2>2. StateGenuine(s)' /\ s = data'.state
    BY <2>1, StateKept
  <2> QED
    BY <2>2 DEF StateGenuine, Exists
<1>2. ASSUME NEW binding \in Bindings, Known(binding)
      PROVE  Known(binding)'
  BY <1>2, KnownKept
<1>3. data.request # None => Known(data.request)'
  <2> SUFFICES ASSUME data.request # None PROVE Known(data.request)'
    OBVIOUS
  <2>1. PICK b \in Bindings : b = data.request /\ Known(b)
    BY DEF CInv, ClientTypes, FilesGenuine
  <2> QED
    BY <1>2, <2>1 DEF Known, Genuine, Exists
<1>4. worker # None => Known(worker)'
  <2> SUFFICES ASSUME worker # None PROVE Known(worker)'
    OBVIOUS
  <2>1. PICK b \in Bindings : b = worker /\ Known(b)
    BY DEF CInv, ClientTypes, FilesGenuine
  <2> QED
    BY <1>2, <2>1 DEF Known, Genuine, Exists
<1>5. data.result # None =>
          data.result \in signed' /\ Known(data.result.message.request)'
  <2> SUFFICES ASSUME data.result # None
               PROVE  data.result \in signed' /\ Known(data.result.message.request)'
    OBVIOUS
  <2>1. PICK b \in Bindings : b = data.result.message.request /\ Known(b)
    BY DEF CInv, ClientTypes, FilesGenuine, Attestations, ResultBindings
  <2>2. data.result \in signed'
    BY DEF CInv, FilesGenuine, Kept
  <2> QED
    BY <1>2, <2>1, <2>2 DEF Known, Genuine, Exists
<1> QED
  BY <1>1, <1>3, <1>4, <1>5 DEF FilesGenuine

\* The process p goes on as c, and reports r if it has come to its end.
LEMMA ProcessStep ==
    ASSUME CInv, ChainInv', Kept, TxKept, FilesGenuine',
           NEW p \in Procs, NEW c \in CommandRecords,
           proc' = [proc EXCEPT ![p] = c], Shape(c), Truth(c)',
           data' \in [ request : Bindings \cup {None}, result : Attestations \cup {None},
                       state : DevnetStates ],
           worker' \in Bindings \cup {None},
           tx' \in [1 .. MaxSends -> Transactions],
           \A n \in 1 .. MaxSends : InFlight(n)' <=> tx'[n].ix # None,
           DOMAIN result' = Procs, Reports(p)',
           \A q \in Procs \ {p} : result'[q] = result[q]
    PROVE  CInv'
<1>1. proc \in [Procs -> CommandRecords]
  BY DEF CInv, ClientTypes
<1>2. ClientTypes'
  BY <1>1 DEF ClientTypes
<1>3. Knows(p)'
  BY <1>1 DEF Knows
<1>4. ASSUME NEW q \in Procs, q # p
      PROVE  Knows(q)' /\ Reports(q)'
  BY <1>1, <1>4, KnowsKept, ReportsKept DEF CInv
<1> QED
  BY <1>2, <1>3, <1>4 DEF CInv

\* Nothing but p changes.
LEMMA LocalStep ==
    ASSUME CInv, UNCHANGED <<chain, data, worker, tx>>,
           NEW p \in Procs, NEW c \in CommandRecords,
           proc' = [proc EXCEPT ![p] = c], Shape(c), Truth(c),
           \/ UNCHANGED result
           \/ \E r : r.res # "ok" /\ result' = [result EXCEPT ![p] = r]
    PROVE  CInv'
<1>1. ChainInv' /\ Kept
  BY ChainInvStep DEF CInv, chain
<1>2. TxKept
  BY DEF TxKept
<1>3. FilesGenuine' /\ Truth(c)'
  BY <1>1, <1>2, FilesKept, TruthKept
<1>4. DOMAIN result' = Procs /\ \A q \in Procs \ {p} : result'[q] = result[q]
  BY DEF CInv, ClientTypes
<1>5. Reports(p)'
  <2>1. CASE UNCHANGED result
    BY <1>1, <2>1, ReportsKept DEF CInv
  <2>2. ASSUME NEW r, r.res # "ok", result' = [result EXCEPT ![p] = r]
        PROVE  Reports(p)'
    BY <2>2 DEF Reports, Reported, CInv, ClientTypes
  <2> QED
    BY <2>1, <2>2
<1> QED
  BY <1>1, <1>2, <1>3, <1>4, <1>5, ProcessStep DEF CInv, ClientTypes, InFlight

LEMMA FailStep ==
    ASSUME CInv, UNCHANGED <<chain, data, worker, tx>>, NEW p \in Procs,
           Fail(p) \/ \E why, value : FailOn(p, why, value)
    PROVE  CInv'
<1>1. /\ proc' = [proc EXCEPT ![p] = Idle]
      /\ \E r : r.res # "ok" /\ result' = [result EXCEPT ![p] = r]
  BY DEF Fail, FailOn, End
<1> QED
  BY <1>1, IdleFits, LocalStep

-----------------------------------------------------------------------------
(* The commands, place by place.                                           *)
LEMMA MoveTo ==
    ASSUME NEW d \in CommandRecords, NEW place \in Places
    PROVE  LET c == [d EXCEPT !.at = place] IN
           /\ c \in CommandRecords
           /\ c.at = place /\ c.cmd = d.cmd /\ c.target = d.target /\ c.via = d.via
           /\ c.parsed = d.parsed /\ c.state = d.state /\ c.req = d.req
           /\ c.ix = d.ix /\ c.ticket = d.ticket
BY DEF CommandRecords

LEMMA StartStep ==
    ASSUME CInv, NEW p \in Procs, Start(p)
    PROVE  CInv'
<1> DEFINE s == data.state
<1>1. /\ s \in DevnetStates /\ StateGenuine(s)
      /\ data.request \in Bindings \cup {None} /\ data.result \in Attestations \cup {None}
      /\ Idle \in CommandRecords /\ NoResult.res # "ok"
  BY IdleFits DEF CInv, ClientTypes, FilesGenuine, NoResult
<1>0. /\ Idle \in CommandRecords /\ s \in DevnetStates
      /\ data.request \in Bindings \cup {None}
  BY <1>1
<1> HIDE DEF s
<1>2. ASSUME NEW c \in CommandRecords, Begin(p, c), Shape(c), Truth(c)
      PROVE  CInv'
  BY <1>1, <1>2, LocalStep DEF Begin
<1>3. ASSUME NEW u \in Users, NEW m \in Mints, NEW op \in Operators,
             NEW hash \in InputHashes, NEW life \in Lifetimes,
             StartInitialize(p, u, m, op, hash, life)
      PROVE  CInv'
  <2> DEFINE ix == InitializeIx(u, m, op, hash, life)
             c == [Idle EXCEPT !.at = "exists", !.cmd = "initialize", !.via = "direct",
                               !.target = m, !.state = s, !.ix = ix]
  <2>1. ix \in Instructions /\ ix.kind = "initialize" /\ ix.mint = m
    BY DEF InitializeIx, Instructions
  <2> HIDE DEF ix
  <2>2. /\ c \in CommandRecords
        /\ c.at = "exists" /\ c.cmd = "initialize" /\ c.via = "direct"
        /\ c.target = m /\ c.state = s /\ c.ix = ix
    <3>1. /\ "exists" \in Places /\ "initialize" \in CommandNames
          /\ ix \in Instructions
      BY <2>1 DEF Places, CommandNames
    <3>2. c \in CommandRecords
      BY <1>0, <3>1 DEF CommandRecords
    <3> QED
      BY <1>0, <3>2 DEF CommandRecords
  <2>3. Begin(p, c)
    BY <1>3 DEF StartInitialize, s, ix
  <2> HIDE DEF c
  <2>4. Shape(c) /\ Truth(c)
    BY <1>1, <2>1, <2>2, NoneAssumption
       DEF Shape, Truth, SetUpPlaces, CommandNames, ReadPlaces
  <2> QED
    BY <1>2, <2>2, <2>3, <2>4
<1>4. ASSUME NEW u \in Users, NEW hash \in InputHashes, StartCreateAccount(p, u, hash)
      PROVE  CInv'
  <2> DEFINE m == s.mint
             a == <<m, u>>
             ix == CreateAccountIx(u, m, hash)
             c == [Idle EXCEPT !.at = "exists", !.cmd = "create", !.via = "direct",
                               !.target = a, !.state = s, !.ix = ix]
  <2>1. m \in Mints
    BY <1>1, <1>4 DEF StartCreateAccount, DevnetStates, s
  <2>2. Begin(p, c)
    BY <1>4 DEF StartCreateAccount, s
  <2> HIDE DEF m
  <2>3. /\ ix \in Instructions /\ ix.kind = "create" /\ a = <<ix.mint, ix.owner>>
        /\ a \in Accounts
    BY <2>1 DEF CreateAccountIx, Instructions, Accounts
  <2> HIDE DEF ix, a
  <2>4. /\ c \in CommandRecords
        /\ c.at = "exists" /\ c.cmd = "create" /\ c.via = "direct"
        /\ c.target = a /\ c.state = s /\ c.ix = ix
    <3>1. /\ "exists" \in Places /\ "create" \in CommandNames
          /\ a \in Accounts /\ ix \in Instructions
      BY <2>3 DEF Places, CommandNames
    <3>2. c \in CommandRecords
      BY <1>0, <3>1, ZenonT(60) DEF CommandRecords
    <3> QED
      BY <1>0, <3>2 DEF CommandRecords
  <2> HIDE DEF c
  <2>5. Shape(c) /\ Truth(c)
    BY <1>1, <2>3, <2>4, NoneAssumption
       DEF Shape, Truth, SetUpPlaces, CommandNames, ReadPlaces
  <2> QED
    BY <1>2, <2>2, <2>4, <2>5
<1>5. ASSUME NEW u \in Users, NEW amount \in InputHashes, StartSubmit(p, u, amount)
      PROVE  CInv'
  <2> DEFINE t == [s EXCEPT !.latest = None]
             ix == SubmitIx(u, s.mint, amount, 0, 0)
             c == [Idle EXCEPT !.at = "submit_config", !.cmd = "submit", !.state = t,
                               !.ix = ix]
  <2>1. s.mint \in Mints /\ s.account \in Accounts
    BY <1>1, <1>5 DEF StartSubmit, DevnetStates, s
  <2>2. t \in DevnetStates /\ StateGenuine(t) /\ t.account = s.account
    BY <1>1 DEF DevnetStates, StateGenuine
  <2>3. Begin(p, c)
    BY <1>5 DEF StartSubmit, s
  <2>4. ix \in Instructions /\ ix.kind = "submit"
    BY <2>1, U64Assumption DEF SubmitIx, Instructions, U64
  <2> HIDE DEF ix, t
  <2>5. /\ c \in CommandRecords
        /\ c.at = "submit_config" /\ c.cmd = "submit" /\ c.state = t /\ c.ix = ix
    <3>1. "submit_config" \in Places /\ "submit" \in CommandNames
      BY DEF Places, CommandNames
    <3>2. c \in CommandRecords
      BY <1>0, <2>2, <2>4, <3>1, ZenonT(60) DEF CommandRecords
    <3> QED
      BY <1>0, <3>2 DEF CommandRecords
  <2> HIDE DEF c
  <2>6. Shape(c) /\ Truth(c)
    BY <2>1, <2>2, <2>4, <2>5, NoneAssumption
       DEF Shape, Truth, CommandNames, ReadPlaces
  <2> QED
    BY <1>2, <2>3, <2>5, <2>6
<1>6. ASSUME NEW flag \in RequestFlags, StartFetchRequest(p, flag)
      PROVE  CInv'
  <2>1. PICK r \in RequestKeys :
            Begin(p, [Idle EXCEPT !.at = "read_request", !.cmd = "fetch", !.target = r])
    BY <1>1, <1>6 DEF StartFetchRequest, RequestFlags, DevnetStates, s
  <2> DEFINE c == [Idle EXCEPT !.at = "read_request", !.cmd = "fetch", !.target = r]
  <2>2. /\ c \in CommandRecords
        /\ c.at = "read_request" /\ c.cmd = "fetch" /\ c.target = r
    <3>1. "read_request" \in Places /\ "fetch" \in CommandNames
      BY DEF Places, CommandNames
    <3>2. c \in CommandRecords
      BY <1>0, <3>1, ZenonT(60) DEF CommandRecords
    <3> QED
      BY <1>0, <3>2 DEF CommandRecords
  <2>3. Begin(p, c)
    BY <2>1
  <2> HIDE DEF c
  <2>4. Shape(c) /\ Truth(c)
    BY <2>2, NoneAssumption DEF Shape, Truth, CommandNames, ReadPlaces
  <2> QED
    BY <1>2, <2>2, <2>3, <2>4
<1>7. ASSUME NEW flag \in RequestFlags, NEW via \in Transports, StartFinalize(p, flag, via)
      PROVE  CInv'
  <2> DEFINE r == ResolveRequestAddress(flag)
             c == [Idle EXCEPT !.at = "read_request", !.cmd = "finalize", !.via = via,
                               !.target = r, !.parsed = data.result,
                               !.cached = data.request, !.state = s]
  <2>1. r \in RequestKeys /\ data.result \in Attestations
    BY <1>1, <1>7
       DEF StartFinalize, ResolveRequestAddress, RequestFlags, DevnetStates, Bindings, s
  <2>2. Begin(p, c)
    BY <1>7 DEF StartFinalize, s
  <2> HIDE DEF r
  <2>3. /\ c \in CommandRecords
        /\ c.at = "read_request" /\ c.cmd = "finalize" /\ c.target = r
        /\ c.parsed = data.result /\ c.state = s
    <3>1. "read_request" \in Places /\ "finalize" \in CommandNames
      BY DEF Places, CommandNames
    <3>2. c \in CommandRecords
      BY <1>0, <2>1, <3>1 DEF CommandRecords
    <3> QED
      BY <1>0, <3>2 DEF CommandRecords
  <2> HIDE DEF c
  <2>4. Shape(c) /\ Truth(c)
    BY <1>1, <2>1, <2>3, NoneAssumption DEF Shape, Truth, CommandNames, ReadPlaces
  <2> QED
    BY <1>2, <2>2, <2>3, <2>4
<1> QED
  BY <1>3, <1>4, <1>5, <1>6, <1>7 DEF Start

LEMMA CheckAccountExistsStep ==
    ASSUME CInv, NEW p \in Procs, CheckAccountExists(p)
    PROVE  CInv'
<1>1. PICK d \in CommandRecords : d = proc[p] /\ Shape(d) /\ Truth(d)
  BY DEF CInv, Knows
<1>2. CASE Fail(p)
  BY <1>2, FailStep DEF CheckAccountExists
<1>3. CASE GoOn(p, [d EXCEPT !.at = "send"])
  <2> DEFINE c == [d EXCEPT !.at = "send"]
  <2>1. /\ c \in CommandRecords
        /\ c.at = "send" /\ c.cmd = d.cmd /\ c.target = d.target /\ c.via = d.via
        /\ c.state = d.state /\ c.ix = d.ix
    <3>1. "send" \in Places
      BY DEF Places
    <3> QED
      BY <3>1, MoveTo
  <2>2. proc' = [proc EXCEPT ![p] = c] /\ UNCHANGED <<result, chain, data, worker, tx>>
    BY <1>3 DEF GoOn, CheckAccountExists
  <2> HIDE DEF c
  <2>3. d.at = "exists" /\ (d.cmd = "initialize" \/ d.cmd = "create")
    <3>1. d.at = "exists" /\ d.cmd \in CommandNames \cup {None}
      BY <1>1 DEF CheckAccountExists, At, CommandRecords
    <3> QED
      BY <1>1, <3>1 DEF Shape, CommandNames, ReadPlaces
  <2>4. Shape(c) /\ Truth(c)
    BY <1>1, <2>1, <2>3
       DEF Shape, Truth, SetUpPlaces, CommandNames, ReadPlaces
  <2> QED
    BY <2>1, <2>2, <2>4, LocalStep
<1> QED
  BY <1>1, <1>2, <1>3 DEF CheckAccountExists

LEMMA ReadRequestStep ==
    ASSUME CInv, NEW p \in Procs, ReadRequest(p)
    PROVE  CInv'
<1>1. PICK d \in CommandRecords : d = proc[p] /\ Shape(d) /\ Truth(d)
  BY DEF CInv, Knows
<1>2. CASE Fail(p)
  BY <1>2, FailStep DEF ReadRequest
<1>3. CASE /\ FetchAndDecode(request[d.target])
           /\ GoOn(p, [d EXCEPT !.at = "read_config", !.req = request[d.target]])
  <2> DEFINE q == request[d.target]
             c == [d EXCEPT !.at = "read_config", !.req = q]
  <2>1. /\ d.at = "read_request"
        /\ d.cmd \in {"submit", "fetch", "finalize"}
    <3>1. d.at = "read_request" /\ d.cmd \in CommandNames \cup {None}
      BY <1>1 DEF ReadRequest, At, CommandRecords
    <3> QED
      BY <1>1, <3>1 DEF Shape, CommandNames, SetUpPlaces
  <2>2. d.target \in RequestKeys
    BY <1>1, <2>1, InstructionFields DEF Shape
  <2>3. q \in Requests /\ ReadEarlier(d.target, q)
    BY <1>3, <2>2, RequestRead
       DEF FetchAndDecode, ReadEarlier, CInv, ChainInv, IInv, Exists
  <2>4. proc' = [proc EXCEPT ![p] = c] /\ UNCHANGED <<result, chain, data, worker, tx>>
    BY <1>3 DEF GoOn, ReadRequest
  <2> HIDE DEF q
  <2>5. "read_config" \in Places
    BY DEF Places
  <2>6. /\ c \in CommandRecords
        /\ c.at = "read_config" /\ c.cmd = d.cmd /\ c.target = d.target
        /\ c.parsed = d.parsed /\ c.state = d.state /\ c.ix = d.ix /\ c.req = q
        /\ c.via = d.via
    <3>1. q \in Requests
      BY <2>3
    <3>2. c \in CommandRecords
      BY <2>5, <3>1, ZenonT(60) DEF CommandRecords
    <3> QED
      BY <3>2 DEF CommandRecords
  <2> HIDE DEF c
  <2>7. Shape(c)
    BY <1>1, <2>1, <2>3, <2>6, NoneAssumption DEF Shape, ReadPlaces, CommandNames
  <2>8. Truth(c)
    BY <1>1, <2>1, <2>3, <2>6 DEF Truth, ReadPlaces
  <2> QED
    BY <2>4, <2>6, <2>7, <2>8, LocalStep
<1> QED
  BY <1>1, <1>2, <1>3 DEF ReadRequest

LEMMA ReadConfigStep ==
    ASSUME CInv, NEW p \in Procs, ReadConfig(p)
    PROVE  CInv'
<1>1. PICK d \in CommandRecords : d = proc[p] /\ Shape(d) /\ Truth(d)
  BY DEF CInv, Knows
<1> DEFINE f == config[d.req.mint]
           c == [d EXCEPT !.at = "read_account", !.conf = f]
<1>2. /\ d.at = "read_config"
      /\ d.cmd \in {"submit", "fetch", "finalize"}
      /\ d.req \in Requests
  <2>1. d.at = "read_config" /\ d.cmd \in CommandNames \cup {None}
    BY <1>1 DEF ReadConfig, At, CommandRecords
  <2> QED
    BY <1>1, <2>1 DEF Shape, CommandNames, SetUpPlaces
<1>3. f \in Configs \cup {Absent, None}
  BY <1>2 DEF Requests, CInv, ChainInv, IInv, TypeOK
<1>4. proc' = [proc EXCEPT ![p] = c] /\ UNCHANGED <<result, chain, data, worker, tx>>
  BY <1>1 DEF GoOn, ReadConfig
<1> HIDE DEF f
<1>5. "read_account" \in Places
  BY DEF Places
<1>6. /\ c \in CommandRecords
      /\ c.at = "read_account" /\ c.cmd = d.cmd /\ c.target = d.target
      /\ c.parsed = d.parsed /\ c.state = d.state /\ c.ix = d.ix /\ c.req = d.req
      /\ c.via = d.via
  <2>1. \A x \in Configs \cup {Absent, None} :
            [d EXCEPT !.at = "read_account", !.conf = x] \in CommandRecords
    BY <1>5 DEF CommandRecords
  <2>2. c \in CommandRecords
    BY <1>3, <2>1
  <2> QED
    BY <2>2 DEF CommandRecords
<1> HIDE DEF c
<1>7. Shape(c)
  BY <1>1, <1>2, <1>6, NoneAssumption DEF Shape, ReadPlaces, CommandNames
<1>8. Truth(c)
  BY <1>1, <1>2, <1>6 DEF Truth, ReadPlaces
<1> QED
  BY <1>4, <1>6, <1>7, <1>8, LocalStep

\* What verify_request_accounts() accepts is still on chain.
LEMMA VerifiedHere ==
    ASSUME CInv, NEW d \in CommandRecords, Shape(d), Truth(d), d.at = "read_account",
           VerifyRequestAccounts(d.target, d.req, d.conf, account[d.target[1]])
    PROVE  request[d.target] = d.req
<1> DEFINE r == d.target
           q == d.req
<1>1. /\ r \in RequestKeys /\ ReadEarlier(r, q)
      /\ r[1] \in Accounts /\ account[r[1]] # Absent
  <2>1. r \in RequestKeys /\ ReadEarlier(r, q)
    BY ShapeFields DEF Truth
  <2> QED
    BY <2>1, RequestRead DEF CInv, ChainInv, IInv, RecordsAtHome, ReadEarlier, Exists
<1>2. q.status = "pending" => account[r[1]].pending_request = r
  BY DEF VerifyRequestAccounts
<1> HIDE DEF r, q
<1>3. q.status = "pending" => Pending(r)
  BY <1>1, <1>2 DEF CInv, ChainInv, IInv, LockCoherence
<1> QED
  BY <1>1, <1>3 DEF ReadEarlier, r, q

LEMMA ReadAccountStep ==
    ASSUME CInv, NEW p \in Procs, ReadAccount(p)
    PROVE  CInv'
<1>1. PICK d \in CommandRecords : d = proc[p] /\ Shape(d) /\ Truth(d)
  BY DEF CInv, Knows
<1> DEFINE acct == account[d.target[1]]
<1>2. /\ d.at = "read_account"
      /\ d.cmd \in {"submit", "fetch", "finalize"}
      /\ d.req \in Requests /\ d.target \in RequestKeys
      /\ ReadEarlier(d.target, d.req)
  <2>1. d.at = "read_account" /\ d.cmd \in CommandNames \cup {None}
    BY <1>1 DEF ReadAccount, At, CommandRecords
  <2>2. d.cmd \in {"submit", "fetch", "finalize"} /\ d.req \in Requests
    BY <1>1, <2>1 DEF Shape, CommandNames, SetUpPlaces
  <2> QED
    BY <1>1, <2>1, <2>2, ShapeFields DEF Truth
<1>3. UNCHANGED <<chain, data, worker, tx>>
  BY DEF ReadAccount
<1>4. CASE ~VerifyRequestAccounts(d.target, d.req, d.conf, acct)
  <2>1. FailOn(p, "verification failed", None)
    BY <1>1, <1>4 DEF ReadAccount
  <2> QED
    BY <1>3, <2>1, FailStep
<1>5. CASE /\ VerifyRequestAccounts(d.target, d.req, d.conf, acct)
           /\ d.cmd # "finalize" /\ GoOn(p, [d EXCEPT !.at = "write"])
  <2> DEFINE c == [d EXCEPT !.at = "write"]
  <2>1. /\ c \in CommandRecords
        /\ c.at = "write" /\ c.cmd = d.cmd /\ c.target = d.target /\ c.via = d.via
        /\ c.parsed = d.parsed /\ c.state = d.state /\ c.ix = d.ix /\ c.req = d.req
    <3>1. "write" \in Places
      BY DEF Places
    <3> QED
      BY <3>1, MoveTo
  <2>2. proc' = [proc EXCEPT ![p] = c] /\ UNCHANGED result
    BY <1>5 DEF GoOn
  <2> HIDE DEF c
  <2>3. Shape(c)
    BY <1>1, <1>2, <1>5, <2>1, NoneAssumption DEF Shape, ReadPlaces, CommandNames
  <2>4. Truth(c)
    BY <1>1, <1>2, <1>5, <2>1 DEF Truth, ReadPlaces
  <2> QED
    BY <1>3, <2>1, <2>2, <2>3, <2>4, LocalStep
<1>6. CASE d.cmd = "finalize" /\ Prepare(p, acct)
  <2>1. CASE Fail(p)
    BY <1>3, <2>1, FailStep
  <2>2. CASE ~Fail(p)
    <3> DEFINE place == IF d.via = "direct" THEN "send" ELSE "validate"
               ix == FinalizeIx(d.req.mint, d.target, d.parsed)
               prior == acct.state_version
               c == [d EXCEPT !.at = place, !.req = None, !.conf = None, !.ix = ix,
                              !.prior = prior]
    <3>1. proc' = [proc EXCEPT ![p] = c] /\ UNCHANGED result
      BY <1>1, <2>2, <1>6 DEF Prepare, GoOn
    <3>2. place \in Places /\ place \in {"send", "validate"}
      BY DEF Places
    <3>3. ix \in Instructions
      BY <1>1, <1>2, <1>6 DEF FinalizeIx, Instructions, Requests, Shape
    <3>4. prior \in U64
      <4>1. acct \in ConfidentialAccounts
        BY <1>2, RequestRead, AccountRead
           DEF CInv, ChainInv, IInv, RecordsAtHome, ReadEarlier, Exists
      <4> HIDE DEF acct
      <4> QED
        BY <4>1 DEF ConfidentialAccounts
    <3> HIDE DEF place, ix, prior
    <3>5. c \in CommandRecords
      BY <3>2, <3>3, <3>4, ZenonT(60) DEF CommandRecords
    <3>6. /\ c.at = place /\ c.cmd = d.cmd /\ c.target = d.target
          /\ c.parsed = d.parsed /\ c.state = d.state /\ c.ix = ix
      BY <3>5 DEF CommandRecords
    <3> HIDE DEF c
    <3>7. Shape(c)
      BY <1>1, <1>6, <3>2, <3>3, <3>6, NoneAssumption DEF Shape, CommandNames
    <3>8. Truth(c)
      BY <1>1, <1>6, <3>2, <3>6 DEF Truth, CommandNames, ReadPlaces
    <3> QED
      BY <1>3, <3>1, <3>5, <3>7, <3>8, LocalStep
  <2> QED
    BY <2>1, <2>2
<1>7. CASE /\ VerifyRequestAccounts(d.target, d.req, d.conf, acct)
           /\ d.cmd = "finalize" /\ CheckFinalized(p, acct)
  <2>1. CASE Fail(p) \/ FailOn(p, "still has pending_request", acct.pending_request)
    BY <1>3, <2>1, FailStep
  <2>2. CASE /\ ResultOnChain(d.req, d.parsed)
             /\ GoOn(p, [d EXCEPT !.at = "save", !.req = None, !.conf = None])
    <3> DEFINE c == [d EXCEPT !.at = "save", !.req = None, !.conf = None]
    <3>1. proc' = [proc EXCEPT ![p] = c] /\ UNCHANGED result
      BY <2>2 DEF GoOn
    <3>2. "save" \in Places
      BY DEF Places
    <3>3. c \in CommandRecords
      BY <3>2, ZenonT(60) DEF CommandRecords
    <3>4. /\ c.at = "save" /\ c.cmd = d.cmd /\ c.target = d.target
          /\ c.parsed = d.parsed /\ c.state = d.state
      BY <3>3 DEF CommandRecords
    <3> HIDE DEF c
    <3>5. Shape(c)
      BY <1>1, <1>7, <3>4, NoneAssumption DEF Shape, CommandNames
    <3>6. FinalizedWith(d.target, d.parsed)
      <4>1. request[d.target] = d.req
        BY <1>1, <1>2, <1>7, VerifiedHere
      <4> QED
        BY <1>2, <2>2, <4>1
           DEF ResultOnChain, FinalizedWith, Finalized, HasStatus, ReadEarlier
    <3>7. Truth(c)
      BY <1>1, <1>7, <3>4, <3>6 DEF Truth, CommandNames, ReadPlaces
    <3> QED
      BY <1>3, <3>1, <3>3, <3>5, <3>7, LocalStep
  <2> QED
    BY <1>1, <1>7, <2>1, <2>2 DEF CheckFinalized
<1> QED
  BY <1>1, <1>4, <1>5, <1>6, <1>7 DEF ReadAccount

LEMMA ReadSubmitConfigStep ==
    ASSUME CInv, NEW p \in Procs, ReadSubmitConfig(p)
    PROVE  CInv'
<1>1. PICK d \in CommandRecords : d = proc[p] /\ Shape(d) /\ Truth(d)
  BY DEF CInv, Knows
<1>2. CASE Fail(p)
  BY <1>2, FailStep DEF ReadSubmitConfig
<1>3. CASE GoOn(p, [d EXCEPT !.at = "submit_account", !.conf = config[d.ix.mint]])
  <2> DEFINE f == config[d.ix.mint]
             c == [d EXCEPT !.at = "submit_account", !.conf = f]
  <2>1. d.at = "submit_config" /\ d.cmd = "submit"
    <3>1. d.at = "submit_config" /\ d.cmd \in CommandNames \cup {None}
      BY <1>1 DEF ReadSubmitConfig, At, CommandRecords
    <3> QED
      BY <1>1, <3>1 DEF Shape, CommandNames, SetUpPlaces, ReadPlaces
  <2>2. f \in Configs \cup {Absent, None}
    BY <1>1, <2>1, InstructionFields DEF Shape, CInv, ChainInv, IInv, TypeOK
  <2>3. proc' = [proc EXCEPT ![p] = c] /\ UNCHANGED <<result, chain, data, worker, tx>>
    BY <1>3 DEF GoOn, ReadSubmitConfig
  <2> HIDE DEF f
  <2>4. "submit_account" \in Places
    BY DEF Places
  <2>5. \A x \in Configs \cup {Absent, None} :
            [d EXCEPT !.at = "submit_account", !.conf = x] \in CommandRecords
    BY <2>4 DEF CommandRecords
  <2>6. c \in CommandRecords
    BY <2>2, <2>5
  <2>7. /\ c.at = "submit_account" /\ c.cmd = d.cmd /\ c.target = d.target
        /\ c.state = d.state /\ c.ix = d.ix
    BY <2>6 DEF CommandRecords
  <2> HIDE DEF c
  <2>8. Shape(c) /\ Truth(c)
    BY <1>1, <2>1, <2>7, NoneAssumption DEF Shape, Truth, ReadPlaces, CommandNames
  <2> QED
    BY <2>3, <2>6, <2>8, LocalStep
<1> QED
  BY <1>1, <1>2, <1>3 DEF ReadSubmitConfig

LEMMA ReadSubmitAccountStep ==
    ASSUME CInv, NEW p \in Procs, ReadSubmitAccount(p)
    PROVE  CInv'
<1>1. PICK d \in CommandRecords : d = proc[p] /\ Shape(d) /\ Truth(d)
  BY DEF CInv, Knows
<1>2. CASE Fail(p)
  BY <1>2, FailStep DEF ReadSubmitAccount
<1> DEFINE a == d.state.account
           acct == account[a]
           n == acct.request_nonce + 1
           ix == [d.ix EXCEPT !.version = acct.state_version, !.nonce = n]
           r == <<a, n>>
           c == [d EXCEPT !.at = "send", !.via = "direct", !.conf = None, !.target = r,
                          !.ix = ix]
<1>3. CASE /\ FetchAndDecode(acct) /\ FitsU64(n)
           /\ acct.owner = d.ix.owner /\ acct.mint = d.ix.mint
           /\ GoOn(p, [d EXCEPT
                  !.at = "send", !.via = "direct", !.conf = None, !.target = r,
                  !.ix.version = acct.state_version, !.ix.nonce = n])
  <2>1. d.at = "submit_account" /\ d.cmd = "submit"
    <3>1. d.at = "submit_account" /\ d.cmd \in CommandNames \cup {None}
      BY <1>1 DEF ReadSubmitAccount, At, CommandRecords
    <3> QED
      BY <1>1, <3>1 DEF Shape, CommandNames, SetUpPlaces, ReadPlaces
  <2>2. a \in Accounts /\ acct # Absent /\ d.ix \in Instructions /\ d.ix.kind = "submit"
    BY <1>1, <1>3, <2>1 DEF Shape, FetchAndDecode
  <2>3. acct \in ConfidentialAccounts /\ a = <<d.ix.mint, d.ix.owner>>
    BY <1>3, <2>2, AccountRead DEF CInv, ChainInv, IInv, RecordsAtHome
  <2>4. acct.state_version \in U64 /\ n \in U64
    <3>1. acct.state_version \in U64 /\ acct.request_nonce \in U64
      BY <2>3 DEF ConfidentialAccounts
    <3> HIDE DEF acct
    <3> QED
      BY <1>3, <3>1, U64Assumption DEF FitsU64, U64
  <2>5. proc' = [proc EXCEPT ![p] = c]
    <3>1. proc' = [proc EXCEPT ![p] = [d EXCEPT
                  !.at = "send", !.via = "direct", !.conf = None, !.target = r,
                  !.ix.version = acct.state_version, !.ix.nonce = n]]
      BY <1>3 DEF GoOn
    <3> HIDE DEF a, acct, n, r
    <3>2. [d EXCEPT
                  !.at = "send", !.via = "direct", !.conf = None, !.target = r,
                  !.ix.version = acct.state_version, !.ix.nonce = n] = c
      BY DEF CommandRecords
    <3> QED
      BY <3>1, <3>2
  <2>6. UNCHANGED <<result, chain, data, worker, tx>>
    BY <1>3 DEF GoOn, ReadSubmitAccount
  <2>7. r \in RequestKeys
    BY <2>2, <2>4 DEF RequestKeys
  <2> HIDE DEF a, acct, n
  <2>8. /\ ix \in Instructions /\ ix.kind = "submit" /\ ix.mint = d.ix.mint
        /\ ix.owner = d.ix.owner /\ ix.nonce = n
    BY <2>2, <2>4 DEF Instructions
  <2>9. r = SubmittedAt(ix)
    BY <2>3, <2>8 DEF SubmittedAt
  <2> HIDE DEF ix, r
  <2>10. "send" \in Places /\ "direct" \in Transports \cup {"direct", None}
    BY DEF Places
  <2>11. \A x \in Instructions, t \in RequestKeys :
             [d EXCEPT !.at = "send", !.via = "direct", !.conf = None, !.target = t,
                       !.ix = x] \in CommandRecords
    BY <2>10 DEF CommandRecords
  <2>12. ix \in Instructions
    BY <2>8
  <2>13. c \in CommandRecords
    BY <2>7, <2>11, <2>12
  <2>14. /\ c.at = "send" /\ c.cmd = d.cmd /\ c.target = r /\ c.via = "direct"
         /\ c.state = d.state /\ c.ix = ix
    BY <2>13 DEF CommandRecords
  <2> HIDE DEF c
  <2>15. Shape(c)
    BY <1>1, <2>1, <2>8, <2>9, <2>14, NoneAssumption DEF Shape, CommandNames
  <2>16. Truth(c)
    BY <1>1, <2>1, <2>14 DEF Truth, ReadPlaces, CommandNames
  <2> QED
    BY <2>5, <2>6, <2>13, <2>15, <2>16, LocalStep
<1> QED
  BY <1>1, <1>2, <1>3 DEF ReadSubmitAccount

LEMMA ValidateRelayerStep ==
    ASSUME CInv, NEW p \in Procs, ValidateRelayer(p)
    PROVE  CInv'
<1>1. PICK d \in CommandRecords : d = proc[p] /\ Shape(d) /\ Truth(d)
  BY DEF CInv, Knows
<1>2. CASE Fail(p)
  BY <1>2, FailStep DEF ValidateRelayer
<1>3. CASE GoOn(p, [d EXCEPT !.at = "send"])
  <2> DEFINE c == [d EXCEPT !.at = "send"]
  <2>1. /\ c \in CommandRecords
        /\ c.at = "send" /\ c.cmd = d.cmd /\ c.target = d.target /\ c.via = d.via
        /\ c.parsed = d.parsed /\ c.state = d.state /\ c.ix = d.ix
    <3>1. "send" \in Places
      BY DEF Places
    <3> QED
      BY <3>1, MoveTo
  <2>2. proc' = [proc EXCEPT ![p] = c] /\ UNCHANGED <<result, chain, data, worker, tx>>
    BY <1>3 DEF GoOn, ValidateRelayer
  <2> HIDE DEF c
  <2>3. d.at = "validate" /\ d.cmd = "finalize"
    <3>1. d.at = "validate" /\ d.cmd \in CommandNames \cup {None}
      BY <1>1 DEF ValidateRelayer, At, CommandRecords
    <3> QED
      BY <1>1, <3>1 DEF Shape, CommandNames, ReadPlaces, SetUpPlaces
  <2>4. Shape(c)
    BY <1>1, <2>1, <2>3, NoneAssumption DEF Shape, CommandNames
  <2>5. Truth(c)
    BY <1>1, <2>1, <2>3 DEF Truth, CommandNames, ReadPlaces
  <2> QED
    BY <2>1, <2>2, <2>4, <2>5, LocalStep
<1> QED
  BY <1>1, <1>2, <1>3 DEF ValidateRelayer

-----------------------------------------------------------------------------
LEMMA SendStep ==
    ASSUME CInv, NEW p \in Procs, Send(p)
    PROVE  CInv'
<1>1. PICK d \in CommandRecords : d = proc[p] /\ Shape(d) /\ Truth(d)
  BY DEF CInv, Knows
<1>2. CASE PreflightFails(p)
  <2>1. Fail(p) /\ UNCHANGED <<chain, data, worker, tx>>
    BY <1>2 DEF Send
  <2> QED
    BY <2>1, FailStep
<1>3. CASE ~PreflightFails(p)
  <2>1. PICK k \in 1 .. MaxSends : k = NextTicket /\ tx[k] = Unsent
    BY DEF Send, NextTicket, Unused
  <2> DEFINE sent == [state |-> "flight", ix |-> d.ix]
             c == [d EXCEPT !.at = "confirm", !.ticket = k, !.left = MaxPolls]
  <2>2. /\ tx' = [tx EXCEPT ![k] = sent]
        /\ proc' = [proc EXCEPT ![p] = c]
        /\ UNCHANGED <<chain, data, worker, result>>
    BY <1>1, <1>3, <2>1 DEF Send, GoOn, DataWhenSending
  <2>3. d.at = "send" /\ d.cmd \in CommandNames \ {"fetch"} /\ d.ix \in Instructions
    <3>1. d.at = "send" /\ d.cmd \in CommandNames \cup {None}
      BY <1>1 DEF Send, At, CommandRecords
    <3> QED
      BY <1>1, <3>1 DEF Shape, CommandNames, ReadPlaces, SetUpPlaces
  <2>4. "confirm" \in Places /\ MaxPolls \in 0 .. MaxPolls
    BY BoundsAssumption DEF Places
  <2>5. c \in CommandRecords
    <3>1. \A n \in 1 .. MaxSends :
              [d EXCEPT !.at = "confirm", !.ticket = n, !.left = MaxPolls]
                  \in CommandRecords
      BY <2>4 DEF CommandRecords
    <3> QED
      BY <3>1
  <2>6. /\ c.at = "confirm" /\ c.cmd = d.cmd /\ c.target = d.target /\ c.via = d.via
        /\ c.parsed = d.parsed /\ c.state = d.state /\ c.ix = d.ix /\ c.ticket = k
    BY <2>5 DEF CommandRecords
  <2> HIDE DEF c
  <2>7. Shape(c)
    BY <1>1, <2>1, <2>3, <2>6, NoneAssumption DEF Shape, CommandNames, SetUpPlaces
  <2>8. ChainInv' /\ Kept
    BY <2>2, ChainInvStep DEF CInv, chain
  <2>9. /\ tx \in [1 .. MaxSends -> Transactions]
        /\ \A n \in 1 .. MaxSends : InFlight(n) <=> tx[n].ix # None
        /\ sent \in Transactions /\ sent.state = "flight" /\ sent.ix = d.ix
        /\ d.ix # None
    BY <2>3, NoneAssumption DEF CInv, ClientTypes, Transactions
  <2> HIDE DEF sent
  <2>10. /\ tx' \in [1 .. MaxSends -> Transactions]
         /\ \A n \in 1 .. MaxSends : InFlight(n)' <=> tx'[n].ix # None
    BY <2>2, <2>1, <2>9 DEF InFlight
  <2>11. TxKept
    BY <2>2, <2>1, <2>9 DEF TxKept, Unsent
  <2>12. FilesGenuine'
    BY <2>2, <2>8, FilesKept
  <2>13. Truth(c)'
    <3>1. StateGenuine(d.state)'
      BY <1>1, <2>3, <2>8, ShapeFields, StateKept DEF Truth
    <3>2. tx'[k] = sent
      BY <2>2, <2>9
    <3>3. TicketKnown(k, d.ix)'
      BY <2>9, <3>2 DEF TicketKnown
    <3> QED
      BY <2>3, <2>6, <3>1, <3>3 DEF Truth, ReadPlaces
  <2>14. Reports(p)'
    BY <2>2, <2>8, ReportsKept DEF CInv
  <2>15. /\ data' \in [ request : Bindings \cup {None}, result : Attestations \cup {None},
                          state : DevnetStates ]
         /\ worker' \in Bindings \cup {None}
         /\ DOMAIN result' = Procs
         /\ \A q \in Procs \ {p} : result'[q] = result[q]
    BY <2>2 DEF CInv, ClientTypes
  <2>16. proc' = [proc EXCEPT ![p] = c]
    BY <2>2
  <2> QED
    BY <2>5, <2>7, <2>8, <2>10, <2>11, <2>12, <2>13, <2>14, <2>15, <2>16, ProcessStep
<1> QED
  BY <1>2, <1>3

LEMMA DeliveredStep ==
    ASSUME CInv, UNCHANGED <<chain, data, worker, tx>>, NEW p \in Procs, At(p, "confirm"),
           NEW d \in CommandRecords, d = proc[p], Shape(d), Truth(d),
           d.cmd \in {"initialize", "create", "submit"} => Effect(d.ix),
           Delivered(p)
    PROVE  CInv'
<1> DEFINE place == IF ReadsAgain(d.cmd) THEN "read_request" ELSE "save"
           c == [d EXCEPT !.at = place, !.left = 0]
<1>1. d.at = "confirm" /\ d.cmd \in CommandNames \ {"fetch"}
  <2>1. d.at = "confirm" /\ d.cmd \in CommandNames \cup {None}
    BY DEF At, CommandRecords
  <2> QED
    BY <2>1 DEF Shape, CommandNames, ReadPlaces
<1>2. /\ place \in Places
      /\ d.cmd \in {"initialize", "create"} => place = "save"
      /\ d.cmd \in {"submit", "finalize"} => place = "read_request"
      /\ 0 \in 0 .. MaxPolls
  BY BoundsAssumption DEF Places, ReadsAgain
<1>3. proc' = [proc EXCEPT ![p] = c] /\ UNCHANGED result
  BY DEF Delivered, GoOn
<1> HIDE DEF place
<1>4. c \in CommandRecords
  <2>1. place \in Places /\ 0 \in 0 .. MaxPolls
    BY <1>2
  <2>2. \A x \in Places : [d EXCEPT !.at = x, !.left = 0] \in CommandRecords
    BY <2>1 DEF CommandRecords
  <2> QED
    BY <2>1, <2>2
<1>5. /\ c.at = place /\ c.cmd = d.cmd /\ c.target = d.target /\ c.via = d.via
      /\ c.parsed = d.parsed /\ c.state = d.state /\ c.ix = d.ix
  BY <1>4 DEF CommandRecords
<1> HIDE DEF c
<1>6. Shape(c)
  BY <1>1, <1>2, <1>5, NoneAssumption DEF Shape, CommandNames, SetUpPlaces, ReadPlaces
<1>7. Truth(c)
  BY <1>1, <1>2, <1>5 DEF Truth, CommandNames, ReadPlaces
<1> QED
  BY <1>3, <1>4, <1>6, <1>7, LocalStep

LEMMA PollAgainStep ==
    ASSUME CInv, UNCHANGED <<chain, data, worker, tx>>, NEW p \in Procs, PollAgain(p)
    PROVE  CInv'
<1>1. PICK d \in CommandRecords : d = proc[p] /\ Shape(d) /\ Truth(d)
  BY DEF CInv, Knows
<1>2. CASE Fail(p)
  BY <1>2, FailStep
<1>3. CASE GoOn(p, [d EXCEPT !.left = IF @ = 0 THEN 0 ELSE @ - 1])
  <2> DEFINE left == IF d.left = 0 THEN 0 ELSE d.left - 1
             c == [d EXCEPT !.left = left]
  <2>1. d.left \in 0 .. MaxPolls
    BY DEF CommandRecords
  <2>2. left \in 0 .. MaxPolls
    BY <2>1, BoundsAssumption
  <2>3. proc' = [proc EXCEPT ![p] = c] /\ UNCHANGED result
    BY <1>3 DEF GoOn
  <2> HIDE DEF left
  <2>4. c \in CommandRecords
    BY <2>2 DEF CommandRecords
  <2>5. /\ c.at = d.at /\ c.cmd = d.cmd /\ c.target = d.target /\ c.via = d.via
        /\ c.parsed = d.parsed /\ c.state = d.state /\ c.ix = d.ix /\ c.req = d.req
        /\ c.ticket = d.ticket
    BY <2>4 DEF CommandRecords
  <2> HIDE DEF c
  <2>6. Shape(c) /\ Truth(c)
    BY <1>1, <2>5 DEF Shape, Truth
  <2> QED
    BY <2>3, <2>4, <2>6, LocalStep
<1> QED
  BY <1>1, <1>2, <1>3 DEF PollAgain

LEMMA ConfirmDirectStep ==
    ASSUME CInv, NEW p \in Procs, ConfirmDirect(p)
    PROVE  CInv'
<1>1. PICK d \in CommandRecords : d = proc[p] /\ Shape(d) /\ Truth(d)
  BY DEF CInv, Knows
<1>2. UNCHANGED <<chain, data, worker, tx>> /\ At(p, "confirm")
  BY DEF ConfirmDirect
<1>3. CASE tx[d.ticket].state = "ok" /\ Delivered(p)
  <2>1. Effect(d.ix)
    BY <1>1, <1>2, <1>3 DEF At, Truth, TicketKnown
  <2> QED
    BY <1>1, <1>2, <1>3, <2>1, DeliveredStep
<1>4. CASE Fail(p)
  BY <1>2, <1>4, FailStep
<1>5. CASE PollAgain(p)
  BY <1>2, <1>5, PollAgainStep
<1> QED
  BY <1>1, <1>3, <1>4, <1>5 DEF ConfirmDirect, LandedWell

LEMMA PollRelayerStep ==
    ASSUME CInv, NEW p \in Procs, NEW reply \in RelayerReplies, PollRelayer(p, reply)
    PROVE  CInv'
<1>1. PICK d \in CommandRecords : d = proc[p] /\ Shape(d) /\ Truth(d)
  BY DEF CInv, Knows
<1>2. /\ UNCHANGED <<chain, data, worker, tx>> /\ At(p, "confirm")
      /\ d.at = "confirm" /\ d.via = "openzeppelin"
  BY <1>1 DEF PollRelayer, At
<1>3. d.cmd \notin {"initialize", "create", "submit"}
  BY <1>1, <1>2 DEF Shape
<1>4. CASE Delivered(p)
  BY <1>1, <1>2, <1>3, <1>4, DeliveredStep
<1>5. CASE Fail(p)
  BY <1>2, <1>5, FailStep
<1>6. CASE PollAgain(p)
  BY <1>2, <1>6, PollAgainStep
<1> QED
  BY <1>4, <1>5, <1>6 DEF PollRelayer

\* A command writes a file, and goes on or ends well.
LEMMA FileStep ==
    ASSUME CInv, UNCHANGED <<chain, worker, tx>>,
           NEW p \in Procs, NEW c \in CommandRecords,
           proc' = [proc EXCEPT ![p] = c], Shape(c), Truth(c),
           NEW r, Reported(r), result' = [result EXCEPT ![p] = r] \/ UNCHANGED result,
           NEW f \in [ request : Bindings \cup {None}, result : Attestations \cup {None},
                       state : DevnetStates ],
           data' = f, f.result = data.result,
           StateGenuine(f.state),
           f.request # None => Known(f.request)
    PROVE  CInv'
<1>1. ChainInv' /\ Kept
  BY ChainInvStep DEF CInv, chain
<1>2. TxKept
  BY DEF TxKept
<1>3. Truth(c)'
  BY <1>1, <1>2, TruthKept
<1>4. /\ UNCHANGED <<config, account, request, signed>>
  BY DEF chain, vars
<1>5. FilesGenuine'
  <2>1. StateGenuine(f.state)' /\ (f.request # None => Known(f.request)')
    BY <1>4 DEF StateGenuine, Known, Genuine, Exists
  <2>2. StateGenuine(data.state)' /\ (data'.request # None => Known(data.request)')
    BY <2>1 DEF StateGenuine, Known, Genuine, Exists
  <2>3. /\ data'.result = data.result
        /\ data'.result # None =>
               data'.result \in signed' /\ Known(data.result.message.request)'
    BY <1>4 DEF CInv, FilesGenuine, Known, Genuine, Exists
  <2>4. worker # None => Known(worker)'
    BY <1>4 DEF CInv, FilesGenuine, Known, Genuine, Exists
  <2> QED
    BY <2>2, <2>3, <2>4 DEF FilesGenuine
<1>6. DOMAIN result' = Procs /\ \A q \in Procs \ {p} : result'[q] = result[q]
  BY DEF CInv, ClientTypes
<1>7. Reports(p)'
  <2>1. CASE UNCHANGED result
    BY <1>1, <2>1, ReportsKept DEF CInv
  <2>2. CASE result' = [result EXCEPT ![p] = r]
    <3>1. Reported(r)'
      BY <1>1, ReportKept
    <3> QED
      BY <2>2, <3>1 DEF Reports, CInv, ClientTypes
  <2> QED
    BY <2>1, <2>2
<1>8. /\ worker' \in Bindings \cup {None}
      /\ tx' \in [1 .. MaxSends -> Transactions]
      /\ \A n \in 1 .. MaxSends : InFlight(n)' <=> tx'[n].ix # None
  BY DEF CInv, ClientTypes, InFlight
<1> QED
  BY <1>1, <1>2, <1>3, <1>5, <1>6, <1>7, <1>8, ProcessStep

LEMMA WriteRequestFileStep ==
    ASSUME CInv, NEW p \in Procs, WriteRequestFile(p)
    PROVE  CInv'
<1>1. PICK d \in CommandRecords : d = proc[p] /\ Shape(d) /\ Truth(d)
  BY DEF CInv, Knows
<1> DEFINE b == RequestBinding(d.target, d.req)
           f == [data EXCEPT !.request = b]
<1>2. d.at = "write" /\ d.cmd \in {"submit", "fetch"}
  <2>1. d.at = "write" /\ d.cmd \in CommandNames \cup {None}
    BY <1>1 DEF WriteRequestFile, At, CommandRecords
  <2> QED
    BY <1>1, <2>1 DEF Shape, CommandNames, SetUpPlaces, ReadPlaces
<1>3. /\ d.target \in RequestKeys /\ d.req \in Requests
      /\ ReadEarlier(d.target, d.req)
  BY <1>1, <1>2, ShapeFields DEF Shape, Truth
<1>4. b \in Bindings /\ Known(b)
  <2>1. b = RequestBinding(d.target, request[d.target]) /\ b.request_pda = d.target
    BY <1>3 DEF ReadEarlier, RequestBinding
  <2>2. request[d.target] \in Requests
    BY <1>3, RequestRead DEF CInv, ChainInv, IInv, TypeOK, ReadEarlier, Exists
  <2>3. b \in Bindings
    BY <1>3, BindingType
  <2> QED
    BY <1>3, <2>1, <2>3 DEF Known, Genuine, ReadEarlier
<1>5. /\ data' = f /\ UNCHANGED <<chain, worker, tx>>
      /\ \/ d.cmd = "submit" /\ GoOn(p, [d EXCEPT !.at = "save"])
         \/ d.cmd = "fetch" /\ Succeed(p, d.target, None)
  BY <1>1, <1>2 DEF WriteRequestFile, Reconstructed
<1> HIDE DEF b
<1>6. /\ f \in [ request : Bindings \cup {None}, result : Attestations \cup {None},
                 state : DevnetStates ]
      /\ f.request = b /\ f.state = data.state /\ f.result = data.result
  BY <1>4 DEF CInv, ClientTypes
<1> HIDE DEF f
<1>7. StateGenuine(f.state) /\ (f.request # None => Known(f.request))
  BY <1>4, <1>6 DEF CInv, FilesGenuine
<1>8. CASE d.cmd = "submit" /\ GoOn(p, [d EXCEPT !.at = "save"])
  <2> DEFINE c == [d EXCEPT !.at = "save"]
  <2>1. /\ c \in CommandRecords
        /\ c.at = "save" /\ c.cmd = d.cmd /\ c.target = d.target /\ c.via = d.via
        /\ c.state = d.state /\ c.ix = d.ix
    <3>1. "save" \in Places
      BY DEF Places
    <3> QED
      BY <3>1, MoveTo
  <2>2. proc' = [proc EXCEPT ![p] = c] /\ UNCHANGED result
    BY <1>8 DEF GoOn
  <2> HIDE DEF c
  <2>3. Shape(c) /\ Truth(c)
    BY <1>1, <1>2, <1>8, <2>1, NoneAssumption
       DEF Shape, Truth, ReadPlaces, CommandNames
  <2>4. Reported(NoResult)
    BY DEF Reported, NoResult
  <2> QED
    BY <1>5, <1>6, <1>7, <2>1, <2>2, <2>3, <2>4, FileStep
<1>9. CASE d.cmd = "fetch" /\ Succeed(p, d.target, None)
  <2> DEFINE r == [cmd |-> d.cmd, res |-> "ok", request |-> d.target, value |-> None]
  <2>1. proc' = [proc EXCEPT ![p] = Idle] /\ result' = [result EXCEPT ![p] = r]
    BY <1>1, <1>9 DEF Succeed, End
  <2>2. Reported(r)
    BY <1>9 DEF Reported
  <2> HIDE DEF r
  <2> QED
    BY <1>5, <1>6, <1>7, <2>1, <2>2, IdleFits, FileStep
<1> QED
  BY <1>5, <1>8, <1>9

LEMMA SaveStateStep ==
    ASSUME CInv, NEW p \in Procs, SaveState(p)
    PROVE  CInv'
<1>1. PICK d \in CommandRecords : d = proc[p] /\ Shape(d) /\ Truth(d)
  BY DEF CInv, Knows
<1> DEFINE s == SavedState(d)
           f == [data EXCEPT !.state = s]
           r == [cmd |-> d.cmd, res |-> "ok", request |-> d.target, value |-> Vouched(d)]
<1>2. d.at = "save" /\ d.cmd \in CommandNames \ {"fetch"} /\ d.state \in DevnetStates
  <2>1. d.at = "save" /\ d.cmd \in CommandNames \cup {None}
    BY <1>1 DEF SaveState, At, CommandRecords
  <2> QED
    BY <1>1, <2>1, ShapeFields DEF Shape, CommandNames, ReadPlaces
<1>3. /\ data' = f /\ UNCHANGED <<chain, worker, tx>>
      /\ proc' = [proc EXCEPT ![p] = Idle] /\ result' = [result EXCEPT ![p] = r]
  BY <1>1 DEF SaveState, Succeed, End
<1>4. s \in DevnetStates /\ StateGenuine(s) /\ Reported(r)
  <2>1. StateGenuine(d.state)
    BY <1>1, <1>2 DEF Truth
  <2>2. CASE d.cmd = "initialize"
    <3>1. d.ix \in Instructions /\ d.ix.kind = "initialize" /\ d.target = d.ix.mint
      BY <1>1, <2>2 DEF Shape
    <3>2. Effect(d.ix) /\ d.target \in Mints
      BY <1>1, <1>2, <2>2, <3>1, InstructionFields DEF Truth
    <3>3. s = [d.state EXCEPT !.mint = d.target] /\ r.value = d.ix
      BY <2>2 DEF SavedState, Vouched
    <3>4. s \in DevnetStates /\ StateGenuine(s)
      BY <1>2, <2>1, <3>1, <3>2, <3>3 DEF DevnetStates, StateGenuine, Effect
    <3>5. Reported(r)
      BY <2>2, <3>1, <3>2, <3>3 DEF Reported, Effect
    <3> QED
      BY <3>4, <3>5
  <2>3. CASE d.cmd = "create"
    <3>1. /\ d.ix \in Instructions /\ d.ix.kind = "create"
          /\ d.target = <<d.ix.mint, d.ix.owner>>
      BY <1>1, <2>3 DEF Shape
    <3>2. Effect(d.ix) /\ d.target \in Accounts
      BY <1>1, <1>2, <2>3, <3>1, InstructionFields DEF Truth
    <3>3. s = [d.state EXCEPT !.account = d.target] /\ r.value = d.ix
      BY <2>3 DEF SavedState, Vouched
    <3>4. s \in DevnetStates /\ StateGenuine(s)
      BY <1>2, <2>1, <3>1, <3>2, <3>3 DEF DevnetStates, StateGenuine, Effect
    <3>5. Reported(r)
      BY <2>3, <3>1, <3>2, <3>3 DEF Reported, Effect
    <3> QED
      BY <3>4, <3>5
  <2>4. CASE d.cmd = "submit"
    <3>1. /\ d.ix \in Instructions /\ d.ix.kind = "submit"
          /\ d.target = SubmittedAt(d.ix)
      BY <1>1, <1>2, <2>4 DEF Shape
    <3>2. Effect(d.ix) /\ d.target \in RequestKeys
      BY <1>1, <1>2, <2>4, <3>1, InstructionFields DEF Truth
    <3>3. /\ s = [d.state EXCEPT !.latest = d.target]
          /\ r.value = d.ix.amount
      BY <2>4 DEF SavedState, Vouched
    <3>4. s \in DevnetStates /\ StateGenuine(s)
      BY <1>2, <2>1, <3>1, <3>2, <3>3 DEF DevnetStates, StateGenuine, Effect
    <3>5. Reported(r)
      BY <2>4, <3>1, <3>2, <3>3 DEF Reported, Effect
    <3> QED
      BY <3>4, <3>5
  <2>5. CASE d.cmd = "finalize"
    <3>1. d.target \in RequestKeys /\ FinalizedWith(d.target, d.parsed)
      BY <1>1, <1>2, <2>5, ShapeFields DEF Truth
    <3>2. s = d.state /\ r.value = d.parsed.message.result_hash
      BY <2>5 DEF SavedState, Vouched
    <3>3. Reported(r)
      BY <2>5, <3>1, <3>2 DEF Reported, FinalizedWith
    <3> QED
      BY <1>2, <2>1, <3>2, <3>3
  <2> QED
    BY <1>2, <2>2, <2>3, <2>4, <2>5 DEF CommandNames
<1> HIDE DEF s, r
<1>5. /\ f \in [ request : Bindings \cup {None}, result : Attestations \cup {None},
                 state : DevnetStates ]
      /\ f.request = data.request /\ f.state = s /\ f.result = data.result
  BY <1>4 DEF CInv, ClientTypes
<1> HIDE DEF f
<1>6. StateGenuine(f.state) /\ (f.request # None => Known(f.request))
  BY <1>4, <1>5 DEF CInv, FilesGenuine
<1> QED
  BY <1>3, <1>4, <1>5, <1>6, IdleFits, FileStep

LEMMA StopStep ==
    ASSUME CInv, NEW p \in Procs, Stop(p)
    PROVE  CInv'
BY FailStep DEF Stop

-----------------------------------------------------------------------------
(* The cluster, the worker, and the others.                                *)
\* The commands rest: nothing of theirs changes but what the chain is.
LEMMA RestStep ==
    ASSUME CInv, ChainInv', Kept, TxKept, FilesGenuine', UNCHANGED <<proc, result>>,
           data' \in [ request : Bindings \cup {None}, result : Attestations \cup {None},
                       state : DevnetStates ],
           worker' \in Bindings \cup {None},
           tx' \in [1 .. MaxSends -> Transactions],
           \A n \in 1 .. MaxSends : InFlight(n)' <=> tx'[n].ix # None
    PROVE  CInv'
<1>1. ClientTypes'
  BY DEF CInv, ClientTypes
<1>2. \A p \in Procs : Knows(p)' /\ Reports(p)'
  BY KnowsKept, ReportsKept DEF CInv
<1> QED
  BY <1>1, <1>2 DEF CInv

LEMMA ElsewhereKeeps ==
    ASSUME CInv, [ClientNext]_clientVars, Elsewhere \/ UNCHANGED clientVars
    PROVE  CInv'
<1>1. UNCHANGED <<proc, result, data, worker, tx>>
  BY DEF Elsewhere, clientVars
<1>2. ChainInv' /\ Kept
  BY ChainStep, ChainInvStep DEF CInv
<1>3. TxKept
  BY <1>1 DEF TxKept
<1>4. FilesGenuine'
  BY <1>1, <1>2, FilesKept
<1> QED
  BY <1>1, <1>2, <1>3, <1>4, RestStep DEF CInv, ClientTypes, InFlight

LEMMA ForgetStep ==
    ASSUME CInv, NEW n \in 1 .. MaxSends, Forget(n)
    PROVE  CInv'
<1> DEFINE gone == [state |-> "gone", ix |-> None]
<1>1. UNCHANGED <<chain, proc, result, data, worker>> /\ tx' = [tx EXCEPT ![n] = gone]
  BY DEF Forget
<1>2. gone \in Transactions /\ gone.state = "gone" /\ gone.ix = None
  BY DEF Transactions
<1> HIDE DEF gone
<1>3. ChainInv' /\ Kept
  BY <1>1, ChainInvStep DEF CInv, chain
<1>4. tx \in [1 .. MaxSends -> Transactions]
      /\ \A m \in 1 .. MaxSends : InFlight(m) <=> tx[m].ix # None
  BY DEF CInv, ClientTypes
<1>5. TxKept
  BY <1>1, <1>2, <1>4 DEF TxKept
<1>6. /\ tx' \in [1 .. MaxSends -> Transactions]
      /\ \A m \in 1 .. MaxSends : InFlight(m)' <=> tx'[m].ix # None
  BY <1>1, <1>2, <1>4 DEF InFlight
<1>7. FilesGenuine'
  BY <1>1, <1>3, FilesKept
<1> QED
  BY <1>1, <1>3, <1>5, <1>6, <1>7, RestStep DEF CInv, ClientTypes

\* What an instruction has done once it has been executed.
LEMMA InitializeDone ==
    ASSUME IInv, NEW ix \in Instructions, ix.kind = "initialize", Execute(ix)
    PROVE  Effect(ix)'
<1> DEFINE new == [ authority                  |-> ix.owner,
                    operator                   |-> ix.operator,
                    operator_epoch             |-> 1,
                    key_version                |-> InitialKeyVersion,
                    params_hash                |-> ix.params,
                    max_request_lifetime_slots |-> ix.life,
                    paused                     |-> FALSE ]
<1>1. config' = [config EXCEPT ![ix.mint] = new]
  BY DEF Execute, InitializeConfig
<1>2. ix.mint \in Mints /\ config \in [Mints -> Configs \cup {Absent}]
  BY InstructionFields DEF IInv, TypeOK
<1>3. /\ ix.owner \in Users /\ ix.operator \in Operators
      /\ ix.params \in InputHashes /\ ix.life \in U64
  BY LifetimeAssumption DEF Instructions
<1>4. new \in Configs
  BY <1>3, U64Assumption, InitialKeyVersionAssumption DEF Configs, U64
<1>5. /\ config'[ix.mint] = new /\ new # Absent
      /\ new.authority = ix.owner /\ new.params_hash = ix.params
      /\ new.max_request_lifetime_slots = ix.life
  BY <1>1, <1>2, <1>4, AbsentAssumption
<1> HIDE DEF new
<1> QED
  BY <1>5 DEF Effect

LEMMA CreateDone ==
    ASSUME IInv, NEW ix \in Instructions, ix.kind = "create", Execute(ix)
    PROVE  Effect(ix)'
<1>1. /\ ix.owner \in Users /\ ix.mint \in Mints /\ ix.hash \in InputHashes
      /\ <<ix.mint, ix.owner>> \in Accounts
  BY DEF Instructions, Accounts
<1>2. CreateAccount(ix.owner, ix.mint, ix.hash, ix.hash)
  BY DEF Execute
<1> DEFINE new == NewAccount(ix.owner, ix.mint, ix.hash, ix.hash)
<1>3. new \in ConfidentialAccounts
      /\ account' = [account EXCEPT ![<<ix.mint, ix.owner>>] = new]
  BY <1>1, <1>2, CreateAccountEffect DEF IInv
<1>4. new.balance_ref = ix.hash
  BY DEF NewAccount
<1> HIDE DEF new
<1>5. account'[<<ix.mint, ix.owner>>] = new /\ new # Absent
  BY <1>1, <1>3, AbsentAssumption DEF IInv, TypeOK
<1> QED
  BY <1>4, <1>5 DEF Effect

LEMMA SubmitDone ==
    ASSUME IInv, NEW ix \in Instructions, ix.kind = "submit", Execute(ix)
    PROVE  Effect(ix)'
<1> DEFINE a == <<ix.mint, ix.owner>>
           r == SubmittedAt(ix)
           q == SealedRequest(ix.owner, ix.mint, a, ix.nonce, ix.amount)
<1>1. /\ ix.owner \in Users /\ ix.mint \in Mints /\ ix.amount \in InputHashes
      /\ ix.version \in U64 /\ ix.nonce \in U64 /\ r \in RequestKeys
  BY DEF Instructions, Accounts, RequestKeys, SubmittedAt
<1>2. Submit(ix.owner, ix.mint, ix.amount, ix.version, ix.nonce)
  BY DEF Execute
<1>3. request' = [request EXCEPT ![r] = q]
  BY <1>2 DEF Submit, SealedRequest, SubmittedAt
<1>4. q.amount_hash = ix.amount /\ q.status = "pending"
  BY DEF SealedRequest, NewRequest
<1> HIDE DEF q
<1>5. request'[r] = q /\ TypeOK'
  BY <1>1, <1>2, <1>3, SubmitType DEF IInv, TypeOK
<1>6. q # Absent
  <2>1. config[ix.mint] \in Configs /\ account[a] \in ConfidentialAccounts
    BY <1>1, <1>2, ConfigRead, AccountRead DEF IInv, Submit, Accounts
  <2>2. q \in Requests
    BY <1>1, <1>2, <2>1, SealedRequestType DEF q, Submit, IInv, TypeOK, Accounts
  <2> QED
    BY <2>2, AbsentAssumption
<1> QED
  BY <1>4, <1>5, <1>6 DEF Effect, Exists

LEMMA LandStep ==
    ASSUME CInv, NEW n \in 1 .. MaxSends, Land(n)
    PROVE  CInv'
<1>1. /\ tx \in [1 .. MaxSends -> Transactions]
      /\ \A m \in 1 .. MaxSends : InFlight(m) <=> tx[m].ix # None
  BY DEF CInv, ClientTypes
<1>2. PICK ix \in Instructions : ix = tx[n].ix
  BY <1>1 DEF Land, Transactions
<1>3. InFlight(n) /\ UNCHANGED <<proc, result, data, worker>>
  BY DEF Land
<1>4. ASSUME NEW state \in {"ok", "err"},
             tx' = [tx EXCEPT ![n] = [state |-> state, ix |-> None]],
             [Next]_vars, state = "ok" => Effect(ix)'
      PROVE  CInv'
  <2> DEFINE landed == [state |-> state, ix |-> None]
  <2>1. landed \in Transactions /\ landed.state = state /\ landed.ix = None
    BY DEF Transactions
  <2>2. tx' = [tx EXCEPT ![n] = landed]
    BY <1>4
  <2> HIDE DEF landed
  <2>3. ChainInv' /\ Kept
    BY <1>4, ChainInvStep DEF CInv
  <2>4. TxKept
    <3> SUFFICES ASSUME NEW m \in 1 .. MaxSends
                 PROVE  \/ tx'[m] = tx[m]
                        \/ tx'[m].state \in {"err", "gone"}
                        \/ /\ tx[m].state = "flight" /\ tx'[m].state = "ok"
                           /\ \E j \in Instructions : j = tx[m].ix /\ Effect(j)'
      BY DEF TxKept
    <3>1. CASE m # n
      BY <1>1, <2>2, <3>1
    <3>2. CASE m = n
      <4>1. tx'[m].state = state /\ tx[m].state = "flight" /\ ix = tx[m].ix
        BY <1>1, <1>2, <1>3, <2>1, <2>2, <3>2 DEF InFlight
      <4> QED
        BY <1>4, <4>1
    <3> QED
      BY <3>1, <3>2
  <2>5. /\ tx' \in [1 .. MaxSends -> Transactions]
        /\ \A m \in 1 .. MaxSends : InFlight(m)' <=> tx'[m].ix # None
    BY <1>1, <2>1, <2>2 DEF InFlight
  <2>6. FilesGenuine'
    BY <1>3, <2>3, FilesKept
  <2> QED
    BY <1>3, <2>3, <2>4, <2>5, <2>6, RestStep DEF CInv, ClientTypes
<1>5. CASE Execute(ix) /\ tx' = [tx EXCEPT ![n] = [state |-> "ok", ix |-> None]]
  <2>1. Effect(ix)'
    <3>1. CASE ix.kind \in {"initialize", "create", "submit"}
      BY <1>5, <3>1, InitializeDone, CreateDone, SubmitDone DEF CInv, ChainInv
    <3>2. CASE ix.kind \notin {"initialize", "create", "submit"}
      BY <3>2 DEF Effect
    <3> QED
      BY <3>1, <3>2
  <2> QED
    BY <1>4, <1>5, <2>1, ExecuteStep
<1>6. CASE /\ UNCHANGED chain
           /\ tx' = [tx EXCEPT ![n] = [state |-> "err", ix |-> None]]
  BY <1>4, <1>6 DEF chain
<1> QED
  BY <1>2, <1>5, <1>6 DEF Land

LEMMA EvaluateQuietStep ==
    ASSUME CInv, EvaluateRead \/ EvaluateStop
    PROVE  CInv'
<1>1. UNCHANGED <<chain, proc, result, data, tx>> /\ worker' \in {data.request, None}
  BY DEF EvaluateRead, EvaluateStop
<1>2. ChainInv' /\ Kept
  BY <1>1, ChainInvStep DEF CInv, chain
<1>3. TxKept
  BY <1>1 DEF TxKept
<1>4. FilesGenuine'
  <2>1. UNCHANGED <<config, account, request, signed>>
    BY <1>1 DEF chain, vars
  <2> QED
    BY <1>1, <2>1 DEF CInv, FilesGenuine, StateGenuine, Known, Genuine, Exists
<1>5. worker' \in Bindings \cup {None}
  BY <1>1 DEF CInv, ClientTypes
<1> QED
  BY <1>1, <1>2, <1>3, <1>4, <1>5, RestStep DEF CInv, ClientTypes, InFlight

LEMMA EvaluatesKeeps ==
    ASSUME CInv, NEW op \in Operators, NEW binding \in FilesAtHand,
           NEW hash \in ResultHashes, Evaluates(op, binding, hash)
    PROVE  CInv'
<1> DEFINE att == ResultFile(op, binding, hash)
<1>1. /\ data' = [data EXCEPT !.result = att] /\ signed' = signed \cup {att}
      /\ worker' \in {worker, None}
      /\ UNCHANGED <<config, account, request, proc, result, tx>>
  BY DEF Evaluates, ProcessRequest, ResultFile
<1>2. ChainInv' /\ Kept
  <2>1. Next
    BY DEF Evaluates, Next
  <2> QED
    BY <2>1, ChainInvStep DEF CInv
<1>3. TxKept
  BY <1>1 DEF TxKept
<1>4. binding \in Bindings /\ Known(binding)
  BY AtHandKnown DEF CInv
<1>5. att \in Attestations /\ att.message.request = binding
  <2>1. SignedResult(binding, hash) \in ResultBindings
    BY <1>4, KindAssumption DEF SignedResult, ResultBindings, Digest
  <2> QED
    BY <2>1 DEF Attestations, ResultFile, SignedResult
<1> HIDE DEF att
<1>6. /\ data' \in [ request : Bindings \cup {None}, result : Attestations \cup {None},
                     state : DevnetStates ]
      /\ data'.request = data.request /\ data'.state = data.state
      /\ data'.result = att
  BY <1>1, <1>5 DEF CInv, ClientTypes
<1>7. FilesGenuine'
  BY <1>1, <1>4, <1>5, <1>6 DEF CInv, FilesGenuine, StateGenuine, Known, Genuine, Exists
<1> QED
  BY <1>1, <1>2, <1>3, <1>6, <1>7, RestStep DEF CInv, ClientTypes, InFlight

LEMMA DemoWritesRequestStep ==
    ASSUME CInv, NEW binding \in RequestFiles, DemoWritesRequest(binding)
    PROVE  CInv'
<1>1. /\ data' = [data EXCEPT !.request = binding]
      /\ UNCHANGED <<chain, proc, result, worker, tx>>
  BY DEF DemoWritesRequest
<1>2. ChainInv' /\ Kept
  BY <1>1, ChainInvStep DEF CInv, chain
<1>3. TxKept
  BY <1>1 DEF TxKept
<1>4. binding \in Bindings /\ Known(binding)
  BY RequestFilesAssumption DEF Known
<1>5. /\ data' \in [ request : Bindings \cup {None}, result : Attestations \cup {None},
                     state : DevnetStates ]
      /\ data'.request = binding /\ data'.state = data.state
      /\ data'.result = data.result
  BY <1>1, <1>4 DEF CInv, ClientTypes
<1>6. FilesGenuine'
  <2>1. UNCHANGED <<config, account, request, signed>>
    BY <1>1 DEF chain, vars
  <2> QED
    BY <1>1, <1>4, <1>5, <2>1 DEF CInv, FilesGenuine, StateGenuine, Known, Genuine, Exists
<1> QED
  BY <1>1, <1>2, <1>3, <1>5, <1>6, RestStep DEF CInv, ClientTypes, InFlight

LEMMA SetUpKeeps ==
    ASSUME CInv, SetUp
    PROVE  CInv'
<1>1. UNCHANGED <<proc, result, worker, tx>>
  BY DEF SetUp
<1>2. ChainInv' /\ Kept
  BY SetUpStep, ChainInvStep DEF CInv
<1>3. TxKept
  BY <1>1 DEF TxKept
<1>4. /\ data \in [ request : Bindings \cup {None}, result : Attestations \cup {None},
                    state : DevnetStates ]
      /\ data.state \in DevnetStates
  BY DEF CInv, ClientTypes
<1>5. PICK s \in DevnetStates : s = data.state /\ StateGenuine(s)
  BY <1>4 DEF CInv, FilesGenuine
<1>6. StateGenuine(s)'
  BY <1>2, <1>5, StateKept
<1>7. ASSUME NEW t \in DevnetStates, data' = [data EXCEPT !.state = t], StateGenuine(t)'
      PROVE  CInv'
  <2>1. /\ data' \in [ request : Bindings \cup {None}, result : Attestations \cup {None},
                       state : DevnetStates ]
        /\ data'.request = data.request /\ data'.result = data.result
        /\ data'.state = t
    BY <1>4, <1>7
  <2>2. StateGenuine(data.state)'
    BY <1>7, <2>1 DEF StateGenuine, Exists
  <2>3. data.request # None => Known(data.request)'
    <3> SUFFICES ASSUME data.request # None PROVE Known(data.request)'
      OBVIOUS
    <3>1. PICK b \in Bindings : b = data.request /\ Known(b)
      BY <1>4 DEF CInv, FilesGenuine
    <3>2. Known(b)' /\ b = data'.request
      BY <1>2, <2>1, <3>1, KnownKept
    <3> QED
      BY <3>2 DEF Known, Genuine, Exists
  <2>4. worker # None => Known(worker)'
    <3> SUFFICES ASSUME worker # None PROVE Known(worker)'
      OBVIOUS
    <3>1. PICK b \in Bindings : b = worker /\ Known(b)
      BY DEF CInv, ClientTypes, FilesGenuine
    <3>2. Known(b)' /\ b = worker'
      BY <1>1, <1>2, <3>1, KnownKept
    <3> QED
      BY <3>2 DEF Known, Genuine, Exists
  <2>5. data.result # None =>
            data.result \in signed' /\ Known(data.result.message.request)'
    <3> SUFFICES ASSUME data.result # None
                 PROVE  data.result \in signed' /\ Known(data.result.message.request)'
      OBVIOUS
    <3>1. PICK b \in Bindings : b = data.result.message.request /\ Known(b)
      BY <1>4 DEF CInv, FilesGenuine, Attestations, ResultBindings
    <3>2. Known(b)' /\ b = data'.result.message.request
      BY <1>2, <2>1, <3>1, KnownKept
    <3>3. data.result \in signed'
      BY <1>2 DEF CInv, FilesGenuine, Kept
    <3> QED
      BY <3>2, <3>3 DEF Known, Genuine, Exists
  <2>6. FilesGenuine'
    <3>1. /\ data'.request = data.request /\ data'.result = data.result
          /\ worker' = worker
      BY <1>1, <2>1
    <3> QED
      BY <2>2, <2>3, <2>4, <2>5, <3>1 DEF FilesGenuine
  <2> QED
    BY <1>1, <1>2, <1>3, <2>1, <2>6, RestStep DEF CInv, ClientTypes, InFlight
<1>8. ASSUME NEW u \in Users, NEW m \in Mints, NEW op \in Operators,
             NEW hash \in InputHashes, NEW life \in Lifetimes,
             InitializeConfig(u, m, op, InitialKeyVersion, hash, life),
             data' = [data EXCEPT !.state.mint = m]
      PROVE  CInv'
  <2> DEFINE ix == InitializeIx(u, m, op, hash, life)
             t == [s EXCEPT !.mint = m]
  <2>1. ix \in Instructions /\ ix.kind = "initialize" /\ ix.mint = m
    BY DEF InitializeIx, Instructions
  <2>2. Execute(ix)
    BY <1>8 DEF Execute, InitializeIx
  <2> HIDE DEF ix
  <2>3. config'[m] # Absent
    BY <2>1, <2>2, InitializeDone DEF Effect, CInv, ChainInv
  <2>4. t \in DevnetStates /\ StateGenuine(t)'
    BY <1>6, <2>3 DEF DevnetStates, StateGenuine
  <2>5. data' = [data EXCEPT !.state = t]
    BY <1>4, <1>5, <1>8
  <2> QED
    BY <1>7, <2>4, <2>5
<1>9. ASSUME NEW u \in Users, NEW hash \in InputHashes, s.mint # None,
             CreateAccount(u, s.mint, hash, hash),
             data' = [data EXCEPT !.state.account = <<s.mint, u>>]
      PROVE  CInv'
  <2> DEFINE ix == CreateAccountIx(u, s.mint, hash)
             a == <<s.mint, u>>
             t == [s EXCEPT !.account = a]
  <2>1. /\ ix \in Instructions /\ ix.kind = "create" /\ a = <<ix.mint, ix.owner>>
        /\ a \in Accounts
    BY <1>9 DEF CreateAccountIx, Instructions, Accounts, DevnetStates
  <2>2. Execute(ix)
    BY <1>9 DEF Execute, CreateAccountIx
  <2> HIDE DEF ix
  <2>3. account'[a] # Absent
    BY <2>1, <2>2, CreateDone DEF Effect, CInv, ChainInv
  <2>4. data' = [data EXCEPT !.state = t]
    BY <1>4, <1>5, <1>9
  <2> HIDE DEF a
  <2>5. t \in DevnetStates /\ StateGenuine(t)'
    BY <1>6, <2>1, <2>3 DEF DevnetStates, StateGenuine
  <2> QED
    BY <1>7, <2>4, <2>5
<1> QED
  BY <1>5, <1>8, <1>9 DEF SetUp

LEMMA StepKeepsCInv ==
    ASSUME CInv, NEW p \in Procs, Step(p)
    PROVE  CInv'
BY CheckAccountExistsStep, ReadRequestStep, ReadConfigStep, ReadAccountStep,
   ReadSubmitConfigStep, ReadSubmitAccountStep, ValidateRelayerStep, SendStep,
   ConfirmDirectStep, PollRelayerStep, WriteRequestFileStep, SaveStateStep DEF Step

LEMMA NextCInv == CInv /\ [ClientNext]_clientVars => CInv'
<1> SUFFICES ASSUME CInv, [ClientNext]_clientVars PROVE CInv'
  OBVIOUS
<1>1. CASE \E p \in Procs : Start(p) \/ Step(p) \/ Stop(p)
  BY <1>1, StartStep, StepKeepsCInv, StopStep
<1>2. CASE \E n \in 1 .. MaxSends : Land(n) \/ Forget(n)
  BY <1>2, LandStep, ForgetStep
<1>3. CASE Evaluate
  BY <1>3, EvaluateQuietStep, EvaluateWriteEvaluates, EvaluatesKeeps DEF Evaluate
<1>4. CASE SetUp
  BY <1>4, SetUpKeeps
<1>5. CASE Elsewhere \/ UNCHANGED clientVars
  BY <1>5, ElsewhereKeeps
<1>6. CASE OtherWriters
  BY <1>6, OtherWritersCases, EvaluatesKeeps, DemoWritesRequestStep
<1> QED
  BY <1>1, <1>2, <1>3, <1>4, <1>5, <1>6 DEF ClientNext

LEMMA SpecCInv == ClientSpec => []CInv
BY InitCInv, NextCInv, PTL DEF ClientSpec

-----------------------------------------------------------------------------
(***************************************************************************)
(* What a command knows, read off the invariant.                           *)
(***************************************************************************)
\* Every command in main.rs and commands.rs is at one of the Places, and
\* send_and_confirm() and submit_instructions_and_wait() wait for a
\* transaction that has been sent.
THEOREM ClientTypeCorrect == ClientSpec => []ClientTypeOK
<1>1. CInv => ClientTypeOK
  <2> SUFFICES ASSUME CInv PROVE ClientTypeOK
    OBVIOUS
  <2>1. TypeOK
    BY DEF CInv, ChainInv, IInv
  <2>2. ASSUME NEW p \in Procs
        PROVE  /\ proc[p].at \in Places /\ proc[p].left \in 0 .. MaxPolls
               /\ At(p, "confirm") => proc[p].ticket \notin Unused
    <3>1. PICK d \in CommandRecords : d = proc[p] /\ Shape(d) /\ Truth(d)
      BY DEF CInv, Knows
    <3>2. d.at \in Places /\ d.left \in 0 .. MaxPolls
      BY DEF CommandRecords
    <3>3. d.at = "confirm" => tx[d.ticket].state # "unsent"
      BY <3>1 DEF Truth, TicketKnown
    <3> QED
      BY <3>1, <3>2, <3>3 DEF At, Unused, Unsent
  <2>3. /\ worker # None => worker \in Bindings
        /\ \A n \in 1 .. MaxSends : InFlight(n) <=> tx[n].ix # None
    BY DEF CInv, ClientTypes
  <2> QED
    BY <2>1, <2>2, <2>3 DEF ClientTypeOK
<1> QED
  BY <1>1, SpecCInv, PTL

\* write_request_file() and DevnetState.save(): apart from what demo writes, the
\* request.json and latest_request that later commands start from are of requests
\* that exist on chain, whichever command wrote last.
THEOREM DataDirIsGenuine == ClientSpec => []DataDirGenuine
<1>1. CInv => DataDirGenuine
  BY DEF CInv, FilesGenuine, StateGenuine, Known, DataDirGenuine
<1> QED
  BY <1>1, SpecCInv, PTL

\* cmd_initialize and cmd_create_account record in devnet-state.json only what
\* has been created, and a slow command that puts its copy back undoes nothing
\* that is needed for that.
THEOREM StateFileIsGenuine == ClientSpec => []StateFileGenuine
<1>1. CInv => StateFileGenuine
  BY DEF CInv, FilesGenuine, StateGenuine, StateFileGenuine
<1> QED
  BY <1>1, SpecCInv, PTL

\* cmd_initialize and cmd_create_account report success only for what their own
\* transaction has created, also when two of them race for the same address.
THEOREM SetUpReportsItsOwn == ClientSpec => []SetUpOkIsOwn
<1>1. CInv => SetUpOkIsOwn
  BY DEF CInv, Reports, Reported, SetUpOkIsOwn
<1> QED
  BY <1>1, SpecCInv, PTL

\* cmd_submit reports success only for the request it has asked for.
THEOREM SubmitReportsItsOwn == ClientSpec => []SubmitOkIsOwn
<1>1. CInv => SubmitOkIsOwn
  BY DEF CInv, Reports, Reported, SubmitOkIsOwn
<1> QED
  BY <1>1, SpecCInv, PTL

\* cmd_finalize, by verify_authoritative_finalized(), reports success only of a
\* request that is finalized with its result, whatever the relayer answers.
THEOREM FinalizeReportsTheTruth == ClientSpec => []FinalizeOkIsTrue
<1>1. CInv => FinalizeOkIsTrue
  BY DEF CInv, Reports, Reported, FinalizeOkIsTrue
<1> QED
  BY <1>1, SpecCInv, PTL

\* Under these commands, these workers and this relayer the accounts still go
\* only through the steps of the coordinator's instructions, so all that is
\* proved of Spec holds of them.
LEMMA ClientsObeyCoordinator == ClientSpec => Spec
<1>1. ClientInit => Init
  BY DEF ClientInit
<1> QED
  BY <1>1, ChainStep, SpecCInv, PTL DEF ClientSpec, Spec

-----------------------------------------------------------------------------
\* A step of one command moves no other.
LEMMA OthersRest ==
    ASSUME CInv, NEW p \in Procs, NEW q \in Procs, p # q,
           Start(q) \/ Step(q) \/ Stop(q)
    PROVE  proc'[p] = proc[p]
<1>1. proc \in [Procs -> CommandRecords]
  BY DEF CInv, ClientTypes
<1>2. \E c : proc' = [proc EXCEPT ![q] = c]
  <2>1. CASE Start(q)
    BY <2>1 DEF Start, StartInitialize, StartCreateAccount, StartSubmit,
                StartFetchRequest, StartFinalize, Begin
  <2>2. CASE Stop(q)
    BY <2>2 DEF Stop, Fail, End
  <2>3. CASE Step(q)
    <3>1. CASE CheckAccountExists(q) \/ ReadRequest(q) \/ ReadConfig(q)
      BY <3>1 DEF CheckAccountExists, ReadRequest, ReadConfig, GoOn, Fail, End
    <3>2. CASE ReadAccount(q)
      BY <3>2 DEF ReadAccount, Prepare, CheckFinalized, GoOn, Fail, FailOn, End
    <3>3. CASE ReadSubmitConfig(q) \/ ReadSubmitAccount(q) \/ ValidateRelayer(q)
      BY <3>3 DEF ReadSubmitConfig, ReadSubmitAccount, ValidateRelayer, GoOn, Fail, End
    <3>4. CASE Send(q)
      BY <3>4 DEF Send, GoOn, Fail, End
    <3>5. CASE ConfirmDirect(q) \/ \E reply \in RelayerReplies : PollRelayer(q, reply)
      BY <3>5 DEF ConfirmDirect, PollRelayer, Delivered, PollAgain, GoOn, Fail, End
    <3>6. CASE WriteRequestFile(q) \/ SaveState(q)
      BY <3>6 DEF WriteRequestFile, SaveState, GoOn, Succeed, End
    <3> QED
      BY <2>3, <3>1, <3>2, <3>3, <3>4, <3>5, <3>6 DEF Step
  <2> QED
    BY <2>1, <2>2, <2>3
<1> QED
  BY <1>1, <1>2

\* fetch_and_verify_request(): three reads at different times that it accepts
\* are what the chain holds at the last of them.
THEOREM VerifiedReadsAreCurrent == ClientSpec => VerifiedIsCurrent
<1> DEFINE Onward == {"write", "validate", "send", "save"}
           Current == \A p \in Procs :
               At(p, "read_account") /\ proc'[p].at \in Onward =>
                   request[proc[p].target] = proc[p].req
<1>1. CInv /\ [ClientNext]_clientVars => Current
  <2> SUFFICES ASSUME CInv, [ClientNext]_clientVars, NEW p \in Procs,
                      At(p, "read_account"), proc'[p].at \in Onward
               PROVE  request[proc[p].target] = proc[p].req
    OBVIOUS
  <2>1. PICK d \in CommandRecords : d = proc[p] /\ Shape(d) /\ Truth(d)
    BY DEF CInv, Knows
  <2>2. d.at = "read_account" /\ proc'[p] # proc[p]
    BY <2>1 DEF At
  <2>3. Start(p) \/ Step(p) \/ Stop(p)
    <3>1. proc' # proc
      BY <2>2
    <3>2. \E q \in Procs : Start(q) \/ Step(q) \/ Stop(q)
      BY <3>1 DEF ClientNext, clientVars, Land, Forget, Evaluate, EvaluateRead,
                  EvaluateWrite, EvaluateStop, OtherWriters, DemoWritesRequest,
                  EvaluateOther, SetUp, Elsewhere
    <3> QED
      BY <2>2, <3>2, OthersRest
  <2>4. ~Start(p)
    BY <2>1, <2>2 DEF Start, StartInitialize, StartCreateAccount, StartSubmit,
                      StartFetchRequest, StartFinalize, Begin, At
  <2>5. ~(proc' = [proc EXCEPT ![p] = Idle])
    BY DEF CInv, ClientTypes, Idle
  <2>6. ReadAccount(p)
    <3>1. Step(p)
      BY <2>3, <2>4, <2>5 DEF Stop, Fail, End
    <3> QED
      BY <2>1, <2>2, <3>1
         DEF Step, At, CheckAccountExists, ReadRequest, ReadConfig, ReadSubmitConfig,
             ReadSubmitAccount, ValidateRelayer, Send, ConfirmDirect, PollRelayer,
             WriteRequestFile, SaveState
  <2>7. VerifyRequestAccounts(d.target, d.req, d.conf, account[d.target[1]])
    BY <2>1, <2>5, <2>6 DEF ReadAccount, FailOn, End
  <2> QED
    BY <2>1, <2>2, <2>7, VerifiedHere
<1> QED
  BY <1>1, SpecCInv, PTL DEF ClientSpec, VerifiedIsCurrent

-----------------------------------------------------------------------------
(* A command's steps come to an end.                                       *)
LEMMA RemainingAt ==
    ASSUME NEW c
    PROVE  /\ c.at = "idle" => Remaining(c) = 0
           /\ c.at = "save" => Remaining(c) = 1
           /\ c.at = "write" => Remaining(c) = 2
           /\ c.at = "read_account" =>
                  Remaining(c) = IF c.ticket # None THEN 3 ELSE 9 + MaxPolls
           /\ c.at = "read_config" =>
                  Remaining(c) = IF c.ticket # None THEN 4 ELSE 10 + MaxPolls
           /\ c.at = "read_request" =>
                  Remaining(c) = IF c.ticket # None THEN 5 ELSE 11 + MaxPolls
           /\ c.at = "confirm" => Remaining(c) = 6 + c.left
           /\ c.at = "send" => Remaining(c) = 7 + MaxPolls
           /\ c.at \in {"validate", "exists", "submit_account"} =>
                  Remaining(c) = 8 + MaxPolls
           /\ c.at = "submit_config" => Remaining(c) = 9 + MaxPolls
BY DEF Remaining

\* p stands at d and goes on to c, which is fewer steps from its end.
Closer(c, d) == Remaining(c) \in 0 .. Remaining(d) - 1

LEMMA RemainingIsNat ==
    ASSUME NEW c \in CommandRecords
    PROVE  /\ Remaining(c) \in 0 .. 11 + MaxPolls
           /\ c.at # "idle" => Remaining(c) > 0
<1>1. /\ c.at \in Places /\ c.left \in 0 .. MaxPolls /\ MaxPolls \in Nat
  BY BoundsAssumption DEF CommandRecords
<1> QED
  BY <1>1, RemainingAt DEF Places

LEMMA EndIsCloser ==
    ASSUME NEW d \in CommandRecords, d.at # "idle"
    PROVE  Closer(Idle, d)
<1>1. Idle.at = "idle"
  BY DEF Idle
<1>2. Remaining(Idle) = 0
  BY <1>1, RemainingAt
<1> QED
  BY <1>2, RemainingIsNat DEF Closer

\* Everything Remaining looks at, after the step of p.
LEMMA StepTo ==
    ASSUME CInv, NEW p \in Procs, NEW d \in CommandRecords, d = proc[p], d.at # "idle"
    PROVE  /\ \A c : proc' = [proc EXCEPT ![p] = c] => proc'[p] = c
           /\ Fail(p) => Closer(proc'[p], d)
           /\ \A why, value : FailOn(p, why, value) => Closer(proc'[p], d)
           /\ \A r, value : Succeed(p, r, value) => Closer(proc'[p], d)
<1>1. ASSUME NEW c, proc' = [proc EXCEPT ![p] = c] PROVE proc'[p] = c
  BY <1>1 DEF CInv, ClientTypes
<1>2. proc' = [proc EXCEPT ![p] = Idle] => Closer(proc'[p], d)
  BY <1>1, EndIsCloser
<1> QED
  BY <1>1, <1>2 DEF Fail, FailOn, Succeed, End

LEMMA ReadingAdvances ==
    ASSUME CInv, NEW p \in Procs, NEW d \in CommandRecords, d = proc[p], Shape(d),
           d.at # "idle",
           \/ CheckAccountExists(p) \/ ReadRequest(p) \/ ReadConfig(p)
           \/ ReadSubmitConfig(p) \/ ReadSubmitAccount(p) \/ ValidateRelayer(p)
    PROVE  Closer(proc'[p], d)
<1>1. MaxPolls \in Nat
  BY BoundsAssumption
<1>2. CASE CheckAccountExists(p)
  <2> DEFINE c == [d EXCEPT !.at = "send"]
  <2>1. c.at = "send" /\ c.ticket = d.ticket
    BY DEF CommandRecords
  <2>2. d.at = "exists" /\ (Fail(p) \/ GoOn(p, c))
    BY <1>2 DEF CheckAccountExists, At
  <2> HIDE DEF c
  <2>3. Fail(p) \/ proc'[p] = c
    BY <2>2, StepTo DEF GoOn
  <2> QED
    BY <1>1, <2>1, <2>2, <2>3, StepTo, RemainingAt DEF Closer
<1>3. CASE ReadRequest(p)
  <2> DEFINE c == [d EXCEPT !.at = "read_config", !.req = request[d.target]]
  <2>1. c.at = "read_config" /\ c.ticket = d.ticket
    BY DEF CommandRecords
  <2>2. d.at = "read_request" /\ (Fail(p) \/ GoOn(p, c))
    BY <1>3 DEF ReadRequest, At
  <2> HIDE DEF c
  <2>3. Fail(p) \/ proc'[p] = c
    BY <2>2, StepTo DEF GoOn
  <2> QED
    BY <1>1, <2>1, <2>2, <2>3, StepTo, RemainingAt DEF Closer
<1>4. CASE ReadConfig(p)
  <2> DEFINE c == [d EXCEPT !.at = "read_account", !.conf = config[d.req.mint]]
  <2>1. c.at = "read_account" /\ c.ticket = d.ticket
    BY DEF CommandRecords
  <2>2. d.at = "read_config" /\ (GoOn(p, c))
    BY <1>4 DEF ReadConfig, At
  <2> HIDE DEF c
  <2>3. proc'[p] = c
    BY <2>2, StepTo DEF GoOn
  <2> QED
    BY <1>1, <2>1, <2>2, <2>3, StepTo, RemainingAt DEF Closer
<1>5. CASE ReadSubmitConfig(p)
  <2> DEFINE c == [d EXCEPT !.at = "submit_account", !.conf = config[d.ix.mint]]
  <2>1. c.at = "submit_account" /\ c.ticket = d.ticket
    BY DEF CommandRecords
  <2>2. d.at = "submit_config" /\ (Fail(p) \/ GoOn(p, c))
    BY <1>5 DEF ReadSubmitConfig, At
  <2> HIDE DEF c
  <2>3. Fail(p) \/ proc'[p] = c
    BY <2>2, StepTo DEF GoOn
  <2> QED
    BY <1>1, <2>1, <2>2, <2>3, StepTo, RemainingAt DEF Closer
<1>6. CASE ReadSubmitAccount(p)
  <2> DEFINE a == d.state.account
             acct == account[a]
             c == [d EXCEPT
                      !.at = "send", !.via = "direct", !.conf = None,
                      !.target = <<a, acct.request_nonce + 1>>,
                      !.ix.version = acct.state_version,
                      !.ix.nonce = acct.request_nonce + 1]
  <2>1. c.at = "send"
    BY DEF CommandRecords
  <2>2. d.at = "submit_account" /\ (Fail(p) \/ GoOn(p, c))
    BY <1>6 DEF ReadSubmitAccount, At
  <2> HIDE DEF c
  <2>3. Fail(p) \/ proc'[p] = c
    BY <2>2, StepTo DEF GoOn
  <2> QED
    BY <1>1, <2>1, <2>2, <2>3, StepTo, RemainingAt DEF Closer
<1>7. CASE ValidateRelayer(p)
  <2> DEFINE c == [d EXCEPT !.at = "send"]
  <2>1. c.at = "send" /\ c.ticket = d.ticket
    BY DEF CommandRecords
  <2>2. d.at = "validate" /\ (Fail(p) \/ GoOn(p, c))
    BY <1>7 DEF ValidateRelayer, At
  <2> HIDE DEF c
  <2>3. Fail(p) \/ proc'[p] = c
    BY <2>2, StepTo DEF GoOn
  <2> QED
    BY <1>1, <2>1, <2>2, <2>3, StepTo, RemainingAt DEF Closer
<1> QED
  BY <1>2, <1>3, <1>4, <1>5, <1>6, <1>7

\* The three reads are followed by the sending where nothing has been sent, and
\* by the files where something has.
LEMMA ReadAccountAdvances ==
    ASSUME CInv, NEW p \in Procs, NEW d \in CommandRecords, d = proc[p], Shape(d),
           d.at # "idle", ReadAccount(p)
    PROVE  Closer(proc'[p], d)
<1>1. MaxPolls \in Nat /\ d.at = "read_account"
  BY BoundsAssumption DEF ReadAccount, At
<1>2. PICK acct : acct = account[d.target[1]]
  OBVIOUS
<1>3. \/ FailOn(p, "verification failed", None)
      \/ GoOn(p, [d EXCEPT !.at = "write"])
      \/ ~Prepared(p) /\ Prepare(p, acct)
      \/ Prepared(p) /\ CheckFinalized(p, acct)
  BY <1>2 DEF ReadAccount
<1>4. CASE GoOn(p, [d EXCEPT !.at = "write"])
  <2> DEFINE c == [d EXCEPT !.at = "write"]
  <2>1. c.at = "write"
    BY DEF CommandRecords
  <2> HIDE DEF c
  <2>2. proc'[p] = c
    BY <1>4, StepTo DEF GoOn, c
  <2> QED
    BY <1>1, <2>1, <2>2, RemainingAt DEF Closer
<1>5. CASE ~Prepared(p) /\ Prepare(p, acct)
  <2> DEFINE c == [d EXCEPT
                      !.at = IF d.via = "direct" THEN "send" ELSE "validate",
                      !.req = None, !.conf = None,
                      !.ix = FinalizeIx(d.req.mint, d.target, d.parsed),
                      !.prior = acct.state_version]
  <2>1. c.at \in {"send", "validate"}
    BY DEF CommandRecords
  <2>2. Fail(p) \/ GoOn(p, c)
    BY <1>5 DEF Prepare
  <2> HIDE DEF c
  <2>3. Fail(p) \/ proc'[p] = c
    BY <2>2, StepTo DEF GoOn
  <2>4. d.ticket = None
    BY <1>5 DEF Prepared
  <2> QED
    BY <1>1, <2>1, <2>3, <2>4, StepTo, RemainingAt DEF Closer
<1>6. CASE Prepared(p) /\ CheckFinalized(p, acct)
  <2> DEFINE c == [d EXCEPT !.at = "save", !.req = None, !.conf = None]
  <2>1. c.at = "save"
    BY DEF CommandRecords
  <2>2. \/ Fail(p)
        \/ FailOn(p, "still has pending_request", acct.pending_request)
        \/ GoOn(p, c)
    BY <1>6 DEF CheckFinalized
  <2> HIDE DEF c
  <2>3. Fail(p) \/ proc'[p] = c \/ Closer(proc'[p], d)
    BY <2>2, StepTo DEF GoOn
  <2>4. d.ticket # None
    BY <1>6 DEF Prepared
  <2> QED
    BY <1>1, <2>1, <2>3, <2>4, StepTo, RemainingAt DEF Closer
<1> QED
  BY <1>3, <1>4, <1>5, <1>6, StepTo

LEMMA SendAdvances ==
    ASSUME CInv, NEW p \in Procs, NEW d \in CommandRecords, d = proc[p], Shape(d),
           d.at # "idle", Send(p)
    PROVE  Closer(proc'[p], d)
<1>1. MaxPolls \in Nat
  BY BoundsAssumption
<1> DEFINE c == [d EXCEPT !.at = "confirm", !.ticket = NextTicket, !.left = MaxPolls]
<1>2. c.at = "confirm" /\ c.left = MaxPolls
  BY DEF CommandRecords
<1>3. d.at = "send" /\ (Fail(p) \/ GoOn(p, c))
  BY DEF Send, At
<1> HIDE DEF c
<1>4. Fail(p) \/ proc'[p] = c
  BY <1>3, StepTo DEF GoOn
<1> QED
  BY <1>1, <1>2, <1>3, <1>4, StepTo, RemainingAt DEF Closer

\* A poll uses up a poll; what has been delivered is not polled for again.
LEMMA ConfirmAdvances ==
    ASSUME CInv, NEW p \in Procs, NEW d \in CommandRecords, d = proc[p], Shape(d),
           d.at # "idle",
           ConfirmDirect(p) \/ \E reply \in RelayerReplies : PollRelayer(p, reply)
    PROVE  Closer(proc'[p], d)
<1>1. /\ MaxPolls \in Nat /\ d.at = "confirm" /\ d.left \in 0 .. MaxPolls
      /\ d.ticket # None
  BY BoundsAssumption, NoneAssumption DEF ConfirmDirect, PollRelayer, At, CommandRecords, Shape
<1>2. Delivered(p) \/ Fail(p) \/ PollAgain(p)
  BY DEF ConfirmDirect, PollRelayer
<1>3. CASE Delivered(p)
  <2> DEFINE c == [d EXCEPT
                      !.at = IF ReadsAgain(d.cmd) THEN "read_request" ELSE "save",
                      !.left = 0]
  <2>1. c.at \in {"read_request", "save"} /\ c.ticket = d.ticket
    BY DEF CommandRecords
  <2>2. GoOn(p, c)
    BY <1>3 DEF Delivered
  <2> HIDE DEF c
  <2>3. proc'[p] = c
    BY <2>2, StepTo DEF GoOn
  <2> QED
    BY <1>1, <2>1, <2>3, RemainingAt DEF Closer
<1>4. CASE PollAgain(p)
  <2> DEFINE c == [d EXCEPT !.left = IF @ = 0 THEN 0 ELSE @ - 1]
  <2>1. c.at = "confirm" /\ (d.left # 0 => c.left = d.left - 1)
    BY <1>1 DEF CommandRecords
  <2>2. Fail(p) \/ (d.left # 0 /\ GoOn(p, c))
    BY <1>4 DEF PollAgain, DeadlinePassed
  <2> HIDE DEF c
  <2>3. Fail(p) \/ (d.left # 0 /\ proc'[p] = c)
    BY <2>2, StepTo DEF GoOn
  <2> QED
    BY <1>1, <2>1, <2>3, StepTo, RemainingAt DEF Closer
<1> QED
  BY <1>2, <1>3, <1>4, StepTo

LEMMA FilesAdvance ==
    ASSUME CInv, NEW p \in Procs, NEW d \in CommandRecords, d = proc[p], Shape(d),
           d.at # "idle", WriteRequestFile(p) \/ SaveState(p)
    PROVE  Closer(proc'[p], d)
<1> DEFINE c == [d EXCEPT !.at = "save"]
<1>1. c.at = "save"
  BY DEF CommandRecords
<1>2. \/ \E r, value : Succeed(p, r, value)
      \/ d.at = "write" /\ GoOn(p, c)
  BY DEF WriteRequestFile, SaveState, At
<1> HIDE DEF c
<1>3. Closer(proc'[p], d) \/ (d.at = "write" /\ proc'[p] = c)
  BY <1>2, StepTo DEF GoOn
<1> QED
  BY <1>1, <1>3, RemainingAt DEF Closer

LEMMA StepAdvances ==
    ASSUME CInv, NEW p \in Procs, Step(p)
    PROVE  Remaining(proc'[p]) \in 0 .. Remaining(proc[p]) - 1
<1>1. PICK d \in CommandRecords : d = proc[p] /\ Shape(d)
  BY DEF CInv, Knows
<1>2. d.at # "idle"
  BY <1>1 DEF Step, At, CheckAccountExists, ReadRequest, ReadConfig, ReadAccount,
              ReadSubmitConfig, ReadSubmitAccount, ValidateRelayer, Send, ConfirmDirect,
              PollRelayer, WriteRequestFile, SaveState
<1>3. Closer(proc'[p], d)
  <2>1. CASE \/ CheckAccountExists(p) \/ ReadRequest(p) \/ ReadConfig(p)
             \/ ReadSubmitConfig(p) \/ ReadSubmitAccount(p) \/ ValidateRelayer(p)
    BY <1>1, <1>2, <2>1, ReadingAdvances
  <2>2. CASE ReadAccount(p)
    BY <1>1, <1>2, <2>2, ReadAccountAdvances
  <2>3. CASE Send(p)
    BY <1>1, <1>2, <2>3, SendAdvances
  <2>4. CASE ConfirmDirect(p) \/ \E reply \in RelayerReplies : PollRelayer(p, reply)
    BY <1>1, <1>2, <2>4, ConfirmAdvances
  <2>5. CASE WriteRequestFile(p) \/ SaveState(p)
    BY <1>1, <1>2, <2>5, FilesAdvance
  <2> QED
    BY <2>1, <2>2, <2>3, <2>4, <2>5 DEF Step
<1> QED
  BY <1>1, <1>3 DEF Closer

\* Whoever moves a command moves it towards its end.
LEMMA CommandAdvances ==
    ASSUME CInv, [ClientNext]_clientVars, NEW p \in Procs,
           ~At(p, "idle"), proc'[p] # proc[p]
    PROVE  Remaining(proc'[p]) \in 0 .. Remaining(proc[p]) - 1
<1>1. \E q \in Procs : Start(q) \/ Step(q) \/ Stop(q)
  <2>1. proc' # proc
    OBVIOUS
  <2> QED
    BY <2>1 DEF ClientNext, clientVars, Land, Forget, Evaluate, EvaluateRead,
                EvaluateWrite, EvaluateStop, OtherWriters, DemoWritesRequest,
                EvaluateOther, SetUp, Elsewhere
<1>2. Start(p) \/ Step(p) \/ Stop(p)
  BY <1>1, OthersRest
<1>3. ~Start(p)
  BY DEF Start, StartInitialize, StartCreateAccount, StartSubmit, StartFetchRequest,
         StartFinalize, Begin
<1>4. CASE Stop(p)
  <2>1. PICK d \in CommandRecords : d = proc[p]
    BY DEF CInv, ClientTypes
  <2>2. Closer(proc'[p], d)
    BY <1>4, <2>1, StepTo DEF Stop, At
  <2> QED
    BY <2>1, <2>2 DEF Closer
<1> QED
  BY <1>2, <1>3, <1>4, StepAdvances

\* No command goes back: whatever the chain, the relayer, the files and the
\* other commands do, each of its steps brings it nearer its end.
THEOREM CommandsOnlyAdvance == ClientSpec => CommandsAdvance
<1> DEFINE Advance == \A p \in Procs :
               ~At(p, "idle") /\ proc'[p] # proc[p] =>
                   Remaining(proc'[p]) \in 0 .. Remaining(proc[p]) - 1
<1>1. CInv /\ [ClientNext]_clientVars => Advance
  BY CommandAdvances
<1> QED
  BY <1>1, SpecCInv, PTL DEF ClientSpec, CommandsAdvance

-----------------------------------------------------------------------------
(* What a finalize sends.                                                  *)

\* An operator has signed a for the request r, as the chain has it.
OwnFor(r, a) ==
    /\ r \in RequestKeys /\ Exists(r)
    /\ a \in signed
    /\ a.message.request = RequestBinding(r, request[r])

Own(ix) == ix # None /\ ix.kind = "finalize" => OwnFor(ix.request, ix.parsed)

OwnInv ==
    /\ \A p \in Procs : Own(proc[p].ix)
    /\ \A n \in 1 .. MaxSends : InFlight(n) => Own(tx[n].ix)

LEMMA OwnKept ==
    ASSUME Kept, NEW ix, Own(ix)
    PROVE  Own(ix)'
<1> SUFFICES ASSUME ix # None, ix.kind = "finalize"
             PROVE  OwnFor(ix.request, ix.parsed)'
  BY DEF Own
<1>1. PICK r, a : r = ix.request /\ a = ix.parsed /\ OwnFor(r, a)
  BY DEF Own
<1>2. OwnFor(r, a)'
  BY <1>1 DEF OwnFor, Kept, RequestsKept, Exists
<1> QED
  BY <1>1, <1>2 DEF OwnFor, Exists

LEMMA StartOwns ==
    ASSUME CInv, NEW p \in Procs, Start(p)
    PROVE  \E ix : ix = proc'[p].ix /\ Own(ix)
<1>1. proc \in [Procs -> CommandRecords] /\ None \notin Instructions
  BY NoneAssumption DEF CInv, ClientTypes
<1>2. ASSUME NEW c, Begin(p, c), c.ix = None \/ c.ix.kind # "finalize"
      PROVE  \E ix : ix = proc'[p].ix /\ Own(ix)
  <2>1. proc'[p] = c
    BY <1>1, <1>2 DEF Begin
  <2> QED
    BY <1>2, <2>1 DEF Own
<1>3. ASSUME NEW u \in Users, NEW m \in Mints, NEW op \in Operators,
             NEW hash \in InputHashes, NEW life \in Lifetimes,
             StartInitialize(p, u, m, op, hash, life)
      PROVE  \E ix : ix = proc'[p].ix /\ Own(ix)
  BY <1>2, <1>3 DEF StartInitialize, InitializeIx, Idle
<1>4. ASSUME NEW u \in Users, NEW hash \in InputHashes, StartCreateAccount(p, u, hash)
      PROVE  \E ix : ix = proc'[p].ix /\ Own(ix)
  BY <1>2, <1>4 DEF StartCreateAccount, CreateAccountIx, Idle
<1>5. ASSUME NEW u \in Users, NEW amount \in InputHashes, StartSubmit(p, u, amount)
      PROVE  \E ix : ix = proc'[p].ix /\ Own(ix)
  BY <1>2, <1>5 DEF StartSubmit, SubmitIx, Idle
<1>6. ASSUME NEW flag, StartFetchRequest(p, flag)
      PROVE  \E ix : ix = proc'[p].ix /\ Own(ix)
  BY <1>2, <1>6 DEF StartFetchRequest, Idle
<1>7. ASSUME NEW flag, NEW via, StartFinalize(p, flag, via)
      PROVE  \E ix : ix = proc'[p].ix /\ Own(ix)
  BY <1>2, <1>7 DEF StartFinalize, Idle
<1> QED
  BY <1>3, <1>4, <1>5, <1>6, <1>7 DEF Start

\* The places that leave the instruction alone, or end.
LEMMA QuietOwns ==
    ASSUME CInv, NEW p \in Procs, NEW d \in CommandRecords, d = proc[p], Own(d.ix),
           \/ CheckAccountExists(p) \/ ReadRequest(p) \/ ReadConfig(p)
           \/ ReadSubmitConfig(p) \/ ValidateRelayer(p) \/ Send(p)
           \/ ConfirmDirect(p) \/ (\E reply \in RelayerReplies : PollRelayer(p, reply))
           \/ WriteRequestFile(p) \/ SaveState(p) \/ Stop(p)
    PROVE  \E ix : ix = proc'[p].ix /\ Own(ix)
<1>1. proc \in [Procs -> CommandRecords] /\ Idle.ix = None
  BY DEF CInv, ClientTypes, Idle
<1>2. ASSUME NEW c, c.ix = d.ix, GoOn(p, c)
      PROVE  \E ix : ix = proc'[p].ix /\ Own(ix)
  BY <1>1, <1>2 DEF GoOn
<1>3. ASSUME \E outcome : End(p, outcome)
      PROVE  \E ix : ix = proc'[p].ix /\ Own(ix)
  BY <1>1, <1>3 DEF End, Own
<1>4. CASE CheckAccountExists(p) \/ ReadRequest(p) \/ ReadConfig(p)
  BY <1>2, <1>3, <1>4 DEF CheckAccountExists, ReadRequest, ReadConfig, Fail, CommandRecords
<1>5. CASE ReadSubmitConfig(p) \/ ValidateRelayer(p) \/ Send(p)
  BY <1>2, <1>3, <1>5 DEF ReadSubmitConfig, ValidateRelayer, Send, Fail, CommandRecords
<1>6. CASE ConfirmDirect(p) \/ \E reply \in RelayerReplies : PollRelayer(p, reply)
  <2>1. Delivered(p) \/ Fail(p) \/ PollAgain(p)
    BY <1>6 DEF ConfirmDirect, PollRelayer
  <2> QED
    BY <1>2, <1>3, <2>1 DEF Delivered, PollAgain, Fail, CommandRecords
<1>7. CASE WriteRequestFile(p) \/ SaveState(p) \/ Stop(p)
  BY <1>2, <1>3, <1>7 DEF WriteRequestFile, SaveState, Stop, Succeed, Fail, CommandRecords
<1> QED
  BY <1>4, <1>5, <1>6, <1>7

LEMMA ReadSubmitAccountOwns ==
    ASSUME CInv, NEW p \in Procs, NEW d \in CommandRecords, d = proc[p], Shape(d),
           ReadSubmitAccount(p)
    PROVE  \E ix : ix = proc'[p].ix /\ Own(ix)
<1>1. proc \in [Procs -> CommandRecords] /\ Idle.ix = None
  BY DEF CInv, ClientTypes, Idle
<1>2. CASE Fail(p)
  BY <1>1, <1>2 DEF Fail, End, Own
<1>3. CASE ~Fail(p)
  <2>1. d.at = "submit_account" /\ d.ix \in Instructions /\ d.ix.kind = "submit"
    <3>1. d.at = "submit_account" /\ d.cmd \in CommandNames \cup {None}
      BY DEF ReadSubmitAccount, At, CommandRecords
    <3> QED
      BY <3>1 DEF Shape, CommandNames, SetUpPlaces, ReadPlaces
  <2>2. PICK t, version, nonce :
            GoOn(p, [d EXCEPT !.at = "send", !.via = "direct", !.conf = None,
                              !.target = t, !.ix.version = version, !.ix.nonce = nonce])
    BY <1>3 DEF ReadSubmitAccount
  <2>3. proc'[p].ix = [d.ix EXCEPT !.version = version, !.nonce = nonce]
    BY <1>1, <2>2 DEF GoOn, CommandRecords
  <2>4. proc'[p].ix.kind = "submit"
    BY <2>1, <2>3 DEF Instructions
  <2> QED
    BY <2>4 DEF Own
<1> QED
  BY <1>2, <1>3

\* prepare_finalize() puts together only what validate_finalize_consistency()
\* has found to belong together.
LEMMA ReadAccountOwns ==
    ASSUME CInv, NEW p \in Procs, NEW d \in CommandRecords, d = proc[p], Shape(d),
           Truth(d), Own(d.ix), ReadAccount(p)
    PROVE  \E ix : ix = proc'[p].ix /\ Own(ix)
<1>1. proc \in [Procs -> CommandRecords] /\ Idle.ix = None
  BY DEF CInv, ClientTypes, Idle
<1>2. ASSUME \E outcome : End(p, outcome)
      PROVE  \E ix : ix = proc'[p].ix /\ Own(ix)
  BY <1>1, <1>2 DEF End, Own
<1>3. ASSUME NEW c, c.ix = d.ix, GoOn(p, c)
      PROVE  \E ix : ix = proc'[p].ix /\ Own(ix)
  BY <1>1, <1>3 DEF GoOn
<1>4. PICK acct : acct = account[d.target[1]]
  OBVIOUS
<1>5. CASE Prepare(p, acct) /\ ~Fail(p)
  <2>1. /\ d.target \in RequestKeys /\ ReadEarlier(d.target, d.req)
    <3>1. d.at = "read_account"
      BY DEF ReadAccount, At
    <3> QED
      BY <3>1, ShapeFields DEF Truth
  <2>2. /\ proc'[p].ix = FinalizeIx(d.req.mint, d.target, d.parsed)
        /\ ValidateFinalizeConsistency(p)
    <3> DEFINE place == IF d.via = "direct" THEN "send" ELSE "validate"
               ix == FinalizeIx(d.req.mint, d.target, d.parsed)
               prior == acct.state_version
               c == [d EXCEPT !.at = place, !.req = None, !.conf = None, !.ix = ix,
                              !.prior = prior]
    <3>1. ValidateFinalizeConsistency(p) /\ GoOn(p, c)
      BY <1>5 DEF Prepare
    <3> HIDE DEF place, ix, prior
    <3>2. c.ix = ix
      BY DEF CommandRecords
    <3> HIDE DEF c
    <3>3. proc'[p] = c
      BY <1>1, <3>1 DEF GoOn
    <3> QED
      BY <3>1, <3>2, <3>3 DEF ix
  <2>3. /\ d.parsed \in signed
        /\ d.parsed.message.request = RequestBinding(d.target, d.req)
    <3> DEFINE hash == d.parsed.message.result_hash
    <3>1. d.parsed.message = ResultBinding(d.target, d.req, hash, PolicyResult)
      BY <2>2 DEF ValidateFinalizeConsistency
    <3>2. d.parsed \in signed
      BY <2>2 DEF ValidateFinalizeConsistency
    <3> HIDE DEF hash
    <3> QED
      BY <3>1, <3>2 DEF ResultBinding
  <2>4. OwnFor(d.target, d.parsed)
    BY <2>1, <2>3 DEF OwnFor, ReadEarlier
  <2>5. Own(FinalizeIx(d.req.mint, d.target, d.parsed))
    BY <2>4 DEF Own, FinalizeIx
  <2> QED
    BY <2>2, <2>5
<1>6. CASE CheckFinalized(p, acct)
  BY <1>2, <1>3, <1>6 DEF CheckFinalized, Fail, FailOn, CommandRecords
<1>7. CASE GoOn(p, [d EXCEPT !.at = "write"])
  BY <1>3, <1>7 DEF CommandRecords
<1>8. CASE FailOn(p, "verification failed", None) \/ Fail(p)
  BY <1>2, <1>8 DEF FailOn, Fail
<1> QED
  BY <1>4, <1>5, <1>6, <1>7, <1>8 DEF ReadAccount

LEMMA CommandOwns ==
    ASSUME CInv, OwnInv, NEW p \in Procs, Start(p) \/ Step(p) \/ Stop(p)
    PROVE  \E ix : ix = proc'[p].ix /\ Own(ix)
<1>1. PICK d \in CommandRecords : d = proc[p] /\ Shape(d) /\ Truth(d)
  BY DEF CInv, Knows
<1>2. Own(d.ix)
  BY <1>1 DEF OwnInv
<1> QED
  BY <1>1, <1>2, StartOwns, QuietOwns, ReadSubmitAccountOwns, ReadAccountOwns DEF Step

\* A transaction is put in flight by Send only, as the command has it.
LEMMA FlightOwns ==
    ASSUME CInv, OwnInv, [ClientNext]_clientVars, NEW n \in 1 .. MaxSends, InFlight(n)'
    PROVE  \E ix : ix = tx'[n].ix /\ Own(ix)
<1>1. tx \in [1 .. MaxSends -> Transactions]
  BY DEF CInv, ClientTypes
<1>2. CASE tx'[n] = tx[n]
  BY <1>2 DEF OwnInv, InFlight
<1>3. CASE tx'[n] # tx[n]
  <2>1. (\E p \in Procs : Start(p) \/ Step(p) \/ Stop(p))
            \/ \E k \in 1 .. MaxSends : Land(k) \/ Forget(k)
    BY <1>3 DEF ClientNext, clientVars, Evaluate, EvaluateRead, EvaluateWrite,
                EvaluateStop, OtherWriters, DemoWritesRequest, EvaluateOther, SetUp,
                Elsewhere
  <2>2. ASSUME NEW k \in 1 .. MaxSends, Land(k) \/ Forget(k) PROVE FALSE
    <3>1. \E state \in {"ok", "err", "gone"} :
              tx' = [tx EXCEPT ![k] = [state |-> state, ix |-> None]]
      BY <2>2 DEF Land, Forget
    <3> QED
      BY <1>1, <1>3, <3>1 DEF InFlight
  <2>3. ASSUME NEW p \in Procs, Start(p) \/ Stop(p) PROVE FALSE
    BY <1>3, <2>3 DEF Start, StartInitialize, StartCreateAccount, StartSubmit,
                      StartFetchRequest, StartFinalize, Begin, Stop
  <2>4. PICK p \in Procs : Send(p)
    BY <1>3, <2>1, <2>2, <2>3
       DEF Step, CheckAccountExists, ReadRequest, ReadConfig, ReadAccount,
           ReadSubmitConfig, ReadSubmitAccount, ValidateRelayer, ConfirmDirect,
           PollRelayer, WriteRequestFile, SaveState
  <2>5. PICK ix, k : ix = proc[p].ix /\ tx' = [tx EXCEPT ![k] = [state |-> "flight", ix |-> ix]]
    BY <1>3, <2>4 DEF Send
  <2>6. tx'[n].ix = ix
    BY <1>1, <1>3, <2>5
  <2> QED
    BY <2>5, <2>6 DEF OwnInv
<1> QED
  BY <1>2, <1>3

LEMMA NextOwnInv == CInv /\ OwnInv /\ [ClientNext]_clientVars => OwnInv'
<1> SUFFICES ASSUME CInv, OwnInv, [ClientNext]_clientVars PROVE OwnInv'
  OBVIOUS
<1>1. Kept
  BY ChainStep, ChainInvStep DEF CInv
<1>2. ASSUME NEW p \in Procs PROVE \E ix : ix = proc'[p].ix /\ Own(ix)
  <2>1. CASE proc'[p] = proc[p]
    BY <2>1 DEF OwnInv
  <2>2. CASE proc'[p] # proc[p]
    <3>1. \E q \in Procs : Start(q) \/ Step(q) \/ Stop(q)
      BY <2>2 DEF ClientNext, clientVars, Land, Forget, Evaluate, EvaluateRead,
                  EvaluateWrite, EvaluateStop, OtherWriters, DemoWritesRequest,
                  EvaluateOther, SetUp, Elsewhere
    <3>2. Start(p) \/ Step(p) \/ Stop(p)
      BY <2>2, <3>1, OthersRest
    <3> QED
      BY <3>2, CommandOwns
  <2> QED
    BY <2>1, <2>2
<1>3. ASSUME NEW p \in Procs PROVE Own(proc[p].ix)'
  <2>1. PICK ix : ix = proc'[p].ix /\ Own(ix)'
    BY <1>1, <1>2, OwnKept
  <2> QED
    BY <2>1 DEF Own, OwnFor, Exists
<1>4. ASSUME NEW n \in 1 .. MaxSends, InFlight(n)' PROVE Own(tx[n].ix)'
  <2>1. PICK ix : ix = tx'[n].ix /\ Own(ix)'
    BY <1>1, <1>4, FlightOwns, OwnKept
  <2> QED
    BY <2>1 DEF Own, OwnFor, Exists
<1> QED
  BY <1>3, <1>4 DEF OwnInv

\* cmd_finalize trusts neither request.json nor result.json: whoever wrote them,
\* and for whichever chain, the attestation it sends along was signed for the
\* request it names, as this chain has it.
THEOREM FinalizeSendsOwn == ClientSpec => []FinalizeSendsItsOwn
<1>1. ClientInit => OwnInv
  BY DEF ClientInit, OwnInv, Own, Idle, InFlight, Unsent
<1>2. ClientSpec => []OwnInv
  BY <1>1, SpecCInv, NextOwnInv, PTL DEF ClientSpec
<1>3. CInv /\ OwnInv => FinalizeSendsItsOwn
  <2> SUFFICES ASSUME CInv, OwnInv, NEW n \in 1 .. MaxSends,
                      InFlight(n), tx[n].ix.kind = "finalize"
               PROVE  OwnFor(tx[n].ix.request, tx[n].ix.parsed)
    BY DEF FinalizeSendsItsOwn, OwnFor
  <2>1. tx[n].ix # None
    BY DEF CInv, ClientTypes
  <2> QED
    BY <2>1 DEF OwnInv, Own
<1> QED
  BY <1>2, <1>3, SpecCInv, PTL

-----------------------------------------------------------------------------
(* The program and its clients together.                                   *)

\* What is proved of the program among arbitrary users holds among these
\* clients and this worker: they only do what the program's own module lets
\* anyone do (cmd_submit, cmd_finalize, process_request, and what they send).
THEOREM SystemKeepsLedger ==
    ClientSpec => /\ ImplementsLedger
                  /\ []NoAttestationReplay
                  /\ SettledIsFinal
<1>1. ClientSpec => Spec
  BY ClientsObeyCoordinator, PTL
<1> QED
  BY <1>1, CoordinatorImplementsLedger, AttestationsSpentOnce, SettlementFinal, PTL

\* A finalize that says Ok has a signature behind the result it reports.
FinalizeOkIsAttested ==
    \A p \in Procs :
        result[p].res = "ok" /\ result[p].cmd = "finalize" =>
            AttestationFor(result[p].request, result[p].value) \in signed

\* End to end: what cmd_finalize reports, over a relayer it does not trust and
\* from a result.json anyone may have put there, was signed for this very request
\* by the operator that request was bound to.
THEOREM FinalizeReportsTheAttested == ClientSpec => []FinalizeOkIsAttested
<1>1. ClientSpec => []FinalizedByBoundOperator
  BY ClientsObeyCoordinator, ResultsAttested, PTL
<1>2. CInv /\ FinalizedByBoundOperator => FinalizeOkIsAttested
  <2> SUFFICES ASSUME CInv, FinalizedByBoundOperator, NEW p \in Procs,
                      result[p].res = "ok", result[p].cmd = "finalize"
               PROVE  AttestationFor(result[p].request, result[p].value) \in signed
    BY DEF FinalizeOkIsAttested
  <2>1. /\ result[p].request \in RequestKeys
        /\ Finalized(result[p].request)
        /\ request[result[p].request].result_hash = result[p].value
    BY DEF CInv, Reports, Reported
  <2> QED
    BY <2>1 DEF FinalizedByBoundOperator
<1> QED
  BY <1>1, <1>2, SpecCInv, PTL

=============================================================================
