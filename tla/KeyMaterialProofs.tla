--------------------------- MODULE KeyMaterialProofs ---------------------------
(***************************************************************************)
(* Proofs about KeyMaterial, for any number of processes and generations.  *)
(*                                                                         *)
(* The argument: while nothing is unsettled nobody sets up and the four    *)
(* files are of one generation.  A command that has read params.json at    *)
(* such a time knows that nobody will ever write that generation again,    *)
(* for no setup makes a generation twice.  So a client key of another      *)
(* generation, read later, means that server.bin has been replaced for     *)
(* good, and the commitment check that follows fails.                      *)
(*                                                                         *)
(* What is signed needs none of this: the label check ties the operands to *)
(* the request and the commitment check the server key to it.              *)
(***************************************************************************)
EXTENDS KeyMaterial, TLAPS

InSetup == {"truncate", "fill"}
Loading == {"encrypt", "decrypt"}

Command ==
    [ at : Places, cmd : Commands \cup {None}, file : KeyFiles \cup {None},
      made : Generations \cup {None}, alone : BOOLEAN,
      params : Generations \cup {None}, client : Generations \cup {None},
      server : Generations \cup {None}, result : Blobs \cup {None},
      settled : BOOLEAN ]

Types ==
    /\ keys \in [KeyFiles -> Generations \cup {None, Torn}]
    /\ store \subseteq Blobs
    /\ result \in Blobs \cup {None}
    /\ proc \in [Procs -> Command]
    /\ output \in [Procs -> [ cmd : Commands \cup {None}, right : BOOLEAN,
                              params : Generations \cup {None}, sound : BOOLEAN ]]
    /\ used \subseteq Generations
    /\ unsettled \in BOOLEAN
    /\ overlapped \subseteq Generations

\* What is known of a command where it is.
CommandAtPlace(c) ==
    /\ c.at \in InSetup =>
           c.cmd \in {"setup", "demo"} /\ c.file \in KeyFiles /\ c.made \in used
    /\ c.at \in {"encrypt_demo", "process_demo", "decrypt_demo"} => c.cmd = "demo"
    /\ c.at # "idle" /\ c.cmd = "demo" => c.made \in Generations
    /\ c.at = "params" => c.cmd \in {"encrypt", "evaluate", "decrypt"}
    /\ c.at = "result" => c.cmd = "decrypt"
    /\ c.at = "client" => c.cmd \in Loading /\ c.params \in Generations
    /\ c.at = "server" => c.cmd \in {"encrypt", "evaluate", "fhe-worker", "decrypt"}
    /\ c.at = "server" /\ c.cmd \in Loading =>
           c.params \in Generations /\ c.client \in Generations
    /\ c.at \in {"encrypt", "decrypt"} =>
           c.cmd = c.at /\ c.params \in Generations /\ c.client \in Generations
    /\ c.at = "process" => c.cmd # "demo"
    /\ c.at \in {"write", "decrypt_demo"} =>
           c.result \in Blobs /\ (c.cmd = "demo" => c.result.under = c.made)

\* A generation that is complete: nobody is going to write it any more.
Complete(g) ==
    g \in used /\ \A q \in Procs : SettingUp(q) => proc[q].made # g

LoadedKeys(c) ==
    /\ c.at \in {"client", "server"} /\ c.cmd \in Loading /\ c.settled =>
           Complete(c.params)
    /\ c.at = "server" /\ c.cmd \in Loading /\ c.settled /\ c.client # c.params =>
           keys["server"] # c.params
    /\ c.at \in Loading => c.client = c.params \/ c.params \in overlapped

\* The files a setup has behind it when it writes f.
Before(f) ==
    CASE f = "client"   -> {}
      [] f = "server"   -> {"client"}
      [] f = "operator" -> {"client", "server"}
      [] OTHER          -> {"client", "server", "operator"}

KeysAreUsed == \A f \in KeyFiles : Readable(keys[f]) => keys[f] \in used

LoneSetup ==
    \A p \in Procs : SettingUp(p) /\ proc[p].alone =>
        /\ \A q \in Procs \ {p} : ~SettingUp(q)
        /\ \A f \in Before(proc[p].file) : keys[f] = proc[p].made

SettledIsQuiet == ~unsettled => \A p \in Procs : ~SettingUp(p)

KeysInv ==
    /\ Types
    /\ KeysAreUsed
    /\ LoneSetup
    /\ SettledIsQuiet
    /\ SetupIsWhole
    /\ \A p \in Procs : CommandAtPlace(proc[p]) /\ LoadedKeys(proc[p])

OutcomeInv == EncryptedAsLabelled /\ SignedMeansOutcome /\ DecryptedIsOutcome

-----------------------------------------------------------------------------
Outputs == [ cmd : Commands \cup {None}, right : BOOLEAN,
             params : Generations \cup {None}, sound : BOOLEAN ]

LEMMA IdleTyped ==
    Idle \in Command /\ CommandAtPlace(Idle) /\ Idle.at = "idle"
BY DEF Idle, Command, CommandAtPlace, Places, InSetup, Loading

\* Initially all holds, there being nothing.
LEMMA InitInv == Init => KeysInv
<1> SUFFICES ASSUME Init PROVE KeysInv
    OBVIOUS
<1>1. Types
    BY IdleTyped DEF Init, Types, Silent
<1>2. KeysAreUsed /\ SetupIsWhole
    BY GenerationsAssumption DEF Init, KeysAreUsed, SetupIsWhole, Readable, KeyFiles
<1>3. \A p \in Procs : proc[p] = Idle
    BY DEF Init
<1>4. LoneSetup /\ SettledIsQuiet
    BY <1>3, IdleTyped DEF LoneSetup, SettledIsQuiet, SettingUp
<1>5. \A p \in Procs : CommandAtPlace(proc[p]) /\ LoadedKeys(proc[p])
    BY <1>3, IdleTyped DEF LoadedKeys, Loading
<1> QED
    BY <1>1, <1>2, <1>4, <1>5 DEF KeysInv

-----------------------------------------------------------------------------
(* A step by which one process goes on to a place outside setup, without   *)
(* touching the files of keys/, disturbs nothing that the others know.     *)
LEMMA QuietStep ==
    ASSUME KeysInv, NEW p \in Procs, NEW c \in Command,
           GoOn(p, c),
           UNCHANGED <<keys, used, unsettled>>,
           overlapped \subseteq overlapped', overlapped' \subseteq Generations,
           store' \subseteq Blobs, result' \in Blobs \cup {None},
           output' \in [Procs -> Outputs],
           c.at \notin InSetup, CommandAtPlace(c),
           c.at \in {"client", "server"} /\ c.cmd \in Loading /\ c.settled =>
               Complete(c.params),
           c.at = "server" /\ c.cmd \in Loading /\ c.settled
               /\ c.client # c.params => keys["server"] # c.params,
           c.at \in Loading => c.client = c.params \/ c.params \in overlapped'
    PROVE  KeysInv'
<1> USE DEF GoOn
<1>1. /\ proc'[p] = c
      /\ \A q \in Procs \ {p} : proc'[q] = proc[q]
    BY DEF KeysInv, Types
<1>2. Types'
    BY DEF KeysInv, Types, Outputs
<1>3. KeysAreUsed' /\ SetupIsWhole'
    BY DEF KeysInv, KeysAreUsed, SetupIsWhole, Readable
<1>4. /\ ~SettingUp(p)'
      /\ \A q \in Procs \ {p} : SettingUp(q)' = SettingUp(q)
    BY <1>1 DEF SettingUp, InSetup
<1>5. \A g : Complete(g) => Complete(g)'
    BY <1>1, <1>4 DEF Complete
<1>6. LoneSetup'
    BY <1>1, <1>4 DEF KeysInv, LoneSetup
<1>7. SettledIsQuiet'
    BY <1>4 DEF KeysInv, SettledIsQuiet
<1>8. ASSUME NEW q \in Procs PROVE CommandAtPlace(proc[q])' /\ LoadedKeys(proc[q])'
    <2>1. CASE q = p
        <3>1. CommandAtPlace(proc[q])'
            BY <1>1, <2>1 DEF CommandAtPlace
        <3>2. LoadedKeys(proc[q])'
            BY <1>1, <1>5, <2>1 DEF LoadedKeys
        <3> QED BY <3>1, <3>2
    <2>2. CASE q # p
        <3>1. CommandAtPlace(proc[q]) /\ LoadedKeys(proc[q]) /\ proc'[q] = proc[q]
            BY <1>1, <2>2 DEF KeysInv
        <3>2. CommandAtPlace(proc[q])'
            BY <3>1 DEF CommandAtPlace
        <3>3. LoadedKeys(proc[q])'
            BY <1>5, <3>1 DEF LoadedKeys
        <3> QED BY <3>2, <3>3
    <2> QED BY <2>1, <2>2
<1> QED
    BY <1>2, <1>3, <1>6, <1>7, <1>8 DEF KeysInv

\* In particular a command that ends, whatever it stored or printed.
LEMMA EndStep ==
    ASSUME KeysInv, NEW p \in Procs, End(p),
           UNCHANGED <<keys, used, unsettled, overlapped>>,
           store' \subseteq Blobs, result' \in Blobs \cup {None},
           output' \in [Procs -> Outputs]
    PROVE  KeysInv'
<1>1. Idle.at \notin {"client", "server"} \cup Loading \cup InSetup
    BY IdleTyped DEF Loading, InSetup
<1>2. overlapped' \subseteq Generations
    BY DEF KeysInv, Types
<1> QED
    BY <1>1, <1>2, IdleTyped, QuietStep DEF End

-----------------------------------------------------------------------------
(* setup: beginning, truncating and filling a file.                        *)
LEMMA StartSetupInv ==
    ASSUME KeysInv, NEW p \in Procs, NEW cmd \in {"setup", "demo"},
           StartSetup(p, cmd)
    PROVE  KeysInv'
<1>1. PICK g \in Generations \ used :
          /\ used' = used \cup {g}
          /\ proc' = [q \in Procs |->
                 IF q = p
                 THEN [Idle EXCEPT !.at = "truncate", !.cmd = cmd,
                                   !.file = "client", !.made = g,
                                   !.alone = \A r \in Procs : ~SettingUp(r)]
                 ELSE [proc[q] EXCEPT !.alone = @ /\ ~SettingUp(q)]]
    BY DEF StartSetup
<1>2. /\ UNCHANGED <<keys, store, result, overlapped>> /\ unsettled'
      /\ output' = [output EXCEPT ![p] = Silent]
    BY DEF StartSetup
<1>3. /\ proc'[p] \in Command
      /\ proc'[p].at = "truncate" /\ proc'[p].cmd = cmd
      /\ proc'[p].file = "client" /\ proc'[p].made = g
      /\ proc'[p].alone => \A r \in Procs : ~SettingUp(r)
      /\ g \in used' /\ g \in Generations /\ used \subseteq used'
    BY <1>1 DEF Idle, Command, KeyFiles, Places, Commands
<1>4. ASSUME NEW q \in Procs \ {p}
      PROVE  /\ proc'[q] \in Command
             /\ proc'[q].at = proc[q].at /\ proc'[q].cmd = proc[q].cmd
             /\ proc'[q].file = proc[q].file /\ proc'[q].made = proc[q].made
             /\ proc'[q].params = proc[q].params /\ proc'[q].client = proc[q].client
             /\ proc'[q].result = proc[q].result /\ proc'[q].settled = proc[q].settled
             /\ proc'[q].alone => ~SettingUp(q)
    <2>1. proc[q] \in Command /\ proc'[q] = [proc[q] EXCEPT !.alone = @ /\ ~SettingUp(q)]
        BY <1>1 DEF KeysInv, Types
    <2> QED BY <2>1 DEF Command
<1>5. Types'
    <2>1. proc' \in [Procs -> Command]
        BY <1>1, <1>3, <1>4
    <2>2. Silent \in Outputs
        BY DEF Silent, Outputs
    <2> QED BY <1>1, <1>2, <2>1, <2>2 DEF KeysInv, Types, Outputs
<1>6. KeysAreUsed' /\ SetupIsWhole' /\ SettledIsQuiet'
    BY <1>1, <1>2 DEF KeysInv, KeysAreUsed, SetupIsWhole, SettledIsQuiet, Readable
<1>7. LoneSetup'
    BY <1>3, <1>4 DEF KeysInv, LoneSetup, SettingUp, Before
<1>8. ASSUME NEW h, Complete(h) PROVE Complete(h)'
    <2>1. h # g /\ h \in used'
        BY <1>1, <1>8 DEF Complete
    <2> QED BY <1>3, <1>4, <1>8, <2>1 DEF Complete, SettingUp
<1>9. ASSUME NEW q \in Procs PROVE CommandAtPlace(proc[q])' /\ LoadedKeys(proc[q])'
    <2>1. CASE q = p
        <3>1. CommandAtPlace(proc[q])'
            BY <1>3, <2>1 DEF CommandAtPlace, InSetup, KeyFiles
        <3>2. LoadedKeys(proc[q])'
            BY <1>3, <2>1 DEF LoadedKeys, Loading
        <3> QED BY <3>1, <3>2
    <2>2. CASE q # p
        <3>1. CommandAtPlace(proc[q]) /\ LoadedKeys(proc[q])
            BY DEF KeysInv
        <3>2. CommandAtPlace(proc[q])'
            BY <1>3, <1>4, <2>2, <3>1 DEF CommandAtPlace
        <3>3. LoadedKeys(proc[q])'
            BY <1>2, <1>4, <1>8, <2>2, <3>1 DEF LoadedKeys
        <3> QED BY <3>2, <3>3
    <2> QED BY <2>1, <2>2
<1> QED
    BY <1>5, <1>6, <1>7, <1>9 DEF KeysInv

\* What a process setting up may rely on.
LEMMA SetterKnown ==
    ASSUME KeysInv, NEW p \in Procs, SettingUp(p)
    PROVE  /\ unsettled
           /\ proc[p] \in Command
           /\ proc[p].cmd \in {"setup", "demo"}
           /\ proc[p].file \in KeyFiles
           /\ proc[p].made \in used /\ proc[p].made \in Generations
           /\ \A q \in Procs \ {p} : SettingUp(q) => ~proc[q].alone
BY DEF KeysInv, Types, SettledIsQuiet, LoneSetup, CommandAtPlace, SettingUp, InSetup

LEMMA TruncateInv ==
    ASSUME KeysInv, NEW p \in Procs, Truncate(p) PROVE KeysInv'
<1>1. /\ UNCHANGED <<store, result, output, used, unsettled, overlapped>>
      /\ keys' = [keys EXCEPT ![proc[p].file] = Torn]
      /\ proc' = [proc EXCEPT ![p] = [proc[p] EXCEPT !.at = "fill"]]
      /\ SettingUp(p) /\ proc[p].at = "truncate"
    BY DEF Truncate, At, GoOn, SettingUp
<1>2. /\ unsettled /\ proc[p] \in Command
      /\ proc[p].cmd \in {"setup", "demo"} /\ proc[p].file \in KeyFiles
      /\ proc[p].made \in used /\ proc[p].made \in Generations
      /\ \A q \in Procs \ {p} : SettingUp(q) => ~proc[q].alone
    BY <1>1, SetterKnown
<1>3. /\ proc'[p] \in Command
      /\ proc'[p].at = "fill" /\ proc'[p].cmd = proc[p].cmd
      /\ proc'[p].file = proc[p].file /\ proc'[p].made = proc[p].made
      /\ proc'[p].alone = proc[p].alone
      /\ \A q \in Procs \ {p} : proc'[q] = proc[q]
      /\ used' = used /\ overlapped' = overlapped
    BY <1>1, <1>2 DEF Command, Places, KeysInv, Types
<1>4. /\ keys'[proc[p].file] = Torn
      /\ \A f \in KeyFiles \ {proc[p].file} : keys'[f] = keys[f]
    BY <1>1, <1>2 DEF KeysInv, Types
<1>5. Types'
    BY <1>1, <1>2, <1>3 DEF KeysInv, Types
<1>6. KeysAreUsed' /\ SetupIsWhole' /\ SettledIsQuiet'
    BY <1>1, <1>2, <1>4, GenerationsAssumption
    DEF KeysInv, KeysAreUsed, SetupIsWhole, SettledIsQuiet, Readable
<1>7. \A q \in Procs : SettingUp(q)' = SettingUp(q)
    BY <1>1, <1>3 DEF SettingUp
<1>8. LoneSetup'
    <2>1. \A f \in Before(proc[p].file) : f \in KeyFiles \ {proc[p].file}
        BY <1>2 DEF Before, KeyFiles
    <2> QED BY <1>1, <1>2, <1>3, <1>4, <1>7, <2>1 DEF KeysInv, LoneSetup
<1>9. \A h : Complete(h) => Complete(h)'
    BY <1>1, <1>3, <1>7 DEF Complete
<1>10. ASSUME NEW q \in Procs PROVE CommandAtPlace(proc[q])' /\ LoadedKeys(proc[q])'
    <2>1. CASE q = p
        <3>1. CommandAtPlace(proc[q])'
            BY <1>1, <1>2, <1>3, <2>1 DEF CommandAtPlace, InSetup
        <3>2. LoadedKeys(proc[q])'
            BY <1>3, <2>1 DEF LoadedKeys, Loading
        <3> QED BY <3>1, <3>2
    <2>2. CASE q # p
        <3>1. CommandAtPlace(proc[q]) /\ LoadedKeys(proc[q]) /\ proc'[q] = proc[q]
            BY <1>3, <2>2 DEF KeysInv
        <3>2. CommandAtPlace(proc[q])'
            BY <1>3, <3>1 DEF CommandAtPlace
        <3>3. proc[q].at = "server" /\ proc[q].cmd \in Loading =>
                  proc[q].params \in Generations
            BY <3>1 DEF CommandAtPlace
        <3>4. LoadedKeys(proc[q])'
            BY <1>3, <1>4, <1>9, <3>1, <3>3, GenerationsAssumption
            DEF LoadedKeys, KeyFiles
        <3> QED BY <3>2, <3>4
    <2> QED BY <2>1, <2>2
<1> QED
    BY <1>5, <1>6, <1>8, <1>10 DEF KeysInv

LEMMA FillInv ==
    ASSUME KeysInv, NEW p \in Procs, Fill(p) PROVE KeysInv'
<1> DEFINE c == proc[p]
           f == c.file
           g == c.made
           next == NextFile(f)
           last == next = "written"
           d == IF ~last THEN [c EXCEPT !.at = "truncate", !.file = next]
                ELSE IF c.cmd = "demo"
                     THEN [c EXCEPT !.at = "encrypt_demo", !.file = None]
                     ELSE Idle
<1>1. /\ UNCHANGED <<store, result, output, used, overlapped>>
      /\ keys' = [keys EXCEPT ![f] = g]
      /\ proc' = [proc EXCEPT ![p] = d]
      /\ unsettled' = IF last THEN unsettled /\ ~c.alone ELSE unsettled
      /\ SettingUp(p)
    BY Zenon DEF Fill, At, GoOn, End, SettingUp
<1>2. /\ unsettled /\ c \in Command
      /\ c.cmd \in {"setup", "demo"} /\ f \in KeyFiles
      /\ g \in used /\ g \in Generations
      /\ \A q \in Procs \ {p} : SettingUp(q) => ~proc[q].alone
    BY <1>1, SetterKnown
<1>3. /\ last => f = "params"
      /\ ~last => next \in KeyFiles /\ Before(next) = Before(f) \cup {f}
      /\ Before("params") = KeyFiles \ {"params"}
    BY <1>2 DEF NextFile, Before, KeyFiles
<1>4. /\ d \in Command
      /\ ~last => /\ d.at = "truncate" /\ d.file = next /\ d.made = g
                  /\ d.cmd = c.cmd /\ d.alone = c.alone
      /\ last => d = Idle \/ (d.at = "encrypt_demo" /\ d.cmd = "demo" /\ d.made = g)
    <2>1. CASE ~last
        <3>1. d = [c EXCEPT !.at = "truncate", !.file = next]
            BY <2>1
        <3> HIDE DEF d, next
        <3> QED BY <1>2, <1>3, <2>1, <3>1 DEF Command, Places
    <2>2. CASE last /\ c.cmd = "demo"
        <3>1. d = [c EXCEPT !.at = "encrypt_demo", !.file = None]
            BY <2>2
        <3> HIDE DEF d, next
        <3> QED BY <1>2, <2>2, <3>1 DEF Command, Places
    <2>3. CASE last /\ c.cmd # "demo"
        <3>1. d = Idle
            BY <2>3
        <3> HIDE DEF d, next
        <3> QED BY <2>3, <3>1, IdleTyped
    <2> QED BY <2>1, <2>2, <2>3
<1> HIDE DEF d, next
<1>5. /\ proc'[p] = d
      /\ \A q \in Procs \ {p} : proc'[q] = proc[q]
      /\ used' = used /\ overlapped' = overlapped
      /\ keys'[f] = g
      /\ \A h \in KeyFiles \ {f} : keys'[h] = keys[h]
    BY <1>1, <1>2 DEF KeysInv, Types
<1>6. Types'
    BY <1>1, <1>2, <1>4 DEF KeysInv, Types
<1>7. KeysAreUsed'
    BY <1>2, <1>5 DEF KeysInv, KeysAreUsed, Readable
<1>8. /\ SettingUp(p)' = ~last
      /\ \A q \in Procs \ {p} : SettingUp(q)' = SettingUp(q)
    BY <1>4, <1>5, IdleTyped DEF SettingUp
<1>9. c.alone => /\ \A q \in Procs \ {p} : ~SettingUp(q)
                 /\ \A h \in Before(f) : keys[h] = g
    BY <1>1 DEF KeysInv, LoneSetup
<1>10. \A h \in Before(f) : h \in KeyFiles \ {f}
    BY <1>2 DEF Before, KeyFiles
<1>11. SetupIsWhole' /\ SettledIsQuiet'
    <2>1. CASE last /\ c.alone
        <3>1. \A h \in KeyFiles : keys'[h] = g
            BY <1>3, <1>5, <1>9, <1>10, <2>1
        <3> QED BY <1>2, <1>8, <1>9, <2>1, <3>1 DEF SetupIsWhole, SettledIsQuiet
    <2>2. CASE ~(last /\ c.alone)
        <3>1. unsettled'
            BY <1>1, <1>2, <2>2
        <3> QED BY <3>1 DEF SetupIsWhole, SettledIsQuiet
    <2> QED BY <2>1, <2>2
<1>12. LoneSetup'
    <2> SUFFICES ASSUME NEW q \in Procs, SettingUp(q)', proc'[q].alone
                 PROVE  /\ \A r \in Procs \ {q} : ~SettingUp(r)'
                        /\ \A h \in Before(proc'[q].file) : keys'[h] = proc'[q].made
        BY Zenon DEF LoneSetup
    <2>1. q = p
        BY <1>2, <1>5, <1>8
    <2>2. ~last /\ c.alone /\ d.file = next /\ d.made = g
        BY <1>4, <1>5, <1>8, <2>1
    <2>3. \A r \in Procs \ {q} : ~SettingUp(r)'
        BY <1>8, <1>9, <2>1, <2>2
    <2>4. \A h \in Before(next) : keys'[h] = g
        BY <1>3, <1>5, <1>9, <1>10, <2>2
    <2> QED BY <1>5, <2>1, <2>2, <2>3, <2>4
<1>13. ASSUME NEW h, Complete(h) PROVE Complete(h)' /\ h # g
    <2>1. h \in used /\ \A q \in Procs : SettingUp(q) => proc[q].made # h
        BY <1>13 DEF Complete
    <2>2. h # g
        BY <1>1, <2>1
    <2>3. ASSUME NEW q \in Procs, SettingUp(q)' PROVE proc'[q].made # h
        <3>1. CASE q = p
            BY <1>4, <1>5, <1>8, <2>2, <2>3, <3>1
        <3>2. CASE q # p
            BY <1>5, <1>8, <2>1, <2>3, <3>2
        <3> QED BY <3>1, <3>2
    <2> QED BY <1>5, <2>1, <2>2, <2>3 DEF Complete
<1>14. ASSUME NEW q \in Procs PROVE CommandAtPlace(proc[q])' /\ LoadedKeys(proc[q])'
    <2>1. CASE q = p
        <3>1. CASE ~last
            <4>1. /\ proc'[p].at = "truncate" /\ proc'[p].cmd \in {"setup", "demo"}
                  /\ proc'[p].file \in KeyFiles /\ proc'[p].made \in used'
                  /\ proc'[p].made \in Generations
                BY <1>2, <1>3, <1>4, <1>5, <3>1
            <4> QED BY <2>1, <4>1 DEF CommandAtPlace, InSetup, LoadedKeys, Loading
        <3>2. CASE d = Idle
            <4>1. proc'[p] = Idle
                BY <1>5, <3>2
            <4> QED BY <2>1, <4>1, IdleTyped
                    DEF CommandAtPlace, LoadedKeys, Loading, InSetup
        <3>3. CASE d.at = "encrypt_demo" /\ d.cmd = "demo" /\ d.made = g
            <4>1. /\ proc'[p].at = "encrypt_demo" /\ proc'[p].cmd = "demo"
                  /\ proc'[p].made \in Generations
                BY <1>2, <1>5, <3>3
            <4> QED BY <2>1, <4>1 DEF CommandAtPlace, InSetup, LoadedKeys, Loading
        <3> QED BY <1>4, <3>1, <3>2, <3>3
    <2>2. CASE q # p
        <3>1. CommandAtPlace(proc[q]) /\ LoadedKeys(proc[q]) /\ proc'[q] = proc[q]
            BY <1>5, <2>2 DEF KeysInv
        <3>2. CommandAtPlace(proc[q])'
            BY <1>5, <3>1 DEF CommandAtPlace
        <3>3. LoadedKeys(proc[q])'
            BY <1>5, <1>13, <3>1 DEF LoadedKeys, KeyFiles
        <3> QED BY <3>2, <3>3
    <2> QED BY <2>1, <2>2
<1> QED
    BY <1>6, <1>7, <1>11, <1>12, <1>14 DEF KeysInv

-----------------------------------------------------------------------------
(* Reading keys.                                                           *)

\* What the invariant says of a command and of what it may read.
LEMMA Known ==
    ASSUME KeysInv, NEW p \in Procs
    PROVE  /\ proc[p] \in Command /\ CommandAtPlace(proc[p]) /\ LoadedKeys(proc[p])
           /\ store \subseteq Blobs /\ result \in Blobs \cup {None}
           /\ output \in [Procs -> Outputs]
           /\ used \subseteq Generations /\ overlapped \subseteq Generations
           /\ \A f \in KeyFiles : Readable(keys[f]) =>
                  /\ keys[f] \in Generations
                  /\ ~unsettled => Complete(keys[f])
                                   /\ \A e \in KeyFiles : keys[e] = keys[f]
BY DEF KeysInv, Types, Outputs, Readable, KeysAreUsed, SettledIsQuiet,
       SetupIsWhole, Complete

LEMMA ReadParamsInv ==
    ASSUME KeysInv, NEW p \in Procs, ReadParams(p) PROVE KeysInv'
<1> DEFINE c == proc[p]
           place == IF c.cmd = "evaluate" THEN "server" ELSE "client"
           d == [c EXCEPT !.params = keys["params"], !.at = place,
                          !.settled = Settled(p)]
<1>1. /\ UNCHANGED <<keys, store, result, output, used, unsettled, overlapped>>
      /\ c.at = "params"
      /\ (Readable(keys["params"]) /\ GoOn(p, d)) \/ End(p)
    BY DEF ReadParams, ReadInto, At
<1>2. CASE End(p)
    BY <1>1, <1>2, Known, EndStep
<1>3. CASE Readable(keys["params"]) /\ GoOn(p, d)
    <2>1. /\ c \in Command /\ c.cmd \in {"encrypt", "evaluate", "decrypt"}
          /\ keys["params"] \in Generations
          /\ ~unsettled => Complete(keys["params"])
        BY <1>1, <1>3, Known DEF CommandAtPlace, KeyFiles
    <2>2. /\ d \in Command /\ d.params = keys["params"] /\ d.at = place
          /\ d.cmd = c.cmd /\ d.settled = Settled(p)
        <3>1. place \in Places /\ Settled(p) \in BOOLEAN
            BY DEF Places, Settled
        <3> HIDE DEF place
        <3> QED BY <2>1, <3>1 DEF Command
    <2>3. d.settled /\ d.cmd \in Loading => ~unsettled
        BY <2>2 DEF Settled, Loads, Loading
    <2>4. place \in {"client", "server"}
          /\ (place = "client" <=> c.cmd \in Loading)
        BY <2>1 DEF Loading
    <2> HIDE DEF d, place
    <2>5. CommandAtPlace(d)
        BY <2>1, <2>2, <2>4 DEF CommandAtPlace, InSetup, Loading
    <2>6. d.at \notin InSetup \cup Loading
          /\ (d.at = "server" => d.cmd \notin Loading)
        BY <2>2, <2>4 DEF InSetup, Loading
    <2> QED BY <1>1, <1>3, <2>1, <2>2, <2>3, <2>5, <2>6, Known, QuietStep
<1> QED BY <1>1, <1>2, <1>3

LEMMA ReadClientInv ==
    ASSUME KeysInv, NEW p \in Procs, ReadClient(p) PROVE KeysInv'
<1> DEFINE c == proc[p]
           d == [c EXCEPT !.client = keys["client"], !.at = "server",
                          !.settled = Settled(p)]
<1>1. /\ UNCHANGED <<keys, store, result, output, used, unsettled, overlapped>>
      /\ c.at = "client"
      /\ (Readable(keys["client"]) /\ GoOn(p, d)) \/ End(p)
    BY DEF ReadClient, ReadInto, At
<1>2. CASE End(p)
    BY <1>1, <1>2, Known, EndStep
<1>3. CASE Readable(keys["client"]) /\ GoOn(p, d)
    <2>1. /\ c \in Command /\ c.cmd \in Loading /\ c.params \in Generations
          /\ keys["client"] \in Generations
          /\ ~unsettled => keys["server"] = keys["client"]
          /\ c.settled => Complete(c.params)
        BY <1>1, <1>3, Known DEF CommandAtPlace, KeyFiles, LoadedKeys
    <2>2. /\ d \in Command /\ d.client = keys["client"] /\ d.at = "server"
          /\ d.cmd = c.cmd /\ d.params = c.params /\ d.settled = Settled(p)
        <3>1. "server" \in Places /\ Settled(p) \in BOOLEAN
            BY DEF Places, Settled
        <3> QED BY <2>1, <3>1 DEF Command
    <2>3. d.settled => c.settled /\ ~unsettled
        BY <2>1, <2>2 DEF Settled, Loads, Loading
    <2> HIDE DEF d
    <2>4. CommandAtPlace(d)
        BY <2>1, <2>2 DEF CommandAtPlace, InSetup, Loading
    <2>5. d.at \notin InSetup \cup Loading
        BY <2>2 DEF InSetup, Loading
    <2> QED BY <1>1, <1>3, <2>1, <2>2, <2>3, <2>4, <2>5, Known, QuietStep
<1> QED BY <1>1, <1>2, <1>3

\* The commitment check, and the only step that counts a generation overlapped.
LEMMA ReadServerInv ==
    ASSUME KeysInv, NEW p \in Procs, ReadServer(p)
    PROVE  KeysInv' /\ overlapped \subseteq overlapped'
<1> DEFINE c == proc[p]
           d == [c EXCEPT !.server = keys["server"], !.settled = Settled(p),
                          !.at = IF Loads(p) THEN c.cmd ELSE "operator"]
<1>1. /\ UNCHANGED <<keys, store, result, output, used, unsettled>>
      /\ c.at = "server"
      /\ \/ /\ Readable(keys["server"]) /\ GoOn(p, d)
            /\ c.params # None => keys["server"] = c.params
            /\ overlapped' = IF Loads(p) /\ ~Settled(p)
                             THEN overlapped \cup {c.params} ELSE overlapped
         \/ End(p) /\ UNCHANGED overlapped
    BY DEF ReadServer, ServerKeyCommitment, At
<1>2. CASE End(p) /\ UNCHANGED overlapped
    BY <1>1, <1>2, Known, EndStep
<1>3. CASE /\ Readable(keys["server"]) /\ GoOn(p, d)
           /\ c.params # None => keys["server"] = c.params
           /\ overlapped' = IF Loads(p) /\ ~Settled(p)
                            THEN overlapped \cup {c.params} ELSE overlapped
    <2>1. /\ c \in Command
          /\ c.cmd \in {"encrypt", "evaluate", "fhe-worker", "decrypt"}
          /\ c.cmd \in Loading => c.params \in Generations /\ c.client \in Generations
          /\ keys["server"] \in Generations
          /\ Loads(p) <=> c.cmd \in Loading
        BY <1>1, <1>3, Known DEF CommandAtPlace, KeyFiles, Loads, Loading
    <2>2. c.cmd \in Loading /\ Settled(p) => c.client = c.params
        <3>1. c.cmd \in Loading => c.params # None
            BY <2>1, GenerationsAssumption
        <3> QED BY <1>1, <1>3, <2>1, <3>1, Known DEF LoadedKeys, Settled
    <2>3. /\ d \in Command /\ d.cmd = c.cmd
          /\ d.params = c.params /\ d.client = c.client
          /\ d.at = IF c.cmd \in Loading THEN c.cmd ELSE "operator"
        <3> DEFINE place == IF Loads(p) THEN c.cmd ELSE "operator"
        <3>1. place \in Places /\ Settled(p) \in BOOLEAN
              /\ place = IF c.cmd \in Loading THEN c.cmd ELSE "operator"
            BY <2>1 DEF Places, Settled, Loading
        <3> HIDE DEF place
        <3>2. d = [c EXCEPT !.server = keys["server"], !.settled = Settled(p),
                            !.at = place]
            BY DEF place
        <3> HIDE DEF d
        <3>3. d \in Command
            BY <2>1, <3>1, <3>2, ZenonT(60) DEF Command
        <3>4. d.at = place /\ d.cmd = c.cmd /\ d.params = c.params /\ d.client = c.client
            BY <2>1, <3>2 DEF Command
        <3> QED BY <3>1, <3>3, <3>4
    <2>4. c.cmd \in Loading => c.client = c.params \/ c.params \in overlapped'
        BY <1>3, <2>1, <2>2
    <2>5. overlapped \subseteq overlapped' /\ overlapped' \subseteq Generations
        BY <1>3, <2>1, Known
    <2> HIDE DEF d
    <2>6. CommandAtPlace(d)
        BY <2>1, <2>3 DEF CommandAtPlace, InSetup, Loading
    <2>7. d.at \notin InSetup \cup {"client", "server"}
          /\ (d.at \in Loading => d.cmd \in Loading)
        BY <2>1, <2>3 DEF InSetup, Loading
    <2> QED BY <1>1, <1>3, <2>3, <2>4, <2>5, <2>6, <2>7, Known, QuietStep
<1> QED BY <1>1, <1>2, <1>3

LEMMA ReadOperatorInv ==
    ASSUME KeysInv, NEW p \in Procs, ReadOperator(p) PROVE KeysInv'
<1> DEFINE c == proc[p]
           place == IF c.cmd = "demo" THEN "process_demo" ELSE "process"
           d == [c EXCEPT !.at = place, !.settled = Settled(p)]
<1>1. /\ UNCHANGED <<keys, store, result, output, used, unsettled, overlapped>>
      /\ c.at = "operator"
      /\ GoOn(p, d) \/ End(p)
    BY DEF ReadOperator, ReadInto, At
<1>2. CASE End(p)
    BY <1>1, <1>2, Known, EndStep
<1>3. CASE GoOn(p, d)
    <2>1. c \in Command /\ (c.cmd = "demo" => c.made \in Generations)
        BY <1>1, Known DEF CommandAtPlace
    <2>2. d \in Command /\ d.at = place /\ d.cmd = c.cmd /\ d.made = c.made
        <3>1. place \in Places /\ Settled(p) \in BOOLEAN
            BY DEF Places, Settled
        <3> HIDE DEF place
        <3> QED BY <2>1, <3>1 DEF Command
    <2>3. d.at \in {"process", "process_demo"} /\ (d.at = "process" <=> d.cmd # "demo")
        BY <2>2
    <2> HIDE DEF d, place
    <2>4. CommandAtPlace(d)
        BY <2>1, <2>2, <2>3 DEF CommandAtPlace, InSetup, Loading
    <2>5. d.at \notin InSetup \cup Loading \cup {"client", "server"}
        BY <2>3 DEF InSetup, Loading
    <2> QED BY <1>1, <1>3, <2>2, <2>4, <2>5, Known, QuietStep
<1> QED BY <1>1, <1>2, <1>3

-----------------------------------------------------------------------------
(* Beginning, ending and the steps with ciphertexts.  None of these looks  *)
(* at the files of keys/, and none goes on to read them except as the      *)
(* first read.                                                             *)
LEMMA StartInv ==
    ASSUME KeysInv, NEW p \in Procs, NEW cmd, NEW place, Start(p, cmd, place),
           \/ cmd \in {"encrypt", "evaluate"} /\ place = "params"
           \/ cmd = "fhe-worker" /\ place = "server"
           \/ cmd = "decrypt" /\ place = "result"
    PROVE  KeysInv'
<1> DEFINE d == [Idle EXCEPT !.at = place, !.cmd = cmd]
<1>1. GoOn(p, d) /\ UNCHANGED <<keys, store, result, used, unsettled, overlapped>>
    BY DEF Start
<1>2. output' \in [Procs -> Outputs]
    BY Known DEF Start, Silent, Outputs
<1>3. d \in Command /\ d.at = place /\ d.cmd = cmd
    BY DEF Idle, Command, Places, Commands
<1>4. /\ CommandAtPlace(d)
      /\ d.at \notin InSetup \cup Loading \cup {"client"}
      /\ d.cmd \in Loading => d.at # "server"
    BY <1>3 DEF CommandAtPlace, InSetup, Loading
<1> HIDE DEF d
<1> QED BY <1>1, <1>2, <1>3, <1>4, Known, QuietStep

\* Every blob a command stores is a well formed one.
LEMMA StoredBlob ==
    ASSUME KeysInv,
           NEW kind \in {"u64", "bool"}, NEW version \in KeyVersions,
           NEW params \in Generations, NEW under \in Generations \cup {Garbage},
           NEW history \in Histories
    PROVE  /\ Blob(kind, version, params, under, history) \in Blobs
           /\ store \cup {Blob(kind, version, params, under, history)} \subseteq Blobs
BY DEF KeysInv, Types, Blob, Blobs

LEMMA EncryptInv ==
    ASSUME KeysInv, NEW p \in Procs, Encrypt(p) PROVE KeysInv'
<1>1. proc[p].params \in Generations /\ proc[p].client \in Generations
    BY Known DEF Encrypt, At, CommandAtPlace
<1>2. store' \subseteq Blobs
    BY <1>1, StoredBlob, KeyVersionsAssumption DEF Encrypt, StoreU64, Histories
<1> QED BY <1>2, Known, EndStep DEF Encrypt

LEMMA EncryptDemoInv ==
    ASSUME KeysInv, NEW p \in Procs, EncryptDemo(p) PROVE KeysInv'
<1> DEFINE c == proc[p]
           d == [c EXCEPT !.at = "operator"]
<1>1. c \in Command /\ c.cmd = "demo" /\ c.made \in Generations
    BY Known DEF EncryptDemo, At, CommandAtPlace
<1>2. store' \subseteq Blobs
    BY <1>1, StoredBlob, KeyVersionsAssumption DEF EncryptDemo, StoreU64, Histories
<1>3. d \in Command /\ d.at = "operator" /\ d.cmd = "demo" /\ d.made = c.made
    BY <1>1 DEF Command, Places
<1>4. GoOn(p, d) /\ UNCHANGED <<keys, result, output, used, unsettled, overlapped>>
    BY DEF EncryptDemo
<1> HIDE DEF d
<1>5. CommandAtPlace(d)
    BY <1>1, <1>3 DEF CommandAtPlace, InSetup, Loading
<1> QED BY <1>2, <1>3, <1>4, <1>5, Known, QuietStep DEF InSetup, Loading

\* Both ways to sign a result.
LEMMA StoreAndSignInv ==
    ASSUME KeysInv, NEW p \in Procs, NEW request, NEW server \in Generations,
           StoreAndSign(p, request, server),
           request.params \in Generations, request.key_version \in KeyVersions,
           UNCHANGED <<keys, result, output, used, unsettled, overlapped>>,
           proc[p].cmd = "demo" =>
               /\ EvaluatePolicy(request.inputs, server) = proc[p].made
               /\ proc[p].made \in Generations
    PROVE  KeysInv'
<1> DEFINE c == proc[p]
           under == EvaluatePolicy(request.inputs, server)
           history == IF AsLabelled(request.inputs) THEN "sound" ELSE "unsound"
           b == ResultBlob(request, server)
           d == [c EXCEPT !.at = "write", !.result = b]
<1>1. under \in Generations \cup {Garbage} /\ history \in Histories
    BY DEF EvaluatePolicy, Histories
<1>2. b = Blob("bool", request.key_version, request.params, under, history)
    BY DEF ResultBlob
<1>3. b \in Blobs /\ b.under = under
    <2> HIDE DEF b, under, history
    <2>1. b \in Blobs
        BY <1>1, <1>2, StoredBlob
    <2> QED BY <1>2, <2>1 DEF Blob
<1>4. GoOn(p, d) /\ store' = store \cup {b}
    BY DEF StoreAndSign
<1> HIDE DEF b
<1>5. d \in Command /\ d.at = "write" /\ d.result = b /\ d.cmd = c.cmd
      /\ d.made = c.made
    BY <1>3, Known DEF Command, Places
<1> HIDE DEF d, under
<1>6. c.cmd = "demo" => under = c.made /\ c.made \in Generations
    BY DEF under
<1>7. CommandAtPlace(d)
    BY <1>3, <1>5, <1>6 DEF CommandAtPlace, InSetup, Loading
<1>8. d.at \notin InSetup \cup Loading \cup {"client", "server"}
    BY <1>5 DEF InSetup, Loading
<1>9. store' \subseteq Blobs
    BY <1>3, <1>4, Known
<1> QED BY <1>4, <1>5, <1>7, <1>8, <1>9, Known, QuietStep

LEMMA ProcessRequestInv ==
    ASSUME KeysInv, NEW p \in Procs, ProcessRequest(p) PROVE KeysInv'
<1>1. UNCHANGED <<keys, result, output, used, unsettled, overlapped>>
      /\ proc[p].cmd # "demo"
    BY Known DEF ProcessRequest, At, CommandAtPlace
<1>2. CASE End(p) /\ UNCHANGED store
    BY <1>1, <1>2, Known, EndStep
<1>3. CASE \E g \in used, v \in KeyVersions, balance, amount, limit \in store :
              LET request == [params |-> g, key_version |-> v,
                              inputs |-> {balance, amount, limit}]
              IN  /\ ProcessRequestAdmits(request, proc[p].server)
                  /\ StoreAndSign(p, request, proc[p].server)
    <2>1. PICK g \in used, v \in KeyVersions, balance \in store, amount \in store,
               limit \in store :
              LET request == [params |-> g, key_version |-> v,
                              inputs |-> {balance, amount, limit}]
              IN  /\ ProcessRequestAdmits(request, proc[p].server)
                  /\ StoreAndSign(p, request, proc[p].server)
        BY <1>3, Zenon
    <2> DEFINE request == [params |-> g, key_version |-> v,
                           inputs |-> {balance, amount, limit}]
    <2>2. request.params = g /\ request.key_version = v /\ g \in Generations
        BY Known
    <2>3. proc[p].server = g
        BY <2>1, <2>2 DEF ProcessRequestAdmits, ServerKeyCommitment
    <2>4. StoreAndSign(p, request, proc[p].server)
        BY <2>1
    <2> HIDE DEF request
    <2> QED BY <1>1, <2>2, <2>3, <2>4, StoreAndSignInv
<1> QED BY <1>2, <1>3, Zenon DEF ProcessRequest

\* A demo's own inputs are encrypted under the keys it has made.
LEMMA DemoOutcome ==
    ASSUME NEW g PROVE EvaluatePolicy(DemoRequest(g).inputs, g) = g
BY DEF EvaluatePolicy, DemoRequest, DemoInputs, Blob

LEMMA ProcessDemoInv ==
    ASSUME KeysInv, NEW p \in Procs, ProcessDemo(p) PROVE KeysInv'
<1>1. UNCHANGED <<keys, result, output, used, unsettled, overlapped>>
      /\ proc[p].cmd = "demo" /\ proc[p].made \in Generations
    BY Known DEF ProcessDemo, At, CommandAtPlace
<1>2. CASE End(p) /\ UNCHANGED store
    BY <1>1, <1>2, Known, EndStep
<1>3. CASE StoreAndSign(p, DemoRequest(proc[p].made), proc[p].made)
    <2>1. DemoRequest(proc[p].made).params \in Generations
          /\ DemoRequest(proc[p].made).key_version \in KeyVersions
        BY <1>1, KeyVersionsAssumption DEF DemoRequest
    <2> QED BY <1>1, <1>3, <2>1, DemoOutcome, StoreAndSignInv
<1> QED BY <1>2, <1>3 DEF ProcessDemo

LEMMA WriteResultInv ==
    ASSUME KeysInv, NEW p \in Procs, WriteResult(p) PROVE KeysInv'
<1> DEFINE c == proc[p]
           d == [c EXCEPT !.at = "decrypt_demo"]
<1>1. /\ UNCHANGED <<keys, store, output, used, unsettled, overlapped>>
      /\ c.at = "write" /\ result' = c.result
      /\ (c.cmd = "demo" /\ GoOn(p, d)) \/ End(p)
    BY DEF WriteResult, At
<1>2. /\ c \in Command /\ c.result \in Blobs
      /\ c.cmd = "demo" => c.result.under = c.made /\ c.made \in Generations
    BY <1>1, Known DEF CommandAtPlace
<1>3. CASE End(p)
    BY <1>1, <1>2, <1>3, Known, EndStep
<1>4. CASE c.cmd = "demo" /\ GoOn(p, d)
    <2>1. d \in Command /\ d.at = "decrypt_demo" /\ d.cmd = "demo"
          /\ d.result = c.result /\ d.made = c.made
        BY <1>2, <1>4 DEF Command, Places
    <2> HIDE DEF d
    <2>2. CommandAtPlace(d)
        BY <1>2, <1>4, <2>1 DEF CommandAtPlace, InSetup, Loading
    <2>3. d.at \notin InSetup \cup Loading \cup {"client", "server"}
        BY <2>1 DEF InSetup, Loading
    <2> QED BY <1>1, <1>2, <1>4, <2>1, <2>2, <2>3, Known, QuietStep
<1> QED BY <1>1, <1>3, <1>4

LEMMA ReadResultInv ==
    ASSUME KeysInv, NEW p \in Procs, ReadResult(p) PROVE KeysInv'
<1> DEFINE c == proc[p]
           d == [c EXCEPT !.result = result, !.at = "params"]
<1>1. /\ UNCHANGED <<keys, store, result, output, used, unsettled, overlapped>>
      /\ c.at = "result"
      /\ GoOn(p, d) \/ End(p)
    BY DEF ReadResult, At
<1>2. CASE End(p)
    BY <1>1, <1>2, Known, EndStep
<1>3. CASE GoOn(p, d)
    <2>1. c \in Command /\ c.cmd = "decrypt"
        BY <1>1, Known DEF CommandAtPlace
    <2>2. d \in Command /\ d.at = "params" /\ d.cmd = "decrypt"
        <3>1. result \in Blobs \cup {None} /\ "params" \in Places
            BY Known DEF Places
        <3> QED BY <2>1, <3>1 DEF Command
    <2> HIDE DEF d
    <2>3. CommandAtPlace(d) /\ d.at \notin InSetup \cup Loading \cup {"client", "server"}
        BY <2>2 DEF CommandAtPlace, InSetup, Loading
    <2> QED BY <1>1, <1>3, <2>2, <2>3, Known, QuietStep
<1> QED BY <1>1, <1>2, <1>3

\* What is printed is well formed, and is what the two commands below print.
LEMMA Printed ==
    ASSUME KeysInv, NEW p \in Procs, NEW client, NEW params \in Generations,
           PrintOutcome(p, client, params)
    PROVE  /\ output' \in [Procs -> Outputs]
           /\ output'[p].cmd = proc[p].cmd
           /\ output'[p].right = (proc[p].result.under = client)
           /\ output'[p].params = params
           /\ output'[p].sound = (proc[p].result.history = "sound")
           /\ \A q \in Procs \ {p} : output'[q] = output[q]
<1> DEFINE o == [cmd |-> proc[p].cmd, right |-> proc[p].result.under = client,
                 params |-> params, sound |-> proc[p].result.history = "sound"]
<1>1. o \in Outputs /\ o.cmd = proc[p].cmd /\ o.params = params
      /\ o.sound = (proc[p].result.history = "sound")
      /\ o.right = (proc[p].result.under = client)
    BY Known DEF Command, Outputs
<1>2. output' = [output EXCEPT ![p] = o]
    BY DEF PrintOutcome
<1> HIDE DEF o
<1> QED BY <1>1, <1>2, Known

LEMMA DecryptInv ==
    ASSUME KeysInv, NEW p \in Procs, Decrypt(p) PROVE KeysInv'
<1>1. proc[p].params \in Generations
    BY Known DEF Decrypt, At, CommandAtPlace
<1>2. output' \in [Procs -> Outputs]
    BY <1>1, Known, Printed DEF Decrypt
<1> QED BY <1>2, Known, EndStep DEF Decrypt

LEMMA DecryptDemoInv ==
    ASSUME KeysInv, NEW p \in Procs, DecryptDemo(p) PROVE KeysInv'
<1>1. proc[p].made \in Generations
    BY Known DEF DecryptDemo, At, CommandAtPlace
<1>2. output' \in [Procs -> Outputs]
    BY <1>1, Known, Printed DEF DecryptDemo
<1> QED BY <1>2, Known, EndStep DEF DecryptDemo

\* Whatever somebody else stores, the keys are what they were.
LEMMA StoreElsewhereInv ==
    ASSUME KeysInv, NEW version \in KeyVersions, NEW params \in used,
           NEW under \in used \cup {Garbage}, StoreElsewhere(version, params, under)
    PROVE  KeysInv'
<1>1. store' \subseteq Blobs
    <2>1. params \in Generations /\ under \in Generations \cup {Garbage}
        BY DEF KeysInv, Types
    <2> QED BY <2>1, StoredBlob DEF StoreElsewhere, Histories
<1>2. UNCHANGED <<keys, result, proc, output, used, unsettled, overlapped>>
    BY DEF StoreElsewhere
<1> QED BY <1>1, <1>2 DEF KeysInv, Types, KeysAreUsed, LoneSetup, SettledIsQuiet,
           SetupIsWhole, CommandAtPlace, LoadedKeys, Complete, SettingUp, Readable

-----------------------------------------------------------------------------
LEMMA NextInv == KeysInv /\ [Next]_vars => KeysInv'
<1> SUFFICES ASSUME KeysInv, [Next]_vars PROVE KeysInv'
    OBVIOUS
<1>1. ASSUME NEW p \in Procs, Begin(p) PROVE KeysInv'
    BY <1>1, StartSetupInv, StartInv DEF Begin
<1>2. ASSUME NEW p \in Procs, Step(p) PROVE KeysInv'
    BY <1>2, TruncateInv, FillInv, ReadParamsInv, ReadClientInv, ReadServerInv,
       ReadOperatorInv, EncryptInv, ProcessRequestInv, WriteResultInv,
       ReadResultInv, DecryptInv, EncryptDemoInv, ProcessDemoInv, DecryptDemoInv
    DEF Step
<1>3. ASSUME NEW p \in Procs, Stop(p) PROVE KeysInv'
    BY <1>3, Known, EndStep DEF Stop
<1>4. CASE UNCHANGED vars
    BY <1>4 DEF vars, KeysInv, Types, KeysAreUsed, LoneSetup, SettledIsQuiet,
                SetupIsWhole, CommandAtPlace, LoadedKeys, Complete, SettingUp, Readable
<1> QED BY <1>1, <1>2, <1>3, <1>4, StoreElsewhereInv DEF Next

-----------------------------------------------------------------------------
(* The ciphertexts: what is made here means what its label says, and so    *)
(* does what is printed.                                                   *)
LabelTrue(b) ==
    /\ b.history = "here" => b.params \in overlapped \/ b.under = b.params
    /\ b.history = "sound" => b.under = b.params

LEMMA LabelsTrue ==
    (EncryptedAsLabelled /\ SignedMeansOutcome) <=> \A b \in store : LabelTrue(b)
BY DEF EncryptedAsLabelled, SignedMeansOutcome, LabelTrue

LEMMA OutcomeInit == Init => OutcomeInv
BY GenerationsAssumption
DEF Init, OutcomeInv, EncryptedAsLabelled, SignedMeansOutcome, DecryptedIsOutcome, Silent

\* A step that stores at most one blob, whose label is true, keeps both.
LEMMA StoreStep ==
    ASSUME OutcomeInv, NEW b, LabelTrue(b)',
           store' \subseteq store \cup {b}, overlapped \subseteq overlapped'
    PROVE  (EncryptedAsLabelled /\ SignedMeansOutcome)'
<1>1. \A e \in store : LabelTrue(e)
    BY LabelsTrue DEF OutcomeInv
<1>2. \A e \in store' : LabelTrue(e)'
    BY <1>1 DEF LabelTrue
<1>3. (EncryptedAsLabelled /\ SignedMeansOutcome)' <=> \A e \in store' : LabelTrue(e)'
    BY DEF EncryptedAsLabelled, SignedMeansOutcome, LabelTrue
<1> QED BY <1>2, <1>3

\* A step that stores nothing.
LEMMA NoStoreStep ==
    ASSUME OutcomeInv, UNCHANGED store, overlapped \subseteq overlapped'
    PROVE  (EncryptedAsLabelled /\ SignedMeansOutcome)'
BY DEF OutcomeInv, EncryptedAsLabelled, SignedMeansOutcome

\* A step that prints nothing, or clears what was printed.
LEMMA NoOutputStep ==
    ASSUME OutcomeInv, UNCHANGED output, overlapped \subseteq overlapped'
    PROVE  DecryptedIsOutcome'
BY DEF OutcomeInv, DecryptedIsOutcome

LEMMA EncryptOutcome ==
    ASSUME KeysInv, KeysInv', OutcomeInv, NEW p \in Procs,
           Encrypt(p) \/ EncryptDemo(p)
    PROVE  OutcomeInv'
<1>1. PICK g, k : /\ store' = store \cup {Blob("u64", LocalKeyVersion, g, k, "here")}
                  /\ k = g \/ g \in overlapped
    <2>1. CASE Encrypt(p)
        BY <2>1, Known DEF Encrypt, At, StoreU64, LoadedKeys, Loading
    <2>2. CASE EncryptDemo(p)
        BY <2>2 DEF EncryptDemo, StoreU64
    <2> QED BY <2>1, <2>2
<1>2. UNCHANGED <<output, overlapped>>
    BY DEF Encrypt, EncryptDemo
<1>3. LabelTrue(Blob("u64", LocalKeyVersion, g, k, "here"))'
    BY <1>1, <1>2 DEF LabelTrue, Blob
<1> QED BY <1>1, <1>2, <1>3, StoreStep, NoOutputStep DEF OutcomeInv

\* What process_request() signs: the inputs are labelled with the generation
\* the request commits to, and the server key is that generation's.
LEMMA ProcessOutcome ==
    ASSUME KeysInv, KeysInv', OutcomeInv, NEW p \in Procs, ProcessRequest(p)
    PROVE  OutcomeInv'
<1>1. UNCHANGED <<output, overlapped>>
    BY DEF ProcessRequest
<1>2. CASE UNCHANGED store
    BY <1>1, <1>2, NoStoreStep, NoOutputStep DEF OutcomeInv
<1>3. CASE \E g \in used, v \in KeyVersions, balance, amount, limit \in store :
              LET request == [params |-> g, key_version |-> v,
                              inputs |-> {balance, amount, limit}]
              IN  /\ ProcessRequestAdmits(request, proc[p].server)
                  /\ StoreAndSign(p, request, proc[p].server)
    <2>1. PICK g \in used, v \in KeyVersions, balance \in store, amount \in store,
               limit \in store :
              LET request == [params |-> g, key_version |-> v,
                              inputs |-> {balance, amount, limit}]
              IN  /\ ProcessRequestAdmits(request, proc[p].server)
                  /\ StoreAndSign(p, request, proc[p].server)
        BY <1>3, Zenon
    <2> DEFINE request == [params |-> g, key_version |-> v,
                           inputs |-> {balance, amount, limit}]
    <2>0. PICK b : b = ResultBlob(request, proc[p].server)
        OBVIOUS
    <2>2. /\ proc[p].server = g
          /\ \A e \in request.inputs : e \in store /\ e.params = g
        BY <2>1 DEF ProcessRequestAdmits, ServerKeyCommitment, LoadU64, UnwrapBlob
    <2>3. store' = store \cup {b}
        BY <2>0, <2>1 DEF StoreAndSign
    <2>4. /\ b.params = g /\ b.under = EvaluatePolicy(request.inputs, g)
          /\ b.history = IF AsLabelled(request.inputs) THEN "sound" ELSE "unsound"
        BY <2>0, <2>2 DEF ResultBlob, Blob
    <2>5. AsLabelled(request.inputs) => EvaluatePolicy(request.inputs, g) = g
        <3> HIDE DEF request
        <3> QED BY <2>2 DEF AsLabelled, EvaluatePolicy
    <2>6. LabelTrue(b)'
        <3> HIDE DEF request
        <3> QED BY <2>4, <2>5 DEF LabelTrue
    <2> QED BY <1>1, <2>3, <2>6, StoreStep, NoOutputStep DEF OutcomeInv
<1> QED BY <1>2, <1>3, Zenon DEF ProcessRequest

LEMMA ProcessDemoOutcome ==
    ASSUME KeysInv, KeysInv', OutcomeInv, NEW p \in Procs, ProcessDemo(p)
    PROVE  OutcomeInv'
<1> DEFINE g == proc[p].made
<1>0. PICK b : b = ResultBlob(DemoRequest(g), g)
    OBVIOUS
<1>1. UNCHANGED <<output, overlapped>> /\ store' \subseteq store \cup {b}
    BY <1>0 DEF ProcessDemo, StoreAndSign
<1>2. b.params = g /\ b.under = g
    BY <1>0, DemoOutcome DEF ResultBlob, Blob, DemoRequest
<1>3. LabelTrue(b)'
    BY <1>2 DEF LabelTrue
<1> QED BY <1>1, <1>3, StoreStep, NoOutputStep DEF OutcomeInv

\* What decrypt prints, with keys it may have read long before.
LEMMA DecryptOutcome ==
    ASSUME KeysInv, OutcomeInv, NEW p \in Procs, Decrypt(p)
    PROVE  OutcomeInv'
<1> DEFINE c == proc[p]
<1>1. UNCHANGED <<store, overlapped>>
    BY DEF Decrypt
<1>2. /\ c.cmd = "decrypt" /\ c.params \in Generations
      /\ c.client = c.params \/ c.params \in overlapped
    BY Known DEF Decrypt, At, CommandAtPlace, LoadedKeys, Loading
<1>3. CASE UNCHANGED output
    BY <1>1, <1>3, NoStoreStep, NoOutputStep DEF OutcomeInv
<1>4. CASE LoadBool(c.result, LocalKeyVersion, c.params)
           /\ PrintOutcome(p, c.client, c.params)
    <2>1. c.result.history = "sound" =>
              c.result.under = c.params \/ c.params \in overlapped
        BY <1>4, LabelsTrue DEF OutcomeInv, LoadBool, UnwrapBlob, LabelTrue
    <2>2. /\ output'[p].cmd = "decrypt" /\ output'[p].params = c.params
          /\ output'[p].sound = (c.result.history = "sound")
          /\ output'[p].right = (c.result.under = c.client)
          /\ \A q \in Procs \ {p} : output'[q] = output[q]
        BY <1>2, <1>4, Printed
    <2>3. DecryptedIsOutcome'
        BY <1>1, <1>2, <2>1, <2>2 DEF OutcomeInv, DecryptedIsOutcome
    <2> QED BY <1>1, <2>3, NoStoreStep DEF OutcomeInv
<1> QED BY <1>3, <1>4 DEF Decrypt

LEMMA DecryptDemoOutcome ==
    ASSUME KeysInv, OutcomeInv, NEW p \in Procs, DecryptDemo(p)
    PROVE  OutcomeInv'
<1> DEFINE c == proc[p]
<1>1. UNCHANGED <<store, overlapped>>
    BY DEF DecryptDemo
<1>2. c.cmd = "demo" /\ c.made \in Generations /\ c.result.under = c.made
    BY Known DEF DecryptDemo, At, CommandAtPlace
<1>3. CASE UNCHANGED output
    BY <1>1, <1>3, NoStoreStep, NoOutputStep DEF OutcomeInv
<1>4. CASE PrintOutcome(p, c.made, c.made)
    <2>1. /\ output'[p].cmd = "demo" /\ output'[p].right
          /\ \A q \in Procs \ {p} : output'[q] = output[q]
        BY <1>2, <1>4, Printed
    <2>2. DecryptedIsOutcome'
        BY <1>1, <2>1 DEF OutcomeInv, DecryptedIsOutcome
    <2> QED BY <1>1, <2>2, NoStoreStep DEF OutcomeInv
<1> QED BY <1>3, <1>4 DEF DecryptDemo

\* Starting a command forgets what the process printed before.
LEMMA StartOutcome ==
    ASSUME KeysInv, OutcomeInv, NEW p \in Procs, NEW cmd, NEW place,
           Start(p, cmd, place)
    PROVE  OutcomeInv'
<1>1. /\ UNCHANGED <<store, overlapped>>
      /\ output'[p] = Silent
      /\ \A q \in Procs \ {p} : output'[q] = output[q]
    BY Known DEF Start
<1>2. Silent.right
    BY DEF Silent
<1>3. DecryptedIsOutcome'
    BY <1>1, <1>2 DEF OutcomeInv, DecryptedIsOutcome
<1> QED BY <1>1, <1>3, NoStoreStep DEF OutcomeInv

LEMMA StoreElsewhereOutcome ==
    ASSUME OutcomeInv, NEW version, NEW params, NEW under,
           StoreElsewhere(version, params, under)
    PROVE  OutcomeInv'
<1> DEFINE b == Blob("u64", version, params, under, "elsewhere")
<1>1. UNCHANGED <<output, overlapped>> /\ store' = store \cup {b}
    BY DEF StoreElsewhere
<1>2. LabelTrue(b)'
    BY DEF LabelTrue, Blob
<1> HIDE DEF b
<1> QED BY <1>1, <1>2, StoreStep, NoOutputStep DEF OutcomeInv

LEMMA OutcomeNext == KeysInv /\ OutcomeInv /\ [Next]_vars => OutcomeInv'
<1> SUFFICES ASSUME KeysInv, OutcomeInv, [Next]_vars PROVE OutcomeInv'
    OBVIOUS
<1>1. KeysInv'
    BY NextInv
<1>2. ASSUME UNCHANGED <<store, output>>, overlapped \subseteq overlapped'
      PROVE  OutcomeInv'
    BY <1>2, NoStoreStep, NoOutputStep DEF OutcomeInv
<1>3. ASSUME NEW p \in Procs, Begin(p) PROVE OutcomeInv'
    <2>1. ASSUME NEW cmd, StartSetup(p, cmd) PROVE OutcomeInv'
        <3>1. /\ UNCHANGED <<store, overlapped>> /\ Silent.right
              /\ output'[p] = Silent
              /\ \A q \in Procs \ {p} : output'[q] = output[q]
            BY <2>1, Known DEF StartSetup, Silent
        <3>2. DecryptedIsOutcome'
            BY <3>1 DEF OutcomeInv, DecryptedIsOutcome
        <3> QED BY <3>1, <3>2, NoStoreStep DEF OutcomeInv
    <2> QED BY <1>3, <2>1, StartOutcome DEF Begin
<1>4. ASSUME NEW p \in Procs, Step(p) PROVE OutcomeInv'
    <2>1. CASE Truncate(p) \/ Fill(p)
        BY <1>2, <2>1 DEF Truncate, Fill
    <2>2. CASE ReadParams(p) \/ ReadClient(p) \/ ReadOperator(p)
        BY <1>2, <2>2 DEF ReadParams, ReadClient, ReadOperator, ReadInto
    <2>3. CASE ReadServer(p)
        <3>1. UNCHANGED <<store, output>>
            BY <2>3 DEF ReadServer
        <3> QED BY <1>2, <2>3, <3>1, ReadServerInv
    <2>4. CASE WriteResult(p) \/ ReadResult(p)
        BY <1>2, <2>4 DEF WriteResult, ReadResult
    <2> QED BY <1>1, <1>4, <2>1, <2>2, <2>3, <2>4, EncryptOutcome, ProcessOutcome,
               ProcessDemoOutcome, DecryptOutcome, DecryptDemoOutcome DEF Step
<1>5. ASSUME NEW p \in Procs, Stop(p) PROVE OutcomeInv'
    BY <1>2, <1>5 DEF Stop
<1>6. CASE UNCHANGED vars
    BY <1>2, <1>6 DEF vars
<1> QED BY <1>3, <1>4, <1>5, <1>6, StoreElsewhereOutcome DEF Next

-----------------------------------------------------------------------------
LEMMA KeysInvariant == Spec => []KeysInv
<1>1. Init => KeysInv
    BY InitInv
<1>2. KeysInv /\ [Next]_vars => KeysInv'
    BY NextInv
<1> QED BY <1>1, <1>2, PTL DEF Spec

(***************************************************************************)
(* Types, and that a setup that has not written params.json yet has a next *)
(* file to write.                                                          *)
(***************************************************************************)
THEOREM KeysTypeCorrect == Spec => []TypeOK
<1>1. KeysInv => TypeOK
    <2> SUFFICES ASSUME KeysInv PROVE TypeOK
        OBVIOUS
    <2>1. ASSUME NEW p \in Procs
          PROVE  /\ proc[p].at \in Places
                 /\ SettingUp(p) => proc[p].file \in KeyFiles /\ proc[p].made \in used
        BY Known, SetterKnown DEF Command
    <2> QED BY <2>1 DEF KeysInv, Types, TypeOK
<1> QED BY <1>1, KeysInvariant, PTL

(***************************************************************************)
(* setup(): four files of one generation once a setup with no other beside *)
(* it has ended, however many were killed half way before it.              *)
(***************************************************************************)
THEOREM SetupWhole == Spec => []SetupIsWhole
<1>1. KeysInv => SetupIsWhole
    BY DEF KeysInv
<1> QED BY <1>1, KeysInvariant, PTL

LEMMA OutcomeInvariant == Spec => []OutcomeInv
<1>1. Init => OutcomeInv
    BY OutcomeInit
<1>2. KeysInv /\ OutcomeInv /\ [Next]_vars => OutcomeInv'
    BY OutcomeNext
<1> QED BY <1>1, <1>2, KeysInvariant, PTL DEF Spec

(***************************************************************************)
(* load_material() and store_u64(): what encrypt and demo store is         *)
(* encrypted under the generation its label names, except with keys one of *)
(* whose reads met a setup that was under way or left unfinished.          *)
(***************************************************************************)
THEOREM EncryptedLabelled == Spec => []EncryptedAsLabelled
<1>1. OutcomeInv => EncryptedAsLabelled
    BY DEF OutcomeInv
<1> QED BY <1>1, OutcomeInvariant, PTL

(***************************************************************************)
(* process_request(): whoever made the operands and named them, and with   *)
(* whatever files the worker's key was read from, also amid unfinished     *)
(* setups: if each operand is encrypted under the key its own label names, *)
(* what is signed is the outcome of the policy under the keys the request  *)
(* commits to.  Of mislabelled operands nothing is claimed.                *)
(***************************************************************************)
THEOREM SignedOutcome == Spec => []SignedMeansOutcome
<1>1. OutcomeInv => SignedMeansOutcome
    BY DEF OutcomeInv
<1> QED BY <1>1, OutcomeInvariant, PTL

(***************************************************************************)
(* decrypt() and run_demo(): what is printed is the outcome of the policy, *)
(* except for a decrypt whose keys were read amid an unfinished setup, or  *)
(* whose result was made from mislabelled operands.                        *)
(***************************************************************************)
THEOREM DecryptedOutcome == Spec => []DecryptedIsOutcome
<1>1. OutcomeInv => DecryptedIsOutcome
    BY DEF OutcomeInv
<1> QED BY <1>1, OutcomeInvariant, PTL

================================================================================
