---------------------------- MODULE Provisioning ----------------------------
(***************************************************************************)
(* The commands that set a node up: src/internal/commands/netkey.go,       *)
(* anchor.go, auth.go, ble_security.go, wifi.go, rollcall.go, reboot.go,   *)
(* sleep.go, pair.go and ota.go, and the settings of Settings.tla.         *)
(*                                                                         *)
(* Each process on the operator's machine runs one command, call after     *)
(* call, against the same node and the same two files.  Nothing is locked: *)
(* what a process looked at may have changed when it acts on it.  A call   *)
(* that fails may have reached the node.  A process may be killed at any   *)
(* point, also between the truncation and the write of os.WriteFile.       *)
(*                                                                         *)
(* Keys, seeds and passkeys are model values; a fingerprint stands for its *)
(* key.  tokens.json is the set of devices that have an entry, {Torn} if   *)
(* it cannot be parsed.  The flag "bad" says that a key, a passkey, an      *)
(* SSID or a number was given that does not pass the checks made here.     *)
(***************************************************************************)
EXTENDS Settings, FiniteSets

CONSTANTS
    Procs,     \* processes, one command each
    Keys,      \* network keys, anchor seeds and passkeys
    Devices,   \* devices that may have an entry in tokens.json
    Starts,    \* what the processes run, and on what node and files
    Age,       \* uptime of a node that has run for a while
    MaxPolls   \* bound: checks of an OTA wait before its deadline

Commands == {"generate", "provision", "create", "anchor", "enroll", "enable", "disable",
             "passkey", "clear", "pair", "ota", "import", "wifi", "rollcall", "reboot", "sleep"}
                \cup Settings
Flags == {"force", "json", "save", "wait", "tcp", "reboot", "bad"}
None == "none"
Torn == "torn"

\* A device is named to pair, a key or a seed to the others; a setting that is given
\* is no slot of a channel: those are picked by add and remove.
IsJob(j) ==
    /\ j.cmd \in Commands /\ j.arg \in (IF j.cmd = "pair" THEN Devices ELSE Keys)
    /\ j.flags \subseteq Flags
    /\ \/ DOMAIN j.given \subseteq Names \ Slots
       \/ DOMAIN j.given \in {{"add"}, {"remove"}, {"tone"}}
    /\ \A s \in DOMAIN j.given : j.given[s] \in Values
Node == [key : Keys \cup {None}, anchor : Keys \cup {None}, endorsed : Keys \cup {None},
         token : BOOLEAN, passkey : Keys \cup {None}, display : BOOLEAN,
         wifi : Keys \cup {None}, calling : BOOLEAN, set : [Names -> Values]]

ASSUME ProvisioningAssumption ==
    /\ {None, Torn, "unknown"} \cap (Keys \cup Devices) = {}
    /\ \A start \in Starts :
         /\ \A p \in Procs : IsJob(start.job[p])
         /\ start.node \in Node /\ start.seed \in Keys \cup {None} /\ start.tokens \subseteq Devices
    /\ Age \in Nat /\ Age > 6
    /\ MaxPolls \in Nat

VARIABLES
    job,     \* per process: its command
    at,      \* per process: the call it is about to make, or how it ended
    seen,    \* per process: the key or seed it read and decides by
    read,    \* per process: the entries of tokens.json it is to write
    base,    \* per process: baselineUptime of its OTA
    gone,    \* processes whose OTA wait sawDisconnect
    node,    \* the node: key, anchor, endorsed, token (is set), passkey, display
    up,      \* the node answers
    uptime,  \* its uptime in seconds
    boots,   \* how often it has restarted
    due,     \* it is to restart: for a firmware, a command or after a sleep
    seed,    \* anchor.seed: a seed, None, or Torn
    tokens,  \* tokens.json
    polls,   \* per process: checks of its OTA wait so far
    took,    \* history variable: processes whose change the node accepted
    lost,    \* history variable: processes a call of which failed with the node up
    since,   \* history variable, per process: boots when its OTA began
    saved,   \* history variable: <<"seed", s>> and <<"tokens", d>> reported as saved
    excused  \* history variable: files a kill, a failed read or write, or a second
             \* writer may have spoiled

memory == <<seen, read, base, gone, polls>>
procs == <<job, at, memory>>
device == <<node, up, uptime, boots, due>>
files == <<seed, tokens>>
history == <<took, lost, since, saved, excused>>
vars == <<procs, device, files, history>>

Ends == {"ok", "error", "refused", "killed"}
Steps == {"input", "reboot", "look", "change", "confirm", "stat", "truncate", "write", "load", "identity",
          "baseline", "request", "poll", "uptime", "reach"}
Files == {"seed", "tokens"}

TypeOK ==
    /\ \A p \in Procs : IsJob(job[p])
    /\ at \in [Procs -> Steps \cup Ends]
    /\ seen \in [Procs -> Keys \cup {None, "unknown"}] /\ read \in [Procs -> SUBSET Devices]
    /\ base \in [Procs -> {0, 1, Age}] /\ gone \subseteq Procs /\ polls \in [Procs -> 0..MaxPolls]
    /\ node \in Node
    /\ up \in BOOLEAN /\ due \in BOOLEAN /\ uptime \in {1, Age} /\ boots \in Nat
    /\ seed \in Keys \cup {None, Torn}
    /\ tokens \subseteq Devices \/ tokens = {Torn}
    /\ took \subseteq Procs /\ lost \subseteq Procs /\ since \in [Procs -> Nat]
    /\ saved \subseteq Files \X (Keys \cup Devices) /\ excused \subseteq Files

First(j) ==
    CASE j.cmd \in {"provision", "passkey", "import", "wifi", "sleep"} \cup Settings -> "input"
      [] j.cmd \in {"generate", "pair"} -> "look"
      [] j.cmd = "create" -> "stat"
      [] j.cmd \in {"anchor", "enroll"} -> "load"
      [] j.cmd = "reboot" -> "reboot"
      [] j.cmd = "ota" -> IF "wait" \in j.flags THEN "baseline" ELSE "request"
      [] OTHER -> "change"

Init ==
    /\ \E start \in Starts : /\ job = start.job /\ node = start.node
                             /\ seed = start.seed /\ tokens = start.tokens
    /\ at = [p \in Procs |-> First(job[p])]
    /\ seen = [p \in Procs |-> None] /\ read = [p \in Procs |-> {}]
    /\ base = [p \in Procs |-> 0] /\ gone = {} /\ polls = [p \in Procs |-> 0]
    /\ up = TRUE /\ uptime = Age /\ boots = 0 /\ due = FALSE
    /\ took = {} /\ lost = {} /\ since = [p \in Procs |-> 0] /\ excused = {}
    /\ saved = {<<"tokens", d>> : d \in tokens}
                 \cup (IF seed = None THEN {} ELSE {<<"seed", seed>>})

Cmd(p) == job[p].cmd
Has(p, flag) == flag \in job[p].flags
Go(p, step) == at' = [at EXCEPT ![p] = step]

\* A call to the node failed.
Fail(p) == Go(p, "error") /\ UNCHANGED <<job, memory, device, files, history>>

-----------------------------------------------------------------------------
(* What is given is looked at before the node is called *)

Input(p, cmd, valid, next) ==
    /\ at[p] = "input" /\ Cmd(p) = cmd
    /\ Go(p, IF valid THEN next ELSE "error")
    /\ UNCHANGED <<job, memory, device, files, history>>

\* The key of a file, of standard input or of a prompt, and its share string.
ReadKey(p) == Input(p, "provision", ~Has(p, "bad"), "look")

\* Six digits, as a flag or at the prompt.
ReadPasskey(p) == Input(p, "passkey", ~Has(p, "bad"), "change")

\* An SSID, and a password or the word that there is none.
ReadWifi(p) == Input(p, "wifi", ~Has(p, "bad"), "change")

\* The backup of an anchor.
ReadBackup(p) == Input(p, "import", ~Has(p, "bad"), "stat")

ReadSeconds(p) == Input(p, "sleep", ~Has(p, "bad"), "change")

ReadSetting(p) ==
    \E cmd \in Settings : Input(p, cmd, Requests(cmd, job[p].given) # {}, "change")

-----------------------------------------------------------------------------
(* Calls that change the node *)

\* The node takes the call and is one of news, or the call fails and may have
\* reached the node.
Call(p, cmd, news, next) ==
    /\ at[p] = "change" /\ Cmd(p) = cmd
    /\ \/ up /\ node' \in news /\ took' = took \cup {p} /\ Go(p, next)
       \/ /\ node' \in {node} \cup (IF up THEN news ELSE {})
          /\ Go(p, "error") /\ UNCHANGED took
    /\ UNCHANGED <<job, memory, up, uptime, boots, due, files, lost, since, saved, excused>>

\* A fault: ok:false inside a successful call is not looked at.
FaultAnswered(p) == "ok"

\* Where a command goes that gets ok:false in a successful call: sleep reports it
\* and is content.
Answered(p) == IF Cmd(p) = "sleep" THEN "ok" ELSE "refused"

Declined(p, cmd) ==
    /\ at[p] = "change" /\ Cmd(p) = cmd /\ up
    /\ Go(p, Answered(p)) /\ UNCHANGED <<job, memory, device, files, history>>

Generate(p) == Call(p, "generate", {[node EXCEPT !.key = job[p].arg]}, "ok")
Provision(p) == Call(p, "provision", {[node EXCEPT !.key = job[p].arg]}, "confirm")

SetAnchor(p) == Call(p, "anchor", {[node EXCEPT !.anchor = seen[p]]}, "ok")

\* The node takes an endorsement of its own anchor only.
SetEndorsement(p) ==
    Call(p, "enroll", IF node.anchor = seen[p] THEN {[node EXCEPT !.endorsed = seen[p]]} ELSE {}, "ok")

\* A token that is given or made up here.
EnableAuth(p) == Call(p, "enable", {[node EXCEPT !.token = TRUE]}, "confirm")
DisableAuth(p) == Call(p, "disable", {[node EXCEPT !.token = FALSE]}, "ok")

\* A node with a display wants no passkey.
SetPasskey(p, cmd, key) ==
    \/ ~node.display /\ Call(p, cmd, {[node EXCEPT !.passkey = key]}, "ok")
    \/ node.display /\ (Declined(p, cmd) \/ Call(p, cmd, {}, "ok"))
ApplyPasskey(p) == SetPasskey(p, "passkey", job[p].arg) \/ SetPasskey(p, "clear", None)

\* The answer says whether a restart is needed, and --reboot asks for one.
SetWifi(p) ==
    \E next \in {"ok", IF Has(p, "reboot") THEN "reboot" ELSE "ok"} :
        Call(p, "wifi", {[node EXCEPT !.wifi = job[p].arg]}, next)

\* Another roll-call may collect, the last one be too near, or the air be busy.
StartRollCall(p) ==
    \/ Declined(p, "rollcall")
    \/ Call(p, "rollcall", IF node.calling THEN {} ELSE {[node EXCEPT !.calling = TRUE]}, "ok")

SetSetting(p) ==
    \E cmd \in Settings :
        Call(p, cmd, UNION {{[node EXCEPT !.set = new] : new \in Applied(node.set, r)} :
                            r \in Requests(cmd, job[p].given)}, "ok")

\* What restarts the node: reboot and wifi set --reboot, the latter with the
\* credentials saved whatever comes of it, and sleep, until it wakes up.
Reboot(p) ==
    /\ \/ at[p] = "reboot" \/ (at[p] = "change" /\ Cmd(p) = "sleep")
    /\ \/ up /\ due' = TRUE /\ took' = took \cup {p} /\ Go(p, "ok")
       \/ due' \in {due, up} /\ Go(p, "error") /\ UNCHANGED took
    /\ UNCHANGED <<job, memory, node, up, uptime, boots, files, lost, since, saved, excused>>

RefuseSleep(p) == Declined(p, "sleep")

\* A fault: only the founder of a network is asked about --force.
FaultGuarded(p) == Cmd(p) = "generate" /\ node.key # None

\* A node with another key is left alone without --force.
Guarded(p) == node.key # None /\ (Cmd(p) = "provision" => node.key # job[p].arg)

\* NetworkKeyStatus before the change.  If it fails the question is skipped; if
\* there is no connection the command ends.
LookKey(p) ==
    /\ at[p] = "look" /\ Cmd(p) \in {"generate", "provision"}
    /\ \/ /\ up /\ seen' = [seen EXCEPT ![p] = node.key]
          /\ Go(p, IF Guarded(p) /\ ~Has(p, "force") THEN "refused" ELSE "change")
       \/ seen' = [seen EXCEPT ![p] = "unknown"] /\ Go(p, "change")
       \/ Go(p, "error") /\ UNCHANGED seen
    /\ UNCHANGED <<job, read, base, gone, polls, device, files, history>>

\* The read after the change: provision compares fingerprints, auth enable prints
\* what it gets.
Confirm(p) ==
    /\ at[p] = "confirm"
    /\ \/ /\ up /\ Go(p, IF Cmd(p) = "provision" /\ node.key # job[p].arg THEN "error" ELSE "ok")
          /\ UNCHANGED <<job, memory, device, files, history>>
       \/ Fail(p)

-----------------------------------------------------------------------------
(* The anchor's seed and tokens.json *)

\* loadAnchorSeed; enroll goes on to Identity.
LoadSeed(p) ==
    /\ at[p] = "load" /\ Cmd(p) \in {"anchor", "enroll"}
    /\ IF seed \in {None, Torn} THEN Fail(p)
       ELSE /\ seen' = [seen EXCEPT ![p] = seed]
            /\ Go(p, IF Cmd(p) = "enroll" THEN "identity" ELSE "change")
            /\ UNCHANGED <<job, read, base, gone, polls, device, files, history>>

Identity(p) ==
    /\ at[p] = "identity"
    /\ \/ up /\ Go(p, "change") /\ UNCHANGED <<job, memory, device, files, history>>
       \/ Fail(p)

\* A fault: the seed is written without a look.
FaultTaken == FALSE

Taken == seed # None

\* saveAnchorSeed, for anchor generate and import: a torn file is there, too.
StatSeed(p) ==
    /\ at[p] = "stat"
    /\ Go(p, IF Taken /\ ~Has(p, "force") THEN "refused" ELSE "truncate")
    /\ UNCHANGED <<job, memory, device, files, history>>

\* pair: Version, Status and AuthToken.  Without a token, and with --json, the
\* command ends here, --save or not.
LookToken(p) ==
    /\ at[p] = "look" /\ Cmd(p) = "pair"
    /\ \/ /\ up
          /\ Go(p, IF node.token /\ Has(p, "save") /\ ~Has(p, "json") THEN "load" ELSE "ok")
          /\ UNCHANGED <<job, memory, device, files, history>>
       \/ Fail(p)

\* A fault: what the file holds is left out of what is written.
FaultParsed == {}

\* tokens.json as saveTokenConfig understands it: one it cannot parse is empty.
Parsed == tokens \ {Torn}

\* So is one that is there and cannot be read: the error of os.ReadFile is not
\* told from that of a file that is missing.
LoadTokens(p) ==
    /\ at[p] = "load" /\ Cmd(p) = "pair"
    /\ \/ read' = [read EXCEPT ![p] = Parsed \cup {job[p].arg}] /\ UNCHANGED excused
       \/ /\ tokens # {} /\ read' = [read EXCEPT ![p] = {job[p].arg}]
          /\ excused' = excused \cup {"tokens"}
    /\ Go(p, "truncate")
    /\ UNCHANGED <<job, seen, base, gone, polls, device, files, took, lost, since, saved>>

\* The file of a command, the commands that looked at it and did not write yet,
\* and what may be wrong with it after a step of theirs.
File(p) == IF Cmd(p) = "pair" THEN "tokens" ELSE "seed"
Writing(f) == {p \in Procs : File(p) = f /\ at[p] \in {"truncate", "write"}}
Spoils(p) == IF Writing(File(p)) # {p} \/ (Cmd(p) # "pair" /\ Has(p, "force"))
             THEN excused \cup {File(p)} ELSE excused

\* os.WriteFile opens the file and empties it ...
Truncate(p) ==
    /\ at[p] = "truncate"
    /\ \/ /\ Go(p, "write")
          /\ IF File(p) = "seed" THEN seed' = Torn /\ UNCHANGED tokens
             ELSE tokens' = {Torn} /\ UNCHANGED seed
       \/ Go(p, IF Cmd(p) = "pair" THEN "ok" ELSE "error") /\ UNCHANGED files
    /\ excused' = Spoils(p)
    /\ UNCHANGED <<job, memory, device, took, lost, since, saved>>

\* ... and writes it.  A write that fails is an error of anchor and a warning of
\* pair.
Write(p) ==
    /\ at[p] = "write"
    /\ \/ /\ Go(p, "ok")
          /\ IF File(p) = "seed"
             THEN /\ seed' = job[p].arg /\ UNCHANGED tokens
                  /\ saved' = saved \cup {<<"seed", job[p].arg>>}
             ELSE /\ tokens' = read[p] /\ UNCHANGED seed
                  /\ saved' = saved \cup {<<"tokens", job[p].arg>>}
          /\ excused' = Spoils(p)
       \/ /\ Go(p, IF Cmd(p) = "pair" THEN "ok" ELSE "error")
          /\ excused' = excused \cup {File(p)} /\ UNCHANGED <<files, saved>>
    /\ UNCHANGED <<job, memory, device, took, lost, since>>

-----------------------------------------------------------------------------
(* The firmware update *)

\* The uptime before the update; 0 if the call fails.
Baseline(p) ==
    /\ at[p] = "baseline"
    /\ \/ up /\ base' = [base EXCEPT ![p] = uptime]
       \/ base' = [base EXCEPT ![p] = 0]
    /\ since' = [since EXCEPT ![p] = boots]
    /\ Go(p, "request")
    /\ UNCHANGED <<job, seen, read, gone, polls, device, files, took, lost, saved, excused>>

\* OTAUpdate: accepted, refused with ok:false, or failed with or without effect.
\* With --json nothing is waited for.
Request(p) ==
    /\ at[p] = "request"
    /\ \/ /\ up /\ due' = TRUE /\ took' = took \cup {p}
          /\ Go(p, IF Has(p, "wait") /\ ~Has(p, "json") THEN "poll" ELSE "ok")
       \/ Go(p, "refused") /\ up /\ UNCHANGED <<due, took>>
       \/ Go(p, "error") /\ due' \in {due, up} /\ UNCHANGED took
    /\ UNCHANGED <<job, memory, node, up, uptime, boots, files, lost, since, saved, excused>>

\* The node restarts once for what it accepted, and gets older.
Restart ==
    /\ \/ up /\ due /\ up' = FALSE /\ due' = FALSE /\ UNCHANGED <<uptime, boots>>
       \/ ~up /\ up' = TRUE /\ uptime' = 1 /\ boots' = boots + 1 /\ UNCHANGED due
       \/ up /\ uptime' = Age /\ UNCHANGED <<up, boots, due>>
    /\ UNCHANGED <<procs, node, files, history>>

Missed(p) == IF up THEN lost \cup {p} ELSE lost

\* A fault: a check that fails puts the deadline off.
FaultCounted(p) == IF up THEN polls[p] + 1 ELSE polls[p]

\* Every check of the wait takes it nearer to its deadline.
Counted(p) == polls[p] + 1

\* A check of the wait, up to the deadline.  After an answer it looks at the
\* uptime, unless the link was already seen down, after a failure at the port.
Poll(p) ==
    /\ at[p] = "poll"
    /\ \/ /\ polls[p] < MaxPolls /\ polls' = [polls EXCEPT ![p] = Counted(p)]
          /\ \/ /\ up
                /\ Go(p, IF p \in gone THEN "ok" ELSE IF base[p] > 0 THEN "uptime" ELSE "poll")
                /\ UNCHANGED <<gone, lost>>
             \/ /\ gone' = gone \cup {p} /\ lost' = Missed(p)
                /\ Go(p, "reach")
       \/ Go(p, "error") /\ UNCHANGED <<polls, gone, lost>>
    /\ UNCHANGED <<job, seen, read, base, device, files, took, since, saved, excused>>

\* A fault: an uptime that did not grow is a reset.
FaultReset(p) == uptime <= base[p]

Reset(p) == uptime + 5 < base[p]

PollUptime(p) ==
    /\ at[p] = "uptime"
    /\ \/ up /\ Go(p, IF Reset(p) THEN "ok" ELSE "poll")
       \/ Go(p, "poll")
    /\ UNCHANGED <<job, memory, device, files, history>>

\* transportReachable: the host of --transport accepts a connection.
Reach(p) ==
    /\ at[p] = "reach"
    /\ \/ up /\ Has(p, "tcp") /\ Go(p, "ok")
       \/ Go(p, "poll")
    /\ UNCHANGED <<job, memory, device, files, history>>

-----------------------------------------------------------------------------
\* Ctrl+C or a crash of the process.
Kill(p) ==
    /\ at[p] \notin Ends
    /\ Go(p, "killed")
    /\ excused' = IF at[p] = "write" THEN excused \cup {File(p)} ELSE excused
    /\ UNCHANGED <<job, memory, device, files, took, lost, since, saved>>

Step(p) ==
    \/ ReadKey(p) \/ ReadPasskey(p) \/ ReadWifi(p) \/ ReadBackup(p) \/ ReadSeconds(p)
    \/ ReadSetting(p)
    \/ LookKey(p) \/ Generate(p) \/ Provision(p) \/ Confirm(p)
    \/ SetAnchor(p) \/ SetEndorsement(p) \/ EnableAuth(p) \/ DisableAuth(p)
    \/ ApplyPasskey(p) \/ SetWifi(p) \/ StartRollCall(p) \/ SetSetting(p)
    \/ Reboot(p) \/ RefuseSleep(p)
    \/ LoadSeed(p) \/ Identity(p) \/ StatSeed(p)
    \/ LookToken(p) \/ LoadTokens(p) \/ Truncate(p) \/ Write(p)
    \/ Baseline(p) \/ Request(p) \/ Poll(p) \/ PollUptime(p) \/ Reach(p)

Next == Restart \/ \E p \in Procs : Step(p) \/ Kill(p)

\* Every call has a timeout and the wait a deadline.  The node owes nothing.
Fairness == \A p \in Procs : WF_vars(Step(p))

Spec == Init /\ [][Next]_vars /\ Fairness

-----------------------------------------------------------------------------
(* Properties *)

\* Without --force a command puts another key on a node only if its own look at
\* the node failed, or the key it saw was replaced before it acted.
ReKeyAsked ==
    [][\A p \in Procs :
         at[p] = "change" /\ at'[p] # "change" /\ ~Has(p, "force")
             /\ node.key # None /\ node'.key # node.key
           => seen[p] = "unknown" \/ seen[p] # node.key]_vars

\* A setting that was given stays what the command made it, until another
\* command names that setting: no command sends what it was not given.
SettingsHold ==
    \A p \in Procs : at[p] = "ok" /\ Cmd(p) \in Settings =>
        \A s \in Names \cap DOMAIN job[p].given :
            \/ node.set[s] = job[p].given[s]
            \/ \E q \in Procs \ {p} : s \in DOMAIN job[q].given

\* A command that reports success had its effect, and no other command undid it
\* unasked.  An update that was waited for restarted the node, unless a check
\* failed although the node was there.
SuccessIsReal ==
    /\ \A p \in Procs : at[p] = "ok" =>
        /\ Cmd(p) \notin {"create", "import", "pair", "sleep"} => p \in took
        /\ Cmd(p) = "ota" /\ Has(p, "wait") /\ ~Has(p, "json")
             => boots > since[p] \/ p \in lost
    /\ SettingsHold

\* What a command, or one before it, reported as saved is on file, whatever
\* stopped since, as long as no --force was given for the file, pair could read it
\* and nobody was killed, failed or writing at the same time in the middle of a
\* write.
FilesKept ==
    /\ "seed" \notin excused /\ (\A p \in Procs : File(p) = "seed" => at[p] # "write")
         => \A s \in Keys : <<"seed", s>> \in saved => seed = s
    /\ "tokens" \notin excused /\ (\A p \in Procs : File(p) = "tokens" => at[p] # "write")
         => \A d \in Devices : <<"tokens", d>> \in saved => d \in tokens

\* Every command ends, however the node fails to answer.
CommandsEnd == \A p \in Procs : <>(at[p] \in Ends)

-----------------------------------------------------------------------------
(* Said by the docs and not so                                             *)

\* netkey.go:91-93: re-keying an already-provisioned node "cuts it off from every
\* node still on the old key, so that requires --force".
ReKeyNeedsForce ==
    [][\A p \in Procs :
         at[p] = "change" /\ at'[p] # "change" /\ ~Has(p, "force") /\ node.key # None
           => node'.key = node.key]_vars

\* ota.go:167: --wait waits "for node reboot/reconnect", and ota.go:153 reports a
\* "success (node transport reachable after disconnect)".
UpdateMeansRestart ==
    \A p \in Procs :
        at[p] = "ok" /\ Cmd(p) = "ota" /\ Has(p, "wait") /\ ~Has(p, "json")
          => boots > since[p]
=============================================================================
