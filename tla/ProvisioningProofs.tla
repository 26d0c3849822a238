------------------------- MODULE ProvisioningProofs -------------------------
(***************************************************************************)
(* For any processes, keys, devices, command lines and states of the node  *)
(* and of the files: success is real, what was saved stays on file, and no *)
(* key is replaced unasked.  The inductive invariant says which commands   *)
(* come to which call with what, what an OTA wait may conclude from a      *)
(* failed check or an old uptime, and what a process that is about to      *)
(* write a file knows of it as long as nobody spoiled it.                  *)
(***************************************************************************)
EXTENDS Provisioning, TLAPS

\* The commands that come to a call, and what they bring along.
OnTrack(p) ==
    /\ at[p] = "look" => Cmd(p) \in {"generate", "provision", "pair"}
    /\ at[p] = "reboot" => Cmd(p) \in {"reboot", "wifi"}
    /\ at[p] = "change" => Cmd(p) \notin {"create", "import", "pair", "ota", "reboot"}
    /\ at[p] \in {"change", "identity"} /\ Cmd(p) \in {"anchor", "enroll"} => seen[p] \in Keys
    /\ at[p] = "confirm" => p \in took /\ Cmd(p) \in {"provision", "enable"}
    /\ at[p] = "stat" => Cmd(p) \in {"create", "import"}
    /\ at[p] \in {"truncate", "write"} =>
         Cmd(p) \in {"create", "import", "pair"} /\ (Cmd(p) = "pair" => job[p].arg \in read[p])
    /\ at[p] = "load" => Cmd(p) \in {"anchor", "enroll", "pair"}
    /\ at[p] = "identity" => Cmd(p) = "enroll"
    /\ at[p] \in {"baseline", "request"} => Cmd(p) = "ota" /\ p \notin gone
    /\ at[p] \in {"poll", "uptime", "reach"} => Cmd(p) = "ota" /\ p \in took
    /\ at[p] = "reach" => p \in gone
    /\ at[p] = "ok" /\ Cmd(p) \notin {"create", "import", "pair", "sleep"} => p \in took

\* What a founder or a joiner of a network saw, if nobody told it to force its key.
Asks(p) ==
    at[p] = "change" /\ Cmd(p) \in {"generate", "provision"} /\ ~Has(p, "force") =>
        \/ seen[p] \in {"unknown", None}
        \/ Cmd(p) = "provision" /\ seen[p] = job[p].arg

Restarted(p) == boots > since[p] \/ p \in lost

\* A link that was seen down with the node up was lost; otherwise the node is down,
\* or was.  An uptime below the baseline is that of another boot.
Waited(p) ==
    /\ since[p] <= boots
    /\ p \in gone => Restarted(p) \/ ~up
    /\ base[p] = Age => uptime = Age \/ boots > since[p]
    /\ at[p] = "ok" /\ Cmd(p) = "ota" /\ Has(p, "wait") /\ ~Has(p, "json") => Restarted(p)

NoSeedSaved == \A s \in Keys : <<"seed", s>> \notin saved
SavedDevices == {d \in Devices : <<"tokens", d>> \in saved}

\* A process that found no seed, and was alone since, finds none as it writes.
SeedKept ==
    "seed" \notin excused =>
        /\ \A p \in Procs : File(p) = "seed" /\ at[p] = "write" => seed = Torn /\ NoSeedSaved
        /\ \A p \in Procs : File(p) = "seed" /\ at[p] = "truncate" /\ ~Has(p, "force")
             => seed = None /\ NoSeedSaved
        /\ (\A p \in Procs : File(p) = "seed" => at[p] # "write")
             => \A s \in Keys : <<"seed", s>> \in saved => seed = s

\* A process that read the tokens has all that were saved, unless it read them while
\* another had emptied the file.
TokensKept ==
    "tokens" \notin excused =>
        /\ \A p \in Procs : File(p) = "tokens" /\ at[p] = "write" => SavedDevices \subseteq read[p]
        /\ \A p \in Procs : File(p) = "tokens" /\ at[p] = "truncate" =>
             \/ SavedDevices \subseteq read[p]
             \/ \E q \in Procs \ {p} : File(q) = "tokens" /\ at[q] = "write"
        /\ (\A p \in Procs : File(p) = "tokens" => at[p] # "write")
             => SavedDevices \subseteq tokens

IInv ==
    /\ TypeOK
    /\ \A p \in Procs : OnTrack(p) /\ Asks(p) /\ Waited(p)
    /\ SettingsHold
    /\ SeedKept
    /\ TokensKept

-----------------------------------------------------------------------------
(* Lemmas about the operators *)

\* The words for no key, an unknown key and a torn file are none of the keys.
LEMMA WordsProperties ==
    /\ None \notin Keys /\ Torn \notin Keys /\ "unknown" \notin Keys
    /\ None \notin Devices /\ Torn \notin Devices /\ None # Torn /\ None # "unknown"
  BY ProvisioningAssumption DEF None, Torn

\* A command that changes a setting is none of the others.
LEMMA SettingsApart ==
    Settings \cap {"generate", "provision", "create", "anchor", "enroll", "enable", "disable",
                   "passkey", "clear", "pair", "ota", "import", "wifi", "rollcall", "reboot",
                   "sleep"} = {}
  BY DEF Settings

\* A process that goes from one call to the next leaves the others where they are.
LEMMA GoProperties ==
    ASSUME TypeOK, NEW p \in Procs, NEW x \in Steps \cup Ends, Go(p, x)
    PROVE  /\ at' \in [Procs -> Steps \cup Ends] /\ at'[p] = x
           /\ \A q \in Procs \ {p} : at'[q] = at[q]
  BY DEF TypeOK, Go

\* The nodes a command may leave that changes no setting.
SameSettings == {n \in Node : n.set = node.set}

\* A node stays one, with its settings, when another field of it is set.
LEMMA KeyFieldsProperties ==
    ASSUME node \in Node, NEW k \in Keys \cup {None}
    PROVE  {[node EXCEPT !.key = k], [node EXCEPT !.anchor = k], [node EXCEPT !.endorsed = k],
            [node EXCEPT !.passkey = k], [node EXCEPT !.wifi = k]} \subseteq SameSettings
  BY DEF Node, SameSettings

LEMMA FlagFieldsProperties ==
    ASSUME node \in Node, NEW b \in BOOLEAN
    PROVE  {[node EXCEPT !.token = b], [node EXCEPT !.calling = b]} \subseteq SameSettings
  BY DEF Node, SameSettings

LEMMA SettingsFieldProperties ==
    ASSUME node \in Node, NEW new \in [Names -> Values]
    PROVE  [node EXCEPT !.set = new] \in Node /\ [node EXCEPT !.set = new].set = new
  BY DEF Node

\* A command sends what it was given or nothing.
LEMMA RequestsProperties ==
    ASSUME NEW cmd, NEW given, NEW r \in Requests(cmd, given)
    PROVE  r = given
  BY DEF Requests, Checked, SetName, SetRadio, SetBeacon, AddChannel, RemoveChannel,
         SetDefaultChannel, SetVolume, SetMuted, PlayTone, SetMailbox, SetBacklight, SetTelemetry

\* The node takes a request as a whole and leaves the settings it does not name; the
\* only ones a request for a channel touches are the slots.
LEMMA AppliedProperties ==
    ASSUME NEW set \in [Names -> Values], NEW given,
           \/ DOMAIN given \subseteq Names \ Slots
           \/ DOMAIN given \in {{"add"}, {"remove"}, {"tone"}},
           \A s \in DOMAIN given : given[s] \in Values,
           NEW new \in Applied(set, given)
    PROVE  /\ new \in [Names -> Values]
           /\ \A s \in Names \cap DOMAIN given : new[s] = given[s]
           /\ \A s \in Names \ (Slots \cup DOMAIN given) : new[s] = set[s]
<1>1. "none" \in Values /\ "add" \notin Names /\ "remove" \notin Names
      /\ \A v \in Values : v \in Names => v \in Slots
  BY DEF Values, Names, Radio, Beacon, Slots
<1>2. CASE \E s \in DOMAIN given : given[s] = "excess" BY <1>2 DEF Applied
<1>3. CASE "add" \in DOMAIN given /\ ~\E s \in DOMAIN given : given[s] = "excess"
  <2>1. PICK i \in Slots : new = [set EXCEPT ![i] = given["add"]] BY <1>3 DEF Applied
  <2>2. given["add"] \in Values BY <1>3
  <2>3. DOMAIN given = {"add"} BY <1>1, <1>3
  <2> QED BY <1>1, <2>1, <2>2, <2>3
<1>4. CASE "add" \notin DOMAIN given /\ "remove" \in DOMAIN given
           /\ ~\E s \in DOMAIN given : given[s] = "excess"
  <2>1. new = [set EXCEPT ![given["remove"]] = "none"] BY <1>4 DEF Applied
  <2>2. DOMAIN given = {"remove"} /\ given["remove"] \in Values BY <1>1, <1>4
  <2> QED BY <1>1, <2>1, <2>2
<1>5. CASE "add" \notin DOMAIN given /\ "remove" \notin DOMAIN given
           /\ ~\E s \in DOMAIN given : given[s] = "excess"
  <2>1. new = [s \in Names |-> IF s \in DOMAIN given THEN given[s] ELSE set[s]]
    BY <1>5 DEF Applied
  <2> QED BY <2>1
<1> QED BY <1>2, <1>3, <1>4, <1>5

-----------------------------------------------------------------------------
(* Lemmas about parts of a step of process p, which goes to call x *)

\* What the other processes are about to do is still in order.
LEMMA OthersOnTrack ==
    ASSUME IInv, NEW p \in Procs, NEW x \in Steps \cup Ends, Go(p, x), UNCHANGED job,
           \A q \in Procs \ {p} : seen'[q] = seen[q] /\ read'[q] = read[q],
           took \subseteq took', \A q \in Procs \ {p} : q \in gone' <=> q \in gone,
           OnTrack(p)', Asks(p)'
    PROVE  \A q \in Procs : OnTrack(q)' /\ Asks(q)'
<1>1. \A q \in Procs \ {p} : at'[q] = at[q] BY GoProperties DEF IInv
<1>2. ASSUME NEW q \in Procs \ {p} PROVE OnTrack(q)'
  <2>1. OnTrack(q) BY DEF IInv
  <2> QED BY <1>1, <2>1 DEF OnTrack, Cmd
<1>3. ASSUME NEW q \in Procs \ {p} PROVE Asks(q)'
  <2>1. Asks(q) BY DEF IInv
  <2> QED BY <1>1, <2>1 DEF Asks, Cmd, Has
<1> QED BY <1>2, <1>3

\* A step away from the clock of the node and from the OTA waits, and no success of a
\* wait without a restart.
LEMMA WaitsKept ==
    ASSUME IInv, NEW p \in Procs, NEW x \in Steps \cup Ends, Go(p, x),
           UNCHANGED <<job, base, gone, lost, since, up, uptime, boots>>,
           x = "ok" => Cmd(p) # "ota" \/ ~Has(p, "wait") \/ Has(p, "json") \/ Restarted(p)
    PROVE  \A q \in Procs : Waited(q)'
<1> SUFFICES ASSUME NEW q \in Procs PROVE Waited(q)' OBVIOUS
<1>1. at'[p] = x /\ (q # p => at'[q] = at[q]) BY GoProperties DEF IInv
<1>2. Waited(q) BY DEF IInv
<1> QED BY <1>1, <1>2 DEF Waited, Restarted, Cmd, Has

\* A step that leaves the settings of the node, and no success of a setting.
LEMMA SettingsKept ==
    ASSUME IInv, NEW p \in Procs, NEW x \in Steps \cup Ends, Go(p, x), UNCHANGED job,
           node'.set = node.set, x = "ok" => Cmd(p) \notin Settings
    PROVE  SettingsHold'
<1> SUFFICES ASSUME NEW q \in Procs, at'[q] = "ok", Cmd(q) \in Settings,
                    NEW s \in Names \cap DOMAIN job[q].given
             PROVE  \/ node'.set[s] = job[q].given[s]
                    \/ \E r \in Procs \ {q} : s \in DOMAIN job[r].given
  BY DEF SettingsHold, Cmd
<1>1. at'[p] = x /\ (q # p => at'[q] = at[q]) BY GoProperties DEF IInv
<1>2. at[q] = "ok" BY <1>1
<1> QED BY <1>2 DEF IInv, SettingsHold

\* A step away from the files, of a process that writes none.
LEMMA FilesUntouched ==
    ASSUME IInv, NEW p \in Procs, NEW x \in Steps \cup Ends, Go(p, x),
           UNCHANGED <<job, seed, tokens, saved, excused>>,
           \A q \in Procs \ {p} : read'[q] = read[q],
           at[p] \notin {"truncate", "write"}, x \notin {"truncate", "write"}
    PROVE  SeedKept' /\ TokensKept'
<1>1. /\ \A q \in Procs : at'[q] = "write" <=> at[q] = "write"
      /\ \A q \in Procs : at'[q] = "truncate" <=> at[q] = "truncate"
  BY GoProperties DEF IInv
<1>2. \A q \in Procs : File(q)' = File(q) BY DEF File, Cmd
<1>3. SeedKept' BY <1>1, <1>2 DEF IInv, SeedKept, NoSeedSaved, Has
<1>4. \A q \in Procs : at[q] \in {"truncate", "write"} => read'[q] = read[q] OBVIOUS
<1>5. SavedDevices' = SavedDevices BY DEF SavedDevices
<1>6. TokensKept' BY <1>1, <1>2, <1>4, <1>5 DEF IInv, TokensKept
<1> QED BY <1>3, <1>6

\* The four together, for the many steps that only look: nothing changes but the call
\* the process is at and what it saw.
LEMMA LookKeeps ==
    ASSUME IInv, NEW p \in Procs, NEW x \in Steps \cup Ends, Go(p, x),
           UNCHANGED <<job, read, base, gone, polls, device, files, history>>,
           seen' \in [Procs -> Keys \cup {None, "unknown"}],
           \A q \in Procs \ {p} : seen'[q] = seen[q],
           at[p] \notin {"truncate", "write"}, x \notin {"truncate", "write"},
           x = "ok" => /\ Cmd(p) \notin Settings
                       /\ Cmd(p) # "ota" \/ ~Has(p, "wait") \/ Has(p, "json") \/ Restarted(p),
           OnTrack(p)', Asks(p)'
    PROVE  IInv'
<1>1. UNCHANGED <<node, up, uptime, boots, due, seed, tokens, took, lost, since, saved, excused>>
  BY DEF device, files, history
<1>2. at' \in [Procs -> Steps \cup Ends] BY GoProperties DEF IInv
<1>3. TypeOK' BY <1>1, <1>2 DEF IInv, TypeOK
<1>4. \A q \in Procs : OnTrack(q)' /\ Asks(q)' BY <1>1, OthersOnTrack
<1>5. \A q \in Procs : Waited(q)' BY <1>1, WaitsKept
<1>6. SettingsHold' BY <1>1, SettingsKept
<1>7. SeedKept' /\ TokensKept' BY <1>1, FilesUntouched
<1> QED BY <1>3, <1>4, <1>5, <1>6, <1>7 DEF IInv

\* A process that ends without success has nothing more to keep.
LEMMA EndKeeps ==
    ASSUME IInv, NEW p \in Procs, NEW x \in {"error", "refused"}, Go(p, x),
           UNCHANGED <<job, memory, device, files, history>>,
           at[p] \notin {"truncate", "write"}
    PROVE  IInv'
<1>1. UNCHANGED <<seen, read, base, gone, polls>> BY DEF memory
<1>2. x \in Steps \cup Ends /\ x \notin {"truncate", "write", "ok"} BY DEF Ends
<1>3. at'[p] = x BY <1>2, GoProperties DEF IInv
<1>4. OnTrack(p)' /\ Asks(p)' BY <1>3 DEF OnTrack, Asks
<1>5. seen' \in [Procs -> Keys \cup {None, "unknown"}] BY <1>1 DEF IInv, TypeOK
<1> QED BY <1>1, <1>2, <1>4, <1>5, LookKeeps

-----------------------------------------------------------------------------
(* Induction *)

LEMMA InitIInv == Init => IInv
<1> SUFFICES ASSUME Init PROVE IInv OBVIOUS
<1>1. PICK start \in Starts : job = start.job /\ node = start.node
                              /\ seed = start.seed /\ tokens = start.tokens
  BY DEF Init
<1>2. /\ \A p \in Procs : IsJob(job[p])
      /\ node \in Node /\ seed \in Keys \cup {None} /\ tokens \subseteq Devices
      /\ Age \in Nat /\ Age > 6 /\ MaxPolls \in Nat
  BY <1>1, ProvisioningAssumption
<1>3. \A p \in Procs : First(job[p]) \in {"input", "look", "stat", "load", "reboot", "baseline",
                                          "request", "change"}
  BY DEF First
<1>4. \A p \in Procs : at[p] = First(job[p]) BY DEF Init
<1>5. TypeOK
  <2>1. at \in [Procs -> Steps \cup Ends] BY <1>3 DEF Init, Steps
  <2>2. saved \subseteq Files \X (Keys \cup Devices) BY <1>2 DEF Init, Files
  <2>3. polls \in [Procs -> 0..MaxPolls] BY <1>2 DEF Init
  <2>4. seed \in Keys \cup {None, Torn} BY <1>2
  <2> QED BY <1>2, <2>1, <2>2, <2>3, <2>4 DEF Init, TypeOK
<1>6. ASSUME NEW p \in Procs PROVE OnTrack(p) /\ Asks(p) /\ Waited(p)
  <2>1. /\ at[p] = "look" => Cmd(p) \in {"generate", "pair"}
        /\ at[p] = "reboot" => Cmd(p) = "reboot"
        /\ at[p] = "change" => Cmd(p) \notin {"create", "import", "pair", "ota", "reboot", "anchor",
                                             "enroll", "generate", "provision"}
        /\ at[p] = "stat" => Cmd(p) = "create"
        /\ at[p] = "load" => Cmd(p) \in {"anchor", "enroll"}
        /\ at[p] \in {"baseline", "request"} => Cmd(p) = "ota"
        /\ at[p] \in {"look", "reboot", "change", "stat", "load", "baseline", "request", "input"}
    BY <1>3, <1>4 DEF First, Cmd
  <2>2. OnTrack(p) BY <2>1 DEF OnTrack, Init
  <2>3. Asks(p) BY <2>1 DEF Asks
  <2>4. since[p] = 0 /\ boots = 0 /\ gone = {} /\ base[p] = 0 BY DEF Init
  <2>5. Waited(p) BY <1>2, <2>1, <2>4 DEF Waited
  <2> QED BY <2>2, <2>3, <2>5
<1>7. \A p \in Procs : at[p] \notin {"ok", "truncate", "write"} BY <1>3, <1>4
<1>8. SettingsHold BY <1>7 DEF SettingsHold
<1>9. SeedKept BY <1>2, <1>7, WordsProperties DEF SeedKept, Init
<1>10. TokensKept BY <1>7 DEF TokensKept, SavedDevices, Init
<1> QED BY <1>5, <1>6, <1>8, <1>9, <1>10 DEF IInv

\* What is given is looked at before the node is called.
LEMMA InputKeeps ==
    ASSUME IInv, NEW p \in Procs,
           ReadKey(p) \/ ReadPasskey(p) \/ ReadWifi(p) \/ ReadBackup(p) \/ ReadSeconds(p)
             \/ ReadSetting(p)
    PROVE  IInv'
<1>1. PICK x \in {"error", "look", "change", "stat"} :
        /\ at[p] = "input" /\ Go(p, x)
        /\ x = "look" => Cmd(p) = "provision"
        /\ x = "change" => Cmd(p) \in {"passkey", "wifi", "sleep"} \cup Settings
        /\ x = "stat" => Cmd(p) = "import"
        /\ UNCHANGED <<job, memory, device, files, history>>
  BY DEF ReadKey, ReadPasskey, ReadWifi, ReadBackup, ReadSeconds, ReadSetting, Input
<1>2. x \in Steps \cup Ends /\ x \notin {"truncate", "write", "ok"} BY DEF Steps, Ends
<1>3. UNCHANGED <<seen, read, base, gone, polls>> BY <1>1 DEF memory
<1>4. at'[p] = x BY <1>1, <1>2, GoProperties DEF IInv
<1>5. Cmd(p)' = Cmd(p) BY <1>1 DEF Cmd
<1>6. Cmd(p) \in Settings => Cmd(p) \notin {"create", "import", "pair", "ota", "reboot", "anchor",
                                         "enroll", "generate", "provision"}
  BY SettingsApart
<1>7. OnTrack(p)' BY <1>1, <1>4, <1>5, <1>6 DEF OnTrack
<1>8. Asks(p)' BY <1>1, <1>4, <1>5, <1>6 DEF Asks
<1>9. seen' \in [Procs -> Keys \cup {None, "unknown"}] BY <1>3 DEF IInv, TypeOK
<1> QED BY <1>1, <1>2, <1>3, <1>7, <1>8, <1>9, LookKeeps

\* A look at the node or at the seed: what it shows decides where the command goes.
LEMMA LooksKeep ==
    ASSUME IInv, NEW p \in Procs, LookKey(p) \/ LoadSeed(p) \/ Identity(p) \/ LookToken(p)
    PROVE  IInv'
<1>0. /\ TypeOK /\ OnTrack(p) /\ seen \in [Procs -> Keys \cup {None, "unknown"}]
      /\ node \in Node /\ node.key \in Keys \cup {None}
      /\ seed \in Keys \cup {None, Torn}
  BY DEF IInv, TypeOK, Node
<1>1. CASE LookKey(p)
  <2>1. PICK x \in {"refused", "change", "error"} :
          /\ at[p] = "look" /\ Cmd(p) \in {"generate", "provision"} /\ Go(p, x)
          /\ \/ /\ seen' = [seen EXCEPT ![p] = node.key]
                /\ x = "change" => ~(Guarded(p) /\ ~Has(p, "force"))
             \/ seen' = [seen EXCEPT ![p] = "unknown"]
             \/ x = "error" /\ UNCHANGED seen
          /\ UNCHANGED <<job, read, base, gone, polls, device, files, history>>
    BY <1>1 DEF LookKey
  <2>2. x \in Steps \cup Ends /\ x \notin {"truncate", "write", "ok"} BY DEF Steps, Ends
  <2>3. at'[p] = x BY <1>0, <2>1, <2>2, GoProperties
  <2>4. seen' \in [Procs -> Keys \cup {None, "unknown"}] /\ \A q \in Procs \ {p} : seen'[q] = seen[q]
    BY <1>0, <2>1
  <2>5. OnTrack(p)' BY <2>1, <2>3 DEF OnTrack, Cmd
  <2>6. Asks(p)' BY <1>0, <2>1, <2>3 DEF Asks, Cmd, Has, Guarded
  <2> QED BY <2>1, <2>2, <2>4, <2>5, <2>6, LookKeeps
<1>2. CASE LoadSeed(p)
  <2>1. at[p] = "load" /\ Cmd(p) \in {"anchor", "enroll"} BY <1>2 DEF LoadSeed
  <2>2. CASE seed \in {None, Torn}
    <3>1. Go(p, "error") /\ UNCHANGED <<job, memory, device, files, history>>
      BY <1>2, <2>2 DEF LoadSeed, Fail
    <3> QED BY <2>1, <3>1, EndKeeps
  <2>3. CASE seed \notin {None, Torn}
    <3>1. PICK x \in {"identity", "change"} :
            /\ Go(p, x) /\ (x = "identity" <=> Cmd(p) = "enroll")
            /\ seen' = [seen EXCEPT ![p] = seed]
            /\ UNCHANGED <<job, read, base, gone, polls, device, files, history>>
      BY <1>2, <2>3 DEF LoadSeed
    <3>2. x \in Steps \cup Ends /\ x \notin {"truncate", "write", "ok"} BY DEF Steps, Ends
    <3>3. at'[p] = x BY <1>0, <3>1, <3>2, GoProperties
    <3>4. /\ seen' \in [Procs -> Keys \cup {None, "unknown"}] /\ seen'[p] \in Keys
          /\ \A q \in Procs \ {p} : seen'[q] = seen[q]
      BY <1>0, <2>3, <3>1
    <3>5. OnTrack(p)' /\ Asks(p)' BY <2>1, <3>1, <3>3, <3>4 DEF OnTrack, Asks, Cmd
    <3> QED BY <2>1, <3>1, <3>2, <3>4, <3>5, LookKeeps
  <2> QED BY <2>2, <2>3
<1>3. CASE Identity(p) \/ LookToken(p)
  <2>1. CASE Fail(p) /\ at[p] \in {"identity", "look"} BY <2>1, EndKeeps DEF Fail
  <2>2. CASE ~(Fail(p) /\ at[p] \in {"identity", "look"})
    <3>1. PICK x \in {"change", "load", "ok"} :
            /\ Go(p, x) /\ UNCHANGED <<job, memory, device, files, history>>
            /\ IF x = "change" THEN at[p] = "identity" ELSE at[p] = "look" /\ Cmd(p) = "pair"
      BY <1>3, <2>2 DEF Identity, LookToken
    <3>2. x \in Steps \cup Ends /\ x \notin {"truncate", "write"} BY DEF Steps, Ends
    <3>3. at'[p] = x BY <1>0, <3>1, <3>2, GoProperties
    <3>4. UNCHANGED <<seen, read, base, gone, polls>> BY <3>1 DEF memory
    <3>5. OnTrack(p)' /\ Asks(p)' BY <1>0, <3>1, <3>3, <3>4 DEF OnTrack, Asks, Cmd
    <3>6. x = "ok" => Cmd(p) \notin Settings /\ Cmd(p) # "ota" BY <3>1, SettingsApart
    <3> QED BY <1>0, <3>1, <3>2, <3>4, <3>5, <3>6, LookKeeps
  <2> QED BY <2>1, <2>2
<1> QED BY <1>1, <1>2, <1>3

\* The read after the change, and the checks of a wait that only look.
LEMMA ChecksKeep ==
    ASSUME IInv, NEW p \in Procs, Confirm(p) \/ PollUptime(p) \/ Reach(p)
    PROVE  IInv'
<1>0. /\ TypeOK /\ OnTrack(p) /\ Waited(p) /\ seen \in [Procs -> Keys \cup {None, "unknown"}]
      /\ base[p] \in {0, 1, Age} /\ uptime \in {1, Age} /\ Age \in Nat /\ Age > 6
  BY ProvisioningAssumption DEF IInv, TypeOK
<1>1. CASE Go(p, "error")
  BY <1>1, EndKeeps DEF Confirm, PollUptime, Reach, Fail
<1>2. CASE ~Go(p, "error")
  <2>1. PICK x \in {"ok", "poll"} :
          /\ Go(p, x) /\ UNCHANGED <<job, memory, device, files, history>>
          /\ x = "poll" => at[p] \in {"uptime", "reach"}
          /\ at[p] \in {"confirm", "uptime", "reach"}
          /\ x = "ok" /\ at[p] = "uptime" => Reset(p)
          /\ x = "ok" /\ at[p] = "reach" => up
    BY <1>2 DEF Confirm, PollUptime, Reach, Fail
  <2>2. x \in Steps \cup Ends /\ x \notin {"truncate", "write"} BY DEF Steps, Ends
  <2>3. at'[p] = x BY <1>0, <2>1, <2>2, GoProperties
  <2>4. UNCHANGED <<seen, read, base, gone, polls>> /\ UNCHANGED <<took, lost>>
    BY <2>1 DEF memory, history
  <2>5. OnTrack(p)' /\ Asks(p)' BY <1>0, <2>1, <2>3, <2>4 DEF OnTrack, Asks, Cmd
  <2>6. Cmd(p) \notin Settings BY <1>0, <2>1, SettingsApart DEF OnTrack
  <2>7. x = "ok" => Cmd(p) # "ota" \/ Restarted(p)
    <3>1. CASE at[p] = "confirm" BY <1>0, <3>1 DEF OnTrack
    <3>2. CASE at[p] = "uptime" /\ x = "ok"
      <4>1. uptime + 5 < base[p] BY <2>1, <3>2 DEF Reset
      <4>2. base[p] = Age /\ uptime # Age BY <1>0, <4>1
      <4> QED BY <1>0, <4>2 DEF Waited, Restarted
    <3>3. CASE at[p] = "reach" /\ x = "ok" BY <1>0, <2>1, <3>3 DEF OnTrack, Waited
    <3> QED BY <2>1, <3>1, <3>2, <3>3
  <2> QED BY <1>0, <2>1, <2>2, <2>4, <2>5, <2>6, <2>7, LookKeeps
<1> QED BY <1>1, <1>2

\* ok:false in a successful call.
LEMMA DeclinedKeeps ==
    ASSUME IInv, NEW p \in Procs, NEW cmd, Declined(p, cmd)
    PROVE  IInv'
<1>1. /\ at[p] = "change" /\ Go(p, Answered(p))
      /\ UNCHANGED <<job, memory, device, files, history>>
  BY DEF Declined
<1>2. CASE Cmd(p) = "sleep"
  <2>1. Go(p, "ok") BY <1>1, <1>2 DEF Answered
  <2>2. "ok" \in Steps \cup Ends BY DEF Ends
  <2>3. at'[p] = "ok" BY <2>1, <2>2, GoProperties DEF IInv
  <2>4. UNCHANGED <<seen, read, base, gone, polls>> BY <1>1 DEF memory
  <2>5. seen' \in [Procs -> Keys \cup {None, "unknown"}] BY <2>4 DEF IInv, TypeOK
  <2>6. OnTrack(p)' /\ Asks(p)' BY <1>1, <1>2, <2>3 DEF OnTrack, Asks, Cmd
  <2>7. Cmd(p) \notin Settings BY <1>2, SettingsApart
  <2> QED BY <1>1, <1>2, <2>1, <2>2, <2>4, <2>5, <2>6, <2>7, LookKeeps
<1>3. CASE Cmd(p) # "sleep" BY <1>1, <1>3, EndKeeps DEF Answered
<1> QED BY <1>2, <1>3

\* A call that changes the node, whatever becomes of it: the settings are a matter of
\* the commands that set them.
LEMMA CallKeeps ==
    ASSUME IInv, NEW p \in Procs, NEW cmd, NEW news, NEW next \in {"ok", "confirm", "reboot"},
           Call(p, cmd, news, next), news \subseteq Node,
           next = "confirm" => cmd \in {"provision", "enable"}, next = "reboot" => cmd = "wifi",
           SettingsHold'
    PROVE  IInv'
<1>0. TypeOK /\ OnTrack(p) /\ node \in Node /\ took \subseteq Procs
  BY DEF IInv, TypeOK
<1>1. PICK x \in {"error", next} :
        /\ at[p] = "change" /\ Cmd(p) = cmd /\ Go(p, x)
        /\ node' \in {node} \cup news
        /\ took' = IF x = "error" THEN took ELSE took \cup {p}
        /\ UNCHANGED <<job, memory, up, uptime, boots, due, files, lost, since, saved, excused>>
  BY DEF Call
<1>2. x \in Steps \cup Ends /\ x \notin {"truncate", "write"} BY DEF Steps, Ends
<1>3. at' \in [Procs -> Steps \cup Ends] /\ at'[p] = x BY <1>0, <1>1, <1>2, GoProperties
<1>4. UNCHANGED <<seen, read, base, gone, polls, seed, tokens>> BY <1>1 DEF memory, files
<1>5. node' \in Node /\ took' \subseteq Procs /\ took \subseteq took' BY <1>0, <1>1
<1>6. TypeOK' BY <1>0, <1>1, <1>3, <1>4, <1>5 DEF TypeOK
<1>7. x # "error" => p \in took' BY <1>1
<1>8. OnTrack(p)' BY <1>1, <1>3, <1>7 DEF OnTrack, Cmd
<1>9. Asks(p)' BY <1>1, <1>3 DEF Asks
<1>10. \A q \in Procs : OnTrack(q)' /\ Asks(q)'
  BY <1>1, <1>2, <1>4, <1>5, <1>8, <1>9, OthersOnTrack
<1>11. Cmd(p) # "ota" BY <1>0, <1>1 DEF OnTrack
<1>12. \A q \in Procs : Waited(q)' BY <1>1, <1>2, <1>4, <1>11, WaitsKept
<1>13. SeedKept' /\ TokensKept' BY <1>1, <1>2, <1>4, FilesUntouched
<1> QED BY <1>6, <1>10, <1>12, <1>13 DEF IInv

\* The calls that have nothing to do with settings.
LEMMA OtherCallKeeps ==
    ASSUME IInv, NEW p \in Procs, NEW cmd, NEW news, NEW next \in {"ok", "confirm", "reboot"},
           Call(p, cmd, news, next), news \subseteq SameSettings,
           next = "confirm" => cmd \in {"provision", "enable"}, next = "reboot" => cmd = "wifi",
           cmd \notin Settings
    PROVE  IInv'
<1>1. PICK x \in {"error", next} :
        /\ Cmd(p) = cmd /\ Go(p, x) /\ node' \in {node} \cup news /\ UNCHANGED job
  BY DEF Call
<1>2. x \in Steps \cup Ends BY DEF Steps, Ends
<1>3. node'.set = node.set BY <1>1 DEF SameSettings
<1>4. SettingsHold' BY <1>1, <1>2, <1>3, SettingsKept
<1>5. news \subseteq Node BY DEF SameSettings
<1> QED BY <1>4, <1>5, CallKeeps

LEMMA KeyAndAnchorKeep ==
    ASSUME IInv, NEW p \in Procs, Generate(p) \/ Provision(p) \/ SetAnchor(p) \/ SetEndorsement(p)
    PROVE  IInv'
<1>0. /\ TypeOK /\ OnTrack(p) /\ node \in Node /\ IsJob(job[p])
      /\ node.anchor \in Keys \cup {None}
  BY DEF IInv, TypeOK, Node
<1>1. {"generate", "provision", "anchor", "enroll"} \cap Settings = {} BY SettingsApart
<1>2. CASE Generate(p) \/ Provision(p)
  <2>1. Cmd(p) \in {"generate", "provision"} BY <1>2 DEF Generate, Provision, Call
  <2>2. job[p].arg \in Keys BY <1>0, <2>1 DEF IsJob, Cmd
  <2>3. {[node EXCEPT !.key = job[p].arg]} \subseteq SameSettings
    BY <1>0, <2>2, KeyFieldsProperties
  <2> QED BY <1>1, <1>2, <2>3, OtherCallKeeps DEF Generate, Provision
<1>3. CASE SetAnchor(p)
  <2>1. seen[p] \in Keys BY <1>0, <1>3 DEF SetAnchor, Call, OnTrack
  <2>2. {[node EXCEPT !.anchor = seen[p]]} \subseteq SameSettings
    BY <1>0, <2>1, KeyFieldsProperties
  <2> QED BY <1>1, <1>3, <2>2, OtherCallKeeps DEF SetAnchor
<1>4. CASE SetEndorsement(p)
  <2> DEFINE news == IF node.anchor = seen[p] THEN {[node EXCEPT !.endorsed = seen[p]]} ELSE {}
  <2>1. news \subseteq SameSettings BY <1>0, KeyFieldsProperties
  <2> QED BY <1>1, <1>4, <2>1, OtherCallKeeps DEF SetEndorsement
<1> QED BY <1>2, <1>3, <1>4

LEMMA SwitchesKeep ==
    ASSUME IInv, NEW p \in Procs,
           EnableAuth(p) \/ DisableAuth(p) \/ ApplyPasskey(p) \/ SetWifi(p) \/ StartRollCall(p)
    PROVE  IInv'
<1>0. TypeOK /\ node \in Node /\ IsJob(job[p]) BY DEF IInv, TypeOK
<1>1. {"enable", "disable", "passkey", "clear", "wifi", "rollcall"} \cap Settings = {}
  BY SettingsApart
<1>2. Cmd(p) # "pair" => job[p].arg \in Keys BY <1>0 DEF IsJob, Cmd
<1>3. CASE EnableAuth(p) \/ DisableAuth(p)
  <2>1. {[node EXCEPT !.token = TRUE]} \subseteq SameSettings
    BY <1>0, FlagFieldsProperties
  <2>2. {[node EXCEPT !.token = FALSE]} \subseteq SameSettings
    BY <1>0, FlagFieldsProperties
  <2>3. CASE EnableAuth(p) BY <1>1, <2>1, <2>3, OtherCallKeeps DEF EnableAuth
  <2>4. CASE DisableAuth(p) BY <1>1, <2>2, <2>4, OtherCallKeeps DEF DisableAuth
  <2> QED BY <1>3, <2>3, <2>4
<1>4. ASSUME NEW cmd \in {"passkey", "clear"}, NEW key,
             cmd = "passkey" => key = job[p].arg, cmd = "clear" => key = None,
             SetPasskey(p, cmd, key)
      PROVE  IInv'
  <2>1. CASE Declined(p, cmd) BY <2>1, DeclinedKeeps
  <2>2. CASE Call(p, cmd, {}, "ok") BY <1>1, <2>2, OtherCallKeeps
  <2>3. CASE Call(p, cmd, {[node EXCEPT !.passkey = key]}, "ok")
    <3>1. key \in Keys \cup {None} BY <1>2, <1>4, <2>3 DEF Call
    <3>2. {[node EXCEPT !.passkey = key]} \subseteq SameSettings
      BY <1>0, <3>1, KeyFieldsProperties
    <3> QED BY <1>1, <2>3, <3>2, OtherCallKeeps
  <2> QED BY <1>4, <2>1, <2>2, <2>3 DEF SetPasskey
<1>5. CASE ApplyPasskey(p) BY <1>4, <1>5 DEF ApplyPasskey
<1>6. CASE SetWifi(p)
  <2>1. PICK next \in {"ok", "reboot"} : Call(p, "wifi", {[node EXCEPT !.wifi = job[p].arg]}, next)
    BY <1>6 DEF SetWifi
  <2>2. job[p].arg \in Keys BY <1>2, <2>1 DEF Call
  <2>3. {[node EXCEPT !.wifi = job[p].arg]} \subseteq SameSettings
    BY <1>0, <2>2, KeyFieldsProperties
  <2> QED BY <1>1, <2>1, <2>3, OtherCallKeeps
<1>7. CASE StartRollCall(p)
  <2> DEFINE news == IF node.calling THEN {} ELSE {[node EXCEPT !.calling = TRUE]}
  <2>1. news \subseteq SameSettings BY <1>0, FlagFieldsProperties
  <2> QED BY <1>1, <1>7, <2>1, OtherCallKeeps, DeclinedKeeps DEF StartRollCall
<1> QED BY <1>3, <1>5, <1>6, <1>7

\* A setting changes what it was given: other commands that named it are excused, the
\* rest keep theirs, because no command line names a slot.
LEMMA SetSettingKeeps == ASSUME IInv, NEW p \in Procs, SetSetting(p) PROVE IInv'
<1>0. /\ TypeOK /\ node \in Node /\ node.set \in [Names -> Values]
      /\ \A q \in Procs : IsJob(job[q])
  BY DEF IInv, TypeOK, Node
<1> DEFINE news(cmd) == UNION {{[node EXCEPT !.set = new] : new \in Applied(node.set, r)} :
                               r \in Requests(cmd, job[p].given)}
<1>1. PICK cmd \in Settings : Call(p, cmd, news(cmd), "ok") BY DEF SetSetting
<1>2. ASSUME NEW n \in news(cmd)
      PROVE  /\ n \in Node
             /\ \A s \in Names \cap DOMAIN job[p].given : n.set[s] = job[p].given[s]
             /\ \A s \in Names \ (Slots \cup DOMAIN job[p].given) : n.set[s] = node.set[s]
  <2>r. PICK r \in Requests(cmd, job[p].given) :
          n \in {[node EXCEPT !.set = new] : new \in Applied(node.set, r)}
    BY <1>2
  <2>1. PICK new \in Applied(node.set, r) : n = [node EXCEPT !.set = new] BY <2>r
  <2>2. r = job[p].given BY RequestsProperties
  <2>3. /\ new \in [Names -> Values]
        /\ \A s \in Names \cap DOMAIN job[p].given : new[s] = job[p].given[s]
        /\ \A s \in Names \ (Slots \cup DOMAIN job[p].given) : new[s] = node.set[s]
    BY <1>0, <2>2, AppliedProperties DEF IsJob
  <2>4. n \in Node /\ n.set = new BY <1>0, <2>1, <2>3, SettingsFieldProperties
  <2> QED BY <2>3, <2>4
<1>3. PICK x \in {"error", "ok"} :
        /\ Go(p, x) /\ UNCHANGED job
        /\ IF x = "ok" THEN node' \in news(cmd) ELSE node' \in {node} \cup news(cmd)
  BY <1>1 DEF Call
<1>4. x \in Steps \cup Ends BY DEF Ends
<1>5. at'[p] = x /\ \A q \in Procs \ {p} : at'[q] = at[q] BY <1>0, <1>3, <1>4, GoProperties
<1>6. SettingsHold'
  <2> SUFFICES ASSUME NEW q \in Procs, at'[q] = "ok", Cmd(q) \in Settings,
                      NEW s \in Names \cap DOMAIN job[q].given
               PROVE  \/ node'.set[s] = job[q].given[s]
                      \/ \E r \in Procs \ {q} : s \in DOMAIN job[r].given
    BY <1>3 DEF SettingsHold, Cmd
  <2>1. CASE q = p BY <1>2, <1>3, <1>5, <2>1
  <2>2. CASE q # p /\ s \in DOMAIN job[p].given BY <2>2
  <2>3. CASE q # p /\ s \notin DOMAIN job[p].given
    <3>1. s \notin Slots
      <4>1. "add" \notin Names /\ "remove" \notin Names /\ "tone" \notin Names
        BY DEF Names, Radio, Beacon, Slots
      <4> QED BY <1>0, <4>1 DEF IsJob
    <3>2. node'.set[s] = node.set[s] BY <1>2, <1>3, <2>3, <3>1
    <3>3. at[q] = "ok" BY <1>5, <2>3
    <3>4. \/ node.set[s] = job[q].given[s]
          \/ \E r \in Procs \ {q} : s \in DOMAIN job[r].given
      BY <3>3 DEF IInv, SettingsHold
    <3> QED BY <3>2, <3>4
  <2> QED BY <2>1, <2>2, <2>3
<1>7. news(cmd) \subseteq Node BY <1>2
<1> QED BY <1>1, <1>6, <1>7, CallKeeps

\* The node is asked to restart, or told about a firmware.
LEMMA RebootAndRequestKeep ==
    ASSUME IInv, NEW p \in Procs, Reboot(p) \/ Request(p)
    PROVE  IInv'
<1>0. TypeOK /\ OnTrack(p) /\ up \in BOOLEAN /\ due \in BOOLEAN BY DEF IInv, TypeOK
<1>1. PICK x \in {"ok", "poll", "refused", "error"} :
        /\ Go(p, x) /\ due' \in {TRUE, due, up}
        /\ took' = IF x \in {"ok", "poll"} THEN took \cup {p} ELSE took
        /\ \/ at[p] = "reboot" \/ (at[p] = "change" /\ Cmd(p) = "sleep")
           \/ at[p] = "request" /\ (x = "ok" => ~(Has(p, "wait") /\ ~Has(p, "json")))
        /\ x = "poll" => at[p] = "request"
        /\ UNCHANGED <<job, memory, node, up, uptime, boots, files, lost, since, saved, excused>>
  BY DEF Reboot, Request
<1>2. x \in Steps \cup Ends /\ x \notin {"truncate", "write"} BY DEF Steps, Ends
<1>3. at' \in [Procs -> Steps \cup Ends] /\ at'[p] = x BY <1>0, <1>1, <1>2, GoProperties
<1>4. UNCHANGED <<seen, read, base, gone, polls, seed, tokens>> BY <1>1 DEF memory, files
<1>5. took' \subseteq Procs /\ took \subseteq took' /\ due' \in BOOLEAN BY <1>0, <1>1 DEF TypeOK
<1>6. TypeOK' BY <1>0, <1>1, <1>3, <1>4, <1>5 DEF TypeOK
<1>7. Cmd(p) \in {"reboot", "wifi", "sleep", "ota"} /\ (Cmd(p) = "ota" => at[p] = "request")
  BY <1>0, <1>1 DEF OnTrack
<1>8. Cmd(p) \notin Settings BY <1>7, SettingsApart
<1>9. OnTrack(p)'
  <2>1. x \in {"ok", "poll"} => p \in took' BY <1>1
  <2>2. x = "poll" => Cmd(p) = "ota" BY <1>0, <1>1 DEF OnTrack
  <2> QED BY <1>1, <1>3, <2>1, <2>2 DEF OnTrack, Cmd
<1>10. Asks(p)' BY <1>1, <1>3 DEF Asks
<1>11. \A q \in Procs : OnTrack(q)' /\ Asks(q)'
  BY <1>1, <1>2, <1>4, <1>5, <1>9, <1>10, OthersOnTrack
<1>12. \A q \in Procs : Waited(q)' BY <1>1, <1>2, <1>4, <1>7, WaitsKept
<1>13. SettingsHold' BY <1>1, <1>2, <1>8, SettingsKept
<1>14. SeedKept' /\ TokensKept' BY <1>1, <1>2, <1>4, FilesUntouched
<1> QED BY <1>6, <1>11, <1>12, <1>13, <1>14 DEF IInv

\* The baseline is an uptime of this boot, or none.
LEMMA BaselineKeeps == ASSUME IInv, NEW p \in Procs, Baseline(p) PROVE IInv'
<1>0. /\ TypeOK /\ OnTrack(p) /\ boots \in Nat /\ uptime \in {1, Age} /\ Age \in Nat /\ Age > 6
      /\ base \in [Procs -> {0, 1, Age}] /\ since \in [Procs -> Nat]
  BY ProvisioningAssumption DEF IInv, TypeOK
<1>1. /\ at[p] = "baseline" /\ Go(p, "request") /\ since' = [since EXCEPT ![p] = boots]
      /\ base' = [base EXCEPT ![p] = uptime] \/ base' = [base EXCEPT ![p] = 0]
      /\ UNCHANGED <<job, seen, read, gone, polls, device, files, took, lost, saved, excused>>
  BY DEF Baseline
<1>2. "request" \in Steps \cup Ends BY DEF Steps
<1>3. /\ at' \in [Procs -> Steps \cup Ends] /\ at'[p] = "request"
      /\ \A q \in Procs \ {p} : at'[q] = at[q]
  BY <1>0, <1>1, <1>2, GoProperties
<1>4. UNCHANGED <<node, up, uptime, boots, due, seed, tokens>> BY <1>1 DEF device, files
<1>5. /\ base' \in [Procs -> {0, 1, Age}] /\ since' \in [Procs -> Nat]
      /\ since'[p] = boots /\ base'[p] \in {uptime, 0}
      /\ \A q \in Procs \ {p} : base'[q] = base[q] /\ since'[q] = since[q]
  BY <1>0, <1>1
<1>6. TypeOK' BY <1>0, <1>1, <1>3, <1>4, <1>5 DEF TypeOK
<1>7. OnTrack(p)' /\ Asks(p)' BY <1>0, <1>1, <1>3 DEF OnTrack, Asks, Cmd
<1>8. \A q \in Procs : OnTrack(q)' /\ Asks(q)' BY <1>1, <1>2, <1>7, OthersOnTrack
<1>9. ASSUME NEW q \in Procs PROVE Waited(q)'
  <2>1. CASE q = p
    <3>1. p \notin gone BY <1>0, <1>1 DEF OnTrack
    <3> QED BY <1>0, <1>1, <1>3, <1>4, <1>5, <2>1, <3>1 DEF Waited
  <2>2. CASE q # p
    <3>1. Waited(q) BY DEF IInv
    <3> QED BY <1>1, <1>3, <1>4, <1>5, <2>2, <3>1 DEF Waited, Restarted, Cmd, Has
  <2> QED BY <2>1, <2>2
<1>10. SettingsHold' BY <1>1, <1>2, <1>4, SettingsKept
<1>11. SeedKept' /\ TokensKept' BY <1>1, <1>2, <1>4, FilesUntouched
<1> QED BY <1>6, <1>8, <1>9, <1>10, <1>11 DEF IInv

\* A node that comes back has another boot than any wait began with.
LEMMA RestartKeeps == ASSUME IInv, Restart PROVE IInv'
<1>0. TypeOK /\ boots \in Nat /\ since \in [Procs -> Nat] /\ uptime \in {1, Age}
  BY DEF IInv, TypeOK
<1>1. UNCHANGED <<job, at, seen, read, base, gone, polls, node, seed, tokens, took, lost, since,
                  saved, excused>>
  BY DEF Restart, procs, memory, files, history
<1>2. up' \in BOOLEAN /\ due' \in BOOLEAN /\ uptime' \in {1, Age} /\ boots' \in Nat
  <2>1. up \in BOOLEAN /\ due \in BOOLEAN BY DEF IInv, TypeOK
  <2>2. CASE up /\ due /\ up' = FALSE /\ due' = FALSE /\ UNCHANGED <<uptime, boots>> BY <1>0, <2>2
  <2>3. CASE ~up /\ up' = TRUE /\ uptime' = 1 /\ boots' = boots + 1 /\ UNCHANGED due
    BY <1>0, <2>1, <2>3
  <2>4. CASE up /\ uptime' = Age /\ UNCHANGED <<up, boots, due>> BY <1>0, <2>1, <2>4
  <2> QED BY <2>2, <2>3, <2>4 DEF Restart
<1>3. TypeOK' BY <1>0, <1>1, <1>2 DEF TypeOK
<1>4. \A q \in Procs : OnTrack(q)' /\ Asks(q)'
  BY <1>1 DEF IInv, OnTrack, Asks, Cmd, Has
<1>5. ASSUME NEW q \in Procs PROVE Waited(q)'
  <2>0. Waited(q) /\ since[q] \in Nat BY <1>0 DEF IInv
  <2>1. CASE ~up /\ up' = TRUE /\ uptime' = 1 /\ boots' = boots + 1
    <3>1. boots' > since[q] BY <1>0, <2>0, <2>1 DEF Waited
    <3> QED BY <1>1, <1>2, <2>0, <3>1 DEF Waited, Restarted, Cmd, Has
  <2>2. CASE up /\ up' = FALSE /\ UNCHANGED <<uptime, boots>>
    BY <1>1, <2>0, <2>2 DEF Waited, Restarted, Cmd, Has
  <2>3. CASE up /\ uptime' = Age /\ UNCHANGED <<up, boots>>
    BY <1>1, <2>0, <2>3 DEF Waited, Restarted, Cmd, Has
  <2> QED BY <2>1, <2>2, <2>3 DEF Restart
<1>6. SettingsHold' BY <1>1 DEF IInv, SettingsHold, Cmd
<1>7. SeedKept' BY <1>1 DEF IInv, SeedKept, NoSeedSaved, File, Cmd, Has
<1>8. TokensKept' BY <1>1 DEF IInv, TokensKept, SavedDevices, File, Cmd
<1> QED BY <1>3, <1>4, <1>5, <1>6, <1>7, <1>8 DEF IInv

\* A check of the wait: a link that is down with the node up counts as lost.
LEMMA PollKeeps == ASSUME IInv, NEW p \in Procs, Poll(p) PROVE IInv'
<1>0. /\ TypeOK /\ OnTrack(p) /\ Waited(p) /\ up \in BOOLEAN /\ gone \subseteq Procs
      /\ lost \subseteq Procs /\ polls \in [Procs -> 0..MaxPolls] /\ MaxPolls \in Nat
  BY ProvisioningAssumption DEF IInv, TypeOK
<1>1. PICK x \in {"ok", "uptime", "poll", "reach", "error"} :
        /\ at[p] = "poll" /\ Go(p, x)
        /\ x = "ok" => up /\ p \in gone
        /\ IF x = "reach" THEN gone' = gone \cup {p} /\ lost' = Missed(p) ELSE UNCHANGED <<gone, lost>>
        /\ UNCHANGED polls \/ (polls[p] < MaxPolls /\ polls' = [polls EXCEPT ![p] = Counted(p)])
        /\ UNCHANGED <<job, seen, read, base, device, files, took, since, saved, excused>>
  BY DEF Poll
<1>2. x \in Steps \cup Ends /\ x \notin {"truncate", "write"} BY DEF Steps, Ends
<1>3. /\ at' \in [Procs -> Steps \cup Ends] /\ at'[p] = x
      /\ \A q \in Procs \ {p} : at'[q] = at[q]
  BY <1>0, <1>1, <1>2, GoProperties
<1>4. UNCHANGED <<node, up, uptime, boots, due, seed, tokens>> BY <1>1 DEF device, files
<1>5. /\ gone' \subseteq Procs /\ lost' \subseteq Procs /\ lost \subseteq lost'
      /\ \A q \in Procs \ {p} : q \in gone' <=> q \in gone
      /\ p \in gone' => p \in gone \/ p \in lost' \/ ~up
  BY <1>0, <1>1 DEF Missed
<1>6. polls' \in [Procs -> 0..MaxPolls]
  <2>1. polls[p] < MaxPolls => polls[p] + 1 \in 0..MaxPolls BY <1>0
  <2> QED BY <1>0, <1>1, <2>1 DEF Counted
<1>7. TypeOK' BY <1>0, <1>1, <1>3, <1>4, <1>5, <1>6 DEF TypeOK
<1>8. OnTrack(p)' /\ Asks(p)' BY <1>0, <1>1, <1>3 DEF OnTrack, Asks, Cmd
<1>9. \A q \in Procs : OnTrack(q)' /\ Asks(q)' BY <1>1, <1>2, <1>5, <1>8, OthersOnTrack
<1>10. ASSUME NEW q \in Procs PROVE Waited(q)'
  <2>1. CASE q = p
    <3>1. p \in gone' => Restarted(p)' \/ ~up' BY <1>0, <1>1, <1>4, <1>5 DEF Waited, Restarted
    <3>2. x = "ok" => Restarted(p)' BY <1>0, <1>1, <1>4, <1>5 DEF Waited, Restarted
    <3> QED BY <1>0, <1>1, <1>3, <1>4, <2>1, <3>1, <3>2 DEF Waited, Restarted
  <2>2. CASE q # p
    <3>1. Waited(q) BY DEF IInv
    <3> QED BY <1>1, <1>3, <1>4, <1>5, <2>2, <3>1 DEF Waited, Restarted, Cmd, Has
  <2> QED BY <2>1, <2>2
<1>11. Cmd(p) \notin Settings BY <1>0, <1>1, SettingsApart DEF OnTrack
<1>12. SettingsHold' BY <1>1, <1>2, <1>4, <1>11, SettingsKept
<1>13. SeedKept' /\ TokensKept' BY <1>1, <1>2, <1>4, FilesUntouched
<1> QED BY <1>7, <1>9, <1>10, <1>12, <1>13 DEF IInv

\* The rest of the invariant has nothing to do with the files.
LEMMA FileStepKeeps ==
    ASSUME IInv, NEW p \in Procs, NEW x \in Steps \cup Ends, Go(p, x),
           UNCHANGED <<job, seen, base, gone, polls, device, took, lost, since>>,
           read' \in [Procs -> SUBSET Devices], \A q \in Procs \ {p} : read'[q] = read[q],
           seed' \in Keys \cup {None, Torn}, tokens' \subseteq Devices \/ tokens' = {Torn},
           saved' \subseteq Files \X (Keys \cup Devices), excused' \subseteq Files,
           x # "killed" => Cmd(p) \in {"create", "import", "pair"},
           OnTrack(p)', x # "change", SeedKept', TokensKept'
    PROVE  IInv'
<1>1. UNCHANGED <<node, up, uptime, boots, due>> BY DEF device
<1>2. at' \in [Procs -> Steps \cup Ends] /\ at'[p] = x BY GoProperties DEF IInv
<1>3. TypeOK' BY <1>1, <1>2 DEF IInv, TypeOK
<1>4. Asks(p)' BY <1>2 DEF Asks
<1>5. \A q \in Procs : OnTrack(q)' /\ Asks(q)' BY <1>4, OthersOnTrack
<1>6. x = "ok" => Cmd(p) \notin Settings /\ Cmd(p) # "ota" BY SettingsApart
<1>7. \A q \in Procs : Waited(q)' BY <1>1, <1>6, WaitsKept
<1>8. SettingsHold' BY <1>1, <1>6, SettingsKept
<1> QED BY <1>3, <1>5, <1>7, <1>8 DEF IInv

\* A process with the seed has no say in the tokens, and the other way around.
LEMMA TokensApart ==
    ASSUME IInv, NEW p \in Procs, NEW x \in Steps \cup Ends, Go(p, x), File(p) = "seed",
           UNCHANGED <<job, read, tokens>>, SavedDevices' = SavedDevices,
           "tokens" \notin excused' => "tokens" \notin excused
    PROVE  TokensKept'
<1>1. \A q \in Procs \ {p} : at'[q] = at[q] BY GoProperties DEF IInv
<1>2. \A q \in Procs : File(q)' = File(q) BY DEF File, Cmd
<1>3. \A q \in Procs : File(q) = "tokens" => q # p BY DEF File
<1>4. TokensKept BY DEF IInv
<1> QED BY <1>1, <1>2, <1>3, <1>4 DEF TokensKept

LEMMA SeedApart ==
    ASSUME IInv, NEW p \in Procs, NEW x \in Steps \cup Ends, Go(p, x), File(p) = "tokens",
           UNCHANGED <<job, seed>>, "seed" \notin excused' => "seed" \notin excused,
           \A s \in Keys : <<"seed", s>> \in saved' <=> <<"seed", s>> \in saved
    PROVE  SeedKept'
<1>1. \A q \in Procs \ {p} : at'[q] = at[q] BY GoProperties DEF IInv
<1>2. \A q \in Procs : File(q)' = File(q) /\ Has(q, "force")' = Has(q, "force")
  BY DEF File, Cmd, Has
<1>3. \A q \in Procs : File(q) = "seed" => q # p BY DEF File
<1>4. NoSeedSaved' <=> NoSeedSaved BY DEF NoSeedSaved
<1>5. SeedKept BY DEF IInv
<1> QED BY <1>1, <1>2, <1>3, <1>4, <1>5 DEF SeedKept

\* A file that a process leaves unspoiled was its own, and not forced on it.
LEMMA SpoilsProperties ==
    ASSUME NEW p \in Procs, excused \subseteq Files
    PROVE  /\ Spoils(p) \subseteq Files /\ excused \subseteq Spoils(p)
           /\ \A f \in Files : f # File(p) /\ f \notin excused => f \notin Spoils(p)
           /\ File(p) \notin Spoils(p) =>
                /\ File(p) \notin excused /\ (Cmd(p) # "pair" => ~Has(p, "force"))
                /\ \A q \in Procs \ {p} : File(q) = File(p) => at[q] \notin {"truncate", "write"}
<1>1. File(p) \in Files BY DEF File, Files
<1>2. File(p) \notin Spoils(p) => Writing(File(p)) = {p} BY <1>1 DEF Spoils
<1> QED BY <1>1, <1>2 DEF Spoils, Writing

\* A process that finds no seed is to write one: none was saved either.
LEMMA StatSeedKeeps == ASSUME IInv, NEW p \in Procs, StatSeed(p) PROVE IInv'
<1>0. /\ TypeOK /\ OnTrack(p) /\ SeedKept /\ TokensKept /\ seed \in Keys \cup {None, Torn}
      /\ read \in [Procs -> SUBSET Devices]
  BY DEF IInv, TypeOK
<1>1. PICK x \in {"refused", "truncate"} :
        /\ at[p] = "stat" /\ Go(p, x) /\ (x = "truncate" => seed = None \/ Has(p, "force"))
        /\ UNCHANGED <<job, memory, device, files, history>>
  BY DEF StatSeed, Taken
<1>2. x \in Steps \cup Ends BY DEF Steps, Ends
<1>3. at'[p] = x /\ \A q \in Procs \ {p} : at'[q] = at[q] BY <1>0, <1>1, <1>2, GoProperties
<1>4. UNCHANGED <<seen, read, base, gone, polls, seed, tokens, took, lost, since, saved, excused>>
  BY <1>1 DEF memory, files, history
<1>5. Cmd(p) \in {"create", "import"} BY <1>0, <1>1 DEF OnTrack
<1>6. OnTrack(p)' BY <1>1, <1>3, <1>5 DEF OnTrack, Cmd
<1>7. \A q \in Procs : at'[q] = "write" <=> at[q] = "write" BY <1>1, <1>3
<1>8. SeedKept'
  <2> SUFFICES ASSUME "seed" \notin excused PROVE SeedKept' BY <1>4 DEF SeedKept
  <2>1. seed = None => NoSeedSaved BY <1>0, WordsProperties DEF SeedKept, NoSeedSaved
  <2>2. \A q \in Procs : File(q)' = File(q) /\ Has(q, "force")' = Has(q, "force")
    BY <1>1 DEF File, Cmd, Has
  <2>3. NoSeedSaved' = NoSeedSaved BY <1>4 DEF NoSeedSaved
  <2> QED BY <1>0, <1>1, <1>3, <1>4, <1>7, <2>1, <2>2, <2>3 DEF SeedKept
<1>9. TokensKept'
  <2>1. File(p) = "seed" BY <1>5 DEF File
  <2>2. SavedDevices' = SavedDevices BY <1>4 DEF SavedDevices
  <2> QED BY <1>1, <1>2, <1>4, <2>1, <2>2, TokensApart
<1> QED BY <1>0, <1>1, <1>2, <1>4, <1>5, <1>6, <1>8, <1>9, FileStepKeeps DEF IInv, TypeOK

\* A process that reads the tokens has all of them, or another is in the middle of
\* writing them.
LEMMA LoadTokensKeeps == ASSUME IInv, NEW p \in Procs, LoadTokens(p) PROVE IInv'
<1>0. /\ TypeOK /\ SeedKept /\ TokensKept /\ read \in [Procs -> SUBSET Devices]
      /\ tokens \subseteq Devices \/ tokens = {Torn}
      /\ IsJob(job[p])
  BY DEF IInv, TypeOK
<1>1. /\ at[p] = "load" /\ Cmd(p) = "pair" /\ Go(p, "truncate")
      /\ \/ read' = [read EXCEPT ![p] = Parsed \cup {job[p].arg}] /\ UNCHANGED excused
         \/ read' = [read EXCEPT ![p] = {job[p].arg}] /\ excused' = excused \cup {"tokens"}
      /\ UNCHANGED <<job, seen, base, gone, polls, device, files, took, lost, since, saved>>
  BY DEF LoadTokens
<1>2. "truncate" \in Steps \cup Ends BY DEF Steps
<1>3. at'[p] = "truncate" /\ \A q \in Procs \ {p} : at'[q] = at[q]
  BY <1>0, <1>1, <1>2, GoProperties
<1>4. /\ UNCHANGED <<seed, tokens, took, lost, since, saved>>
      /\ excused' \in {excused, excused \cup {"tokens"}}
  BY <1>1 DEF files
<1>5. Parsed \subseteq Devices /\ job[p].arg \in Devices BY <1>0, <1>1 DEF Parsed, IsJob, Cmd
<1>6. /\ read' \in [Procs -> SUBSET Devices] /\ job[p].arg \in read'[p]
      /\ "tokens" \notin excused' => excused' = excused /\ read'[p] = Parsed \cup {job[p].arg}
      /\ \A q \in Procs \ {p} : read'[q] = read[q]
  BY <1>0, <1>1, <1>5
<1>7. OnTrack(p)' BY <1>1, <1>3, <1>6 DEF OnTrack, Cmd
<1>8. \A q \in Procs : at'[q] = "write" <=> at[q] = "write" BY <1>1, <1>3
<1>9. \A q \in Procs : File(q)' = File(q) BY <1>1 DEF File, Cmd
<1>10. File(p) = "tokens" BY <1>1 DEF File
<1>11. SeedKept' BY <1>1, <1>2, <1>4, <1>10, SeedApart
<1>12. TokensKept'
  <2> SUFFICES ASSUME "tokens" \notin excused' PROVE TokensKept' BY DEF TokensKept
  <2>1. SavedDevices' = SavedDevices BY <1>4 DEF SavedDevices
  <2>2. ASSUME "tokens" \notin excused, \A q \in Procs : File(q) = "tokens" => at[q] # "write"
        PROVE  SavedDevices \subseteq read'[p]
    <3>1. SavedDevices \subseteq tokens BY <1>0, <2>2 DEF TokensKept
    <3>2. Torn \notin SavedDevices BY WordsProperties DEF SavedDevices
    <3> QED BY <1>6, <3>1, <3>2 DEF Parsed
  <2>3. ASSUME "tokens" \notin excused, NEW q \in Procs, File(q) = "tokens", at'[q] = "truncate"
        PROVE  \/ SavedDevices \subseteq read'[q]
               \/ \E r \in Procs \ {q} : File(r) = "tokens" /\ at'[r] = "write"
    <3>1. CASE q = p
      <4>1. \/ SavedDevices \subseteq read'[p]
            \/ \E r \in Procs : File(r) = "tokens" /\ at[r] = "write"
        BY <2>2, <2>3
      <4> QED BY <1>1, <1>8, <3>1, <4>1
    <3>2. CASE q # p BY <1>0, <1>3, <1>6, <1>8, <2>3, <3>2 DEF TokensKept
    <3> QED BY <3>1, <3>2
  <2>4. ASSUME "tokens" \notin excused, NEW q \in Procs, File(q) = "tokens", at'[q] = "write"
        PROVE  SavedDevices \subseteq read'[q]
    BY <1>0, <1>3, <1>6, <2>4 DEF TokensKept
  <2>5. ASSUME "tokens" \notin excused, \A q \in Procs : File(q) = "tokens" => at'[q] # "write"
        PROVE  SavedDevices \subseteq tokens
    BY <1>0, <1>8, <2>5 DEF TokensKept
  <2> QED BY <1>4, <1>6, <1>9, <2>1, <2>3, <2>4, <2>5 DEF TokensKept
<1>13. excused' \subseteq Files BY <1>0, <1>4 DEF TypeOK, Files
<1> QED
  BY <1>0, <1>1, <1>2, <1>4, <1>6, <1>7, <1>11, <1>12, <1>13, FileStepKeeps DEF IInv, TypeOK

\* A file that is emptied unspoiled held nothing the process does not know of.
LEMMA TruncateKeeps == ASSUME IInv, NEW p \in Procs, Truncate(p) PROVE IInv'
<1>0. /\ TypeOK /\ OnTrack(p) /\ SeedKept /\ TokensKept /\ excused \subseteq Files
      /\ seed \in Keys \cup {None, Torn} /\ (tokens \subseteq Devices \/ tokens = {Torn})
  BY DEF IInv, TypeOK
<1>1. PICK x \in {"write", "ok", "error"} :
        /\ at[p] = "truncate" /\ Go(p, x) /\ excused' = Spoils(p)
        /\ IF x # "write" THEN UNCHANGED files
           ELSE IF File(p) = "seed" THEN seed' = Torn /\ UNCHANGED tokens
           ELSE tokens' = {Torn} /\ UNCHANGED seed
        /\ UNCHANGED <<job, memory, device, took, lost, since, saved>>
  BY DEF Truncate
<1>2. x \in Steps \cup Ends BY DEF Steps, Ends
<1>3. at'[p] = x /\ \A q \in Procs \ {p} : at'[q] = at[q] BY <1>0, <1>1, <1>2, GoProperties
<1>4. UNCHANGED <<seen, read, base, gone, polls>> BY <1>1 DEF memory
<1>5. /\ seed' \in Keys \cup {None, Torn} /\ (tokens' \subseteq Devices \/ tokens' = {Torn})
      /\ File(p) = "seed" => UNCHANGED tokens
      /\ File(p) # "seed" => UNCHANGED seed
  BY <1>0, <1>1 DEF files
<1>6. /\ Cmd(p) \in {"create", "import", "pair"} /\ File(p) \in {"seed", "tokens"}
  BY <1>0, <1>1 DEF OnTrack, File
<1>7. OnTrack(p)' BY <1>0, <1>1, <1>3, <1>4 DEF OnTrack, Cmd
<1>8. \A q \in Procs : File(q)' = File(q) /\ Has(q, "force")' = Has(q, "force")
  BY <1>1 DEF File, Cmd, Has
<1>9. SavedDevices' = SavedDevices /\ NoSeedSaved' = NoSeedSaved
  BY <1>1 DEF SavedDevices, NoSeedSaved
<1>10. \A f \in Files : f \notin excused' => f \notin excused BY <1>0, <1>1, SpoilsProperties
<1>11. /\ Go(p, x) /\ UNCHANGED <<job, seen, base, gone, polls, device, took, lost, since>>
       /\ read' \in [Procs -> SUBSET Devices] /\ \A q \in Procs \ {p} : read'[q] = read[q]
       /\ UNCHANGED read /\ x # "killed" /\ x # "change"
       /\ saved' \subseteq Files \X (Keys \cup Devices) /\ excused' \subseteq Files
  BY <1>0, <1>1, <1>4, SpoilsProperties DEF TypeOK
<1>12. CASE File(p) = "seed"
  <2>1. TokensKept' BY <1>1, <1>2, <1>4, <1>5, <1>9, <1>10, <1>12, TokensApart DEF Files
  <2>2. SeedKept'
    <3> SUFFICES ASSUME "seed" \notin excused' PROVE SeedKept' BY DEF SeedKept
    <3>1. /\ "seed" \notin excused /\ ~Has(p, "force")
          /\ \A q \in Procs \ {p} : File(q) = "seed" => at[q] \notin {"truncate", "write"}
      BY <1>0, <1>1, <1>12, SpoilsProperties DEF File
    <3>2. NoSeedSaved BY <1>0, <1>1, <1>12, <3>1 DEF SeedKept
    <3>3. x = "write" => seed' = Torn BY <1>1, <1>12
    <3>4. \A s \in Keys : <<"seed", s>> \notin saved' BY <1>1, <3>2 DEF NoSeedSaved
    <3> QED BY <1>1, <1>3, <1>8, <1>9, <3>1, <3>2, <3>3, <3>4 DEF SeedKept
  <2> QED BY <1>2, <1>5, <1>6, <1>7, <1>11, <2>1, <2>2, FileStepKeeps
<1>13. CASE File(p) = "tokens"
  <2>1. SeedKept' BY <1>1, <1>2, <1>5, <1>10, <1>13, SeedApart DEF Files
  <2>2. TokensKept'
    <3> SUFFICES ASSUME "tokens" \notin excused' PROVE TokensKept' BY DEF TokensKept
    <3>1. /\ "tokens" \notin excused
          /\ \A q \in Procs \ {p} : File(q) = "tokens" => at[q] \notin {"truncate", "write"}
      BY <1>0, <1>1, <1>13, SpoilsProperties
    <3>2. SavedDevices \subseteq read[p] BY <1>0, <1>1, <1>13, <3>1 DEF TokensKept
    <3>3. SavedDevices \subseteq tokens BY <1>0, <1>1, <3>1 DEF TokensKept
    <3>4. x # "write" => tokens' = tokens BY <1>1 DEF files
    <3> QED BY <1>1, <1>3, <1>4, <1>8, <1>9, <1>13, <3>1, <3>2, <3>3, <3>4 DEF TokensKept
  <2> QED BY <1>2, <1>5, <1>6, <1>7, <1>11, <2>1, <2>2, FileStepKeeps
<1> QED BY <1>6, <1>12, <1>13

\* A write that succeeds unspoiled leaves what was saved, and what is saved by it.
LEMMA WriteKeeps == ASSUME IInv, NEW p \in Procs, Write(p) PROVE IInv'
<1>0. /\ TypeOK /\ OnTrack(p) /\ SeedKept /\ TokensKept /\ excused \subseteq Files
      /\ seed \in Keys \cup {None, Torn} /\ (tokens \subseteq Devices \/ tokens = {Torn})
      /\ saved \subseteq Files \X (Keys \cup Devices) /\ read \in [Procs -> SUBSET Devices]
      /\ IsJob(job[p])
  BY DEF IInv, TypeOK
<1>1. PICK x \in {"ok", "error"} :
        /\ at[p] = "write" /\ Go(p, x)
        /\ UNCHANGED <<job, memory, device, took, lost, since>>
        /\ \/ /\ IF File(p) = "seed"
                THEN seed' = job[p].arg /\ UNCHANGED tokens
                ELSE tokens' = read[p] /\ UNCHANGED seed
             /\ saved' = saved \cup {<<File(p), job[p].arg>>}
             /\ excused' = Spoils(p)
           \/ UNCHANGED <<files, saved>> /\ excused' = excused \cup {File(p)}
  BY DEF Write, File
<1>2. x \in Steps \cup Ends /\ x # "write" /\ x # "truncate" BY DEF Steps, Ends
<1>3. at'[p] = x /\ \A q \in Procs \ {p} : at'[q] = at[q] BY <1>0, <1>1, <1>2, GoProperties
<1>4. UNCHANGED <<seen, read, base, gone, polls>> BY <1>1 DEF memory
<1>5. Cmd(p) \in {"create", "import", "pair"} BY <1>0, <1>1 DEF OnTrack
<1>6. /\ File(p) \in {"seed", "tokens"} /\ (File(p) = "seed" => job[p].arg \in Keys)
      /\ File(p) = "tokens" => job[p].arg \in Devices /\ job[p].arg \in read[p]
  BY <1>0, <1>1, <1>5 DEF OnTrack, File, IsJob, Cmd
<1>7. OnTrack(p)' BY <1>1, <1>3, <1>5 DEF OnTrack, Cmd
<1>8. \A q \in Procs : File(q)' = File(q) /\ Has(q, "force")' = Has(q, "force")
  BY <1>1 DEF File, Cmd, Has
<1>9. /\ seed' \in Keys \cup {None, Torn} /\ (tokens' \subseteq Devices \/ tokens' = {Torn})
      /\ saved' \subseteq Files \X (Keys \cup Devices) /\ excused' \subseteq Files
      /\ File(p) = "seed" => UNCHANGED tokens
      /\ File(p) # "seed" => UNCHANGED seed
  <2>1. read[p] \subseteq Devices BY <1>0
  <2>2. <<File(p), job[p].arg>> \in Files \X (Keys \cup Devices) BY <1>6 DEF Files
  <2>3. excused' \subseteq Files BY <1>0, <1>1, <1>6, SpoilsProperties DEF Files
  <2>4. saved' \subseteq Files \X (Keys \cup Devices) BY <1>0, <1>1, <2>2
  <2>5. seed' \in Keys \cup {None, Torn} /\ (File(p) # "seed" => UNCHANGED seed)
    BY <1>0, <1>1, <1>6 DEF files
  <2>6. (tokens' \subseteq Devices \/ tokens' = {Torn}) /\ (File(p) = "seed" => UNCHANGED tokens)
    BY <1>0, <1>1, <2>1 DEF files
  <2> QED BY <2>3, <2>4, <2>5, <2>6
<1>10. \A f \in Files : f \notin excused' => f \notin excused BY <1>0, <1>1, SpoilsProperties
<1>11. /\ Go(p, x) /\ UNCHANGED <<job, seen, base, gone, polls, device, took, lost, since>>
       /\ read' \in [Procs -> SUBSET Devices] /\ \A q \in Procs \ {p} : read'[q] = read[q]
       /\ UNCHANGED read /\ x # "killed" /\ x # "change"
  BY <1>0, <1>1, <1>4
<1>12. CASE File(p) = "seed"
  <2>1. SavedDevices' = SavedDevices BY <1>1, <1>12 DEF SavedDevices
  <2>2. TokensKept' BY <1>1, <1>2, <1>4, <1>9, <1>10, <1>12, <2>1, TokensApart DEF Files
  <2>3. SeedKept'
    <3> SUFFICES ASSUME "seed" \notin excused' PROVE SeedKept' BY DEF SeedKept
    <3>1. /\ "seed" \notin excused
          /\ \A q \in Procs \ {p} : File(q) = "seed" => at[q] \notin {"truncate", "write"}
      BY <1>0, <1>1, <1>12, SpoilsProperties
    <3>2. seed' = job[p].arg /\ saved' = saved \cup {<<"seed", job[p].arg>>} BY <1>1, <1>12
    <3>3. NoSeedSaved BY <1>0, <1>1, <1>12, <3>1 DEF SeedKept
    <3>4. \A s \in Keys : <<"seed", s>> \in saved' => s = seed' BY <3>2, <3>3 DEF NoSeedSaved
    <3>5. \A q \in Procs : File(q) = "seed" => at'[q] \notin {"truncate", "write"}
      BY <1>2, <1>3, <3>1
    <3> QED BY <1>8, <3>4, <3>5 DEF SeedKept
  <2> QED BY <1>2, <1>5, <1>7, <1>9, <1>11, <2>2, <2>3, FileStepKeeps
<1>13. CASE File(p) = "tokens"
  <2>1. \A s \in Keys : <<"seed", s>> \in saved' <=> <<"seed", s>> \in saved BY <1>1, <1>13
  <2>2. SeedKept' BY <1>1, <1>2, <1>9, <1>10, <1>13, <2>1, SeedApart DEF Files
  <2>3. TokensKept'
    <3> SUFFICES ASSUME "tokens" \notin excused' PROVE TokensKept' BY DEF TokensKept
    <3>1. /\ "tokens" \notin excused
          /\ \A q \in Procs \ {p} : File(q) = "tokens" => at[q] \notin {"truncate", "write"}
      BY <1>0, <1>1, <1>13, SpoilsProperties
    <3>2. tokens' = read[p] /\ saved' = saved \cup {<<"tokens", job[p].arg>>} BY <1>1, <1>13
    <3>3. SavedDevices \subseteq read[p] BY <1>0, <1>1, <1>13, <3>1 DEF TokensKept
    <3>4. SavedDevices' \subseteq tokens' BY <1>6, <1>13, <3>2, <3>3 DEF SavedDevices
    <3>5. \A q \in Procs : File(q) = "tokens" => at'[q] \notin {"truncate", "write"}
      BY <1>2, <1>3, <3>1
    <3> QED BY <1>8, <3>4, <3>5 DEF TokensKept
  <2> QED BY <1>2, <1>5, <1>7, <1>9, <1>11, <2>2, <2>3, FileStepKeeps
<1> QED BY <1>6, <1>12, <1>13

\* A process that is killed in the middle of a write spoils its file, and only then.
LEMMA KillKeeps == ASSUME IInv, NEW p \in Procs, Kill(p) PROVE IInv'
<1>0. TypeOK /\ SeedKept /\ TokensKept /\ excused \subseteq Files BY DEF IInv, TypeOK
<1>1. /\ Go(p, "killed")
      /\ excused' = IF at[p] = "write" THEN excused \cup {File(p)} ELSE excused
      /\ UNCHANGED <<job, memory, device, files, took, lost, since, saved>>
  BY DEF Kill
<1>2. "killed" \in Steps \cup Ends BY DEF Ends
<1>3. at'[p] = "killed" /\ \A q \in Procs \ {p} : at'[q] = at[q]
  BY <1>0, <1>1, <1>2, GoProperties
<1>4. UNCHANGED <<seen, read, base, gone, polls, seed, tokens>> BY <1>1 DEF memory, files
<1>5. OnTrack(p)' BY <1>3 DEF OnTrack
<1>6. \A q \in Procs : File(q)' = File(q) /\ Has(q, "force")' = Has(q, "force")
  BY <1>1 DEF File, Cmd, Has
<1>7. SavedDevices' = SavedDevices /\ NoSeedSaved' = NoSeedSaved
  BY <1>1 DEF SavedDevices, NoSeedSaved
<1>8. excused' \subseteq Files /\ excused \subseteq excused' BY <1>0, <1>1 DEF File, Files
<1>9. SeedKept'
  <2>1. CASE at[p] = "write" /\ File(p) = "seed" BY <1>1, <2>1 DEF SeedKept
  <2>2. CASE ~(at[p] = "write" /\ File(p) = "seed")
    BY <1>0, <1>1, <1>3, <1>4, <1>6, <1>7, <1>8, <2>2 DEF SeedKept
  <2> QED BY <2>1, <2>2
<1>10. TokensKept'
  <2>1. CASE at[p] = "write" /\ File(p) = "tokens" BY <1>1, <2>1 DEF TokensKept
  <2>2. CASE ~(at[p] = "write" /\ File(p) = "tokens")
    BY <1>0, <1>1, <1>3, <1>4, <1>6, <1>7, <1>8, <2>2 DEF TokensKept
  <2> QED BY <2>1, <2>2
<1> QED BY <1>1, <1>2, <1>4, <1>5, <1>8, <1>9, <1>10, FileStepKeeps DEF IInv, TypeOK

\* Every step of a process, every restart of the node and every kill keeps the
\* inductive invariant.
THEOREM Invariance == Spec => []IInv
<1>1. ASSUME IInv, NEW p \in Procs, Step(p) PROVE IInv'
  <2>1. CASE ReadKey(p) \/ ReadPasskey(p) \/ ReadWifi(p) \/ ReadBackup(p) \/ ReadSeconds(p)
               \/ ReadSetting(p)
    BY <1>1, <2>1, InputKeeps
  <2>2. CASE LookKey(p) \/ LoadSeed(p) \/ Identity(p) \/ LookToken(p) BY <1>1, <2>2, LooksKeep
  <2>3. CASE Confirm(p) \/ PollUptime(p) \/ Reach(p) BY <1>1, <2>3, ChecksKeep
  <2>4. CASE Generate(p) \/ Provision(p) \/ SetAnchor(p) \/ SetEndorsement(p)
    BY <1>1, <2>4, KeyAndAnchorKeep
  <2>5. CASE EnableAuth(p) \/ DisableAuth(p) \/ ApplyPasskey(p) \/ SetWifi(p) \/ StartRollCall(p)
    BY <1>1, <2>5, SwitchesKeep
  <2>6. CASE SetSetting(p) BY <1>1, <2>6, SetSettingKeeps
  <2>7. CASE Reboot(p) \/ Request(p) BY <1>1, <2>7, RebootAndRequestKeep
  <2>8. CASE RefuseSleep(p) BY <1>1, <2>8, DeclinedKeeps DEF RefuseSleep
  <2>9. CASE StatSeed(p) \/ LoadTokens(p) BY <1>1, <2>9, StatSeedKeeps, LoadTokensKeeps
  <2>10. CASE Truncate(p) \/ Write(p) BY <1>1, <2>10, TruncateKeeps, WriteKeeps
  <2>11. CASE Baseline(p) \/ Poll(p) BY <1>1, <2>11, BaselineKeeps, PollKeeps
  <2> QED BY <1>1, <2>1, <2>2, <2>3, <2>4, <2>5, <2>6, <2>7, <2>8, <2>9, <2>10, <2>11 DEF Step
<1>2. ASSUME IInv, UNCHANGED vars PROVE IInv'
  <2>1. UNCHANGED <<job, at, seen, read, base, gone, polls, node, up, uptime, boots, due, seed,
                    tokens, took, lost, since, saved, excused>>
    BY <1>2 DEF vars, procs, memory, device, files, history
  <2>2. TypeOK' BY <1>2, <2>1 DEF IInv, TypeOK
  <2>3. \A q \in Procs : OnTrack(q)' /\ Asks(q)' /\ Waited(q)'
    BY <1>2, <2>1 DEF IInv, OnTrack, Asks, Waited, Restarted, Cmd, Has
  <2>4. SettingsHold' BY <1>2, <2>1 DEF IInv, SettingsHold, Cmd
  <2>5. SeedKept' BY <1>2, <2>1 DEF IInv, SeedKept, NoSeedSaved, File, Cmd, Has
  <2>6. TokensKept' BY <1>2, <2>1 DEF IInv, TokensKept, SavedDevices, File, Cmd
  <2> QED BY <2>2, <2>3, <2>4, <2>5, <2>6 DEF IInv
<1>3. IInv /\ [Next]_vars => IInv' BY <1>1, <1>2, RestartKeeps, KillKeeps DEF Next
<1> QED BY <1>3, InitIInv, PTL DEF Spec

-----------------------------------------------------------------------------
(* Theorems *)

\* The processes, the node and the files are well formed for any command lines.
THEOREM TypeCorrect == Spec => []TypeOK
<1>1. IInv => TypeOK BY DEF IInv
<1> QED BY <1>1, Invariance, PTL

\* A command that reports success had its effect, an update that was waited for
\* restarted the node unless a check was lost, and no command sends a setting it was
\* not given.
THEOREM SuccessCorrect == Spec => []SuccessIsReal
<1>1. IInv => SuccessIsReal
  BY DEF IInv, SuccessIsReal, OnTrack, Waited, Restarted
<1> QED BY <1>1, Invariance, PTL

\* What was reported as saved is on file, whatever stopped since, but for a forced,
\* failed, killed or concurrent write.
THEOREM FilesCorrect == Spec => []FilesKept
<1>1. IInv => FilesKept BY DEF IInv, FilesKept, SeedKept, TokensKept, SavedDevices
<1> QED BY <1>1, Invariance, PTL

\* A step of one process leaves the others at the call they are about to make.
LEMMA StepGoes == ASSUME NEW q \in Procs, Step(q) PROVE \E x : Go(q, x)
<1>1. CASE ReadKey(q) \/ ReadPasskey(q) \/ ReadWifi(q) \/ ReadBackup(q) \/ ReadSeconds(q)
             \/ ReadSetting(q)
  BY <1>1 DEF ReadKey, ReadPasskey, ReadWifi, ReadBackup, ReadSeconds, ReadSetting, Input
<1>2. CASE LookKey(q) \/ LoadSeed(q) \/ Identity(q) \/ LookToken(q) \/ LoadTokens(q)
  BY <1>2 DEF LookKey, LoadSeed, Identity, LookToken, LoadTokens, Fail
<1>3. CASE Confirm(q) \/ PollUptime(q) \/ Reach(q) \/ Baseline(q) \/ Poll(q)
  BY <1>3 DEF Confirm, PollUptime, Reach, Baseline, Poll, Fail
<1>4. ASSUME NEW cmd, Declined(q, cmd) PROVE \E x : Go(q, x) BY <1>4 DEF Declined
<1>5. ASSUME NEW cmd, NEW news, NEW next, Call(q, cmd, news, next) PROVE \E x : Go(q, x)
  BY <1>5 DEF Call
<1>6. CASE Generate(q) \/ Provision(q) \/ SetAnchor(q) \/ SetEndorsement(q) \/ EnableAuth(q)
             \/ DisableAuth(q) \/ SetWifi(q) \/ SetSetting(q)
  BY <1>5, <1>6 DEF Generate, Provision, SetAnchor, SetEndorsement, EnableAuth, DisableAuth,
                    SetWifi, SetSetting
<1>7. CASE ApplyPasskey(q) \/ StartRollCall(q) \/ RefuseSleep(q)
  BY <1>4, <1>5, <1>7 DEF ApplyPasskey, SetPasskey, StartRollCall, RefuseSleep
<1>8. CASE Reboot(q) \/ Request(q) \/ StatSeed(q) \/ Truncate(q) \/ Write(q)
  BY <1>8 DEF Reboot, Request, StatSeed, Truncate, Write
<1> QED BY <1>1, <1>2, <1>3, <1>6, <1>7, <1>8 DEF Step

\* A call that changes other fields of the node leaves its key.
LEMMA CallLeavesKey ==
    ASSUME NEW p, NEW cmd, NEW news, NEW next, Call(p, cmd, news, next),
           \A n \in news : n.key = node.key
    PROVE  node'.key = node.key
  BY DEF Call

LEMMA OtherFieldsLeaveKey ==
    ASSUME node \in Node, NEW v
    PROVE  \A n \in {[node EXCEPT !.anchor = v], [node EXCEPT !.endorsed = v],
                     [node EXCEPT !.token = v], [node EXCEPT !.passkey = v],
                     [node EXCEPT !.wifi = v], [node EXCEPT !.calling = v],
                     [node EXCEPT !.set = v]} : n.key = node.key
  BY DEF Node

\* Of the commands that are about to change something, generate and provision alone
\* change the key.
LEMMA OnlyTheyReKey ==
    ASSUME NEW p \in Procs, Step(p), at[p] = "change", node \in Node, node'.key # node.key
    PROVE  Generate(p) \/ Provision(p)
<1>1. node.key # node'.key /\ node' # node OBVIOUS
<1>2. CASE SetAnchor(p)
  <2>1. \A n \in {[node EXCEPT !.anchor = seen[p]]} : n.key = node.key BY OtherFieldsLeaveKey
  <2> QED BY <1>1, <1>2, <2>1, CallLeavesKey DEF SetAnchor
<1>3. CASE SetEndorsement(p)
  <2> DEFINE news == IF node.anchor = seen[p] THEN {[node EXCEPT !.endorsed = seen[p]]} ELSE {}
  <2>1. \A n \in news : n.key = node.key BY OtherFieldsLeaveKey
  <2>2. Call(p, "enroll", news, "ok") BY <1>3 DEF SetEndorsement
  <2> QED BY <1>1, <2>1, <2>2, CallLeavesKey
<1>4. CASE EnableAuth(p)
  <2> DEFINE news == {[node EXCEPT !.token = TRUE]}
  <2>1. \A n \in news : n.key = node.key BY OtherFieldsLeaveKey
  <2>2. Call(p, "enable", news, "confirm") BY <1>4 DEF EnableAuth
  <2> HIDE DEF news
  <2> QED BY <1>1, <2>1, <2>2, CallLeavesKey
<1>5. CASE DisableAuth(p)
  <2> DEFINE news == {[node EXCEPT !.token = FALSE]}
  <2>1. \A n \in news : n.key = node.key BY OtherFieldsLeaveKey
  <2>2. Call(p, "disable", news, "ok") BY <1>5 DEF DisableAuth
  <2> HIDE DEF news
  <2> QED BY <1>1, <2>1, <2>2, CallLeavesKey
<1>6. ASSUME NEW cmd, Declined(p, cmd) PROVE FALSE BY <1>1, <1>6 DEF Declined, device
<1>7. CASE ApplyPasskey(p)
  <2>1. PICK cmd, key : SetPasskey(p, cmd, key) BY <1>7 DEF ApplyPasskey
  <2>2. \A n \in {[node EXCEPT !.passkey = key]} : n.key = node.key BY OtherFieldsLeaveKey
  <2>3. PICK news \in {{}, {[node EXCEPT !.passkey = key]}} : Call(p, cmd, news, "ok")
    BY <1>6, <2>1 DEF SetPasskey
  <2> QED BY <1>1, <2>2, <2>3, CallLeavesKey
<1>8. CASE SetWifi(p)
  <2> DEFINE news == {[node EXCEPT !.wifi = job[p].arg]}
  <2>1. \A n \in news : n.key = node.key BY OtherFieldsLeaveKey
  <2>2. PICK next : Call(p, "wifi", news, next) BY <1>8 DEF SetWifi
  <2> HIDE DEF news
  <2> QED BY <1>1, <2>1, <2>2, CallLeavesKey
<1>9. CASE StartRollCall(p)
  <2> DEFINE news == IF node.calling THEN {} ELSE {[node EXCEPT !.calling = TRUE]}
  <2>1. \A n \in news : n.key = node.key BY OtherFieldsLeaveKey
  <2>2. Call(p, "rollcall", news, "ok") BY <1>6, <1>9 DEF StartRollCall
  <2> QED BY <1>1, <2>1, <2>2, CallLeavesKey
<1>10. CASE SetSetting(p)
  <2> DEFINE news(cmd) == UNION {{[node EXCEPT !.set = new] : new \in Applied(node.set, r)} :
                                 r \in Requests(cmd, job[p].given)}
  <2>1. PICK cmd \in Settings : Call(p, cmd, news(cmd), "ok") BY <1>10 DEF SetSetting
  <2>2. ASSUME NEW n \in news(cmd) PROVE n.key = node.key
    <3>1. PICK new : n = [node EXCEPT !.set = new] BY <2>2
    <3> QED BY <3>1, OtherFieldsLeaveKey
  <2> QED BY <1>1, <2>1, <2>2, CallLeavesKey
<1>11. CASE Reboot(p) \/ RefuseSleep(p)
  BY <1>1, <1>6, <1>11 DEF Reboot, RefuseSleep
<1>12. ~(ReadKey(p) \/ ReadPasskey(p) \/ ReadWifi(p) \/ ReadBackup(p) \/ ReadSeconds(p)
          \/ ReadSetting(p) \/ LookKey(p) \/ LoadSeed(p) \/ Identity(p) \/ LookToken(p)
          \/ LoadTokens(p) \/ Confirm(p) \/ PollUptime(p) \/ Reach(p) \/ Baseline(p) \/ Poll(p)
          \/ Request(p) \/ StatSeed(p) \/ Truncate(p) \/ Write(p))
  BY DEF ReadKey, ReadPasskey, ReadWifi, ReadBackup, ReadSeconds, ReadSetting, Input, LookKey,
         LoadSeed, Identity, LookToken, LoadTokens, Confirm, PollUptime, Reach, Baseline, Poll,
         Request, StatSeed, Truncate, Write
<1> QED BY <1>2, <1>3, <1>4, <1>5, <1>7, <1>8, <1>9, <1>10, <1>11, <1>12 DEF Step

\* A command that is not forced replaces the key of a node only if it could not see it,
\* or it was replaced since.
THEOREM ReKeyCorrect == Spec => ReKeyAsked
<1> DEFINE Asked == \A p \in Procs :
                     at[p] = "change" /\ at'[p] # "change" /\ ~Has(p, "force")
                         /\ node.key # None /\ node'.key # node.key
                       => seen[p] = "unknown" \/ seen[p] # node.key
<1>1. IInv /\ [Next]_vars => [Asked]_vars
  <2> SUFFICES ASSUME IInv, Next PROVE Asked OBVIOUS
  <2> SUFFICES ASSUME NEW p \in Procs, at[p] = "change", at'[p] # "change", ~Has(p, "force"),
                      node.key # None, node'.key # node.key
               PROVE  seen[p] = "unknown" \/ seen[p] # node.key
    OBVIOUS
  <2>0. TypeOK /\ OnTrack(p) /\ Asks(p) /\ at \in [Procs -> Steps \cup Ends] /\ node \in Node
    BY DEF IInv, TypeOK
  <2>1. node' # node /\ at' # at OBVIOUS
  <2>2. PICK q \in Procs : Step(q) BY <2>1 DEF Next, Restart, Kill, procs, device
  <2>3. q = p
    <3>1. PICK x : Go(q, x) BY <2>2, StepGoes
    <3> QED BY <2>0, <3>1 DEF Go
  <2>4. Generate(p) \/ Provision(p) BY <2>0, <2>2, <2>3, OnlyTheyReKey
  <2>5. Cmd(p) \in {"generate", "provision"} /\ node'.key = job[p].arg
    <3>1. [node EXCEPT !.key = job[p].arg].key = job[p].arg BY <2>0 DEF Node
    <3>2. \/ Call(p, "generate", {[node EXCEPT !.key = job[p].arg]}, "ok")
          \/ Call(p, "provision", {[node EXCEPT !.key = job[p].arg]}, "confirm")
      BY <2>4 DEF Generate, Provision
    <3>3. Cmd(p) \in {"generate", "provision"} BY <3>2 DEF Call
    <3>4. node' = node \/ node' = [node EXCEPT !.key = job[p].arg] BY <3>2 DEF Call
    <3> QED BY <2>1, <3>1, <3>3, <3>4
  <2> QED BY <2>0, <2>5 DEF Asks
<1> QED BY <1>1, Invariance, PTL DEF Spec, ReKeyAsked
=============================================================================
