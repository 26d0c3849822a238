# bramble-cli in TLA+

TLA+ models of the command line client and terminal user interface (TUI) of the
Bramble LoRa mesh (`src/`), the TLC configurations that check them on small
instances, and TLAPS proofs of their main invariants for all values of the
constants. `PROJECT.json` lists components, runs, mutants, findings, hazards and
theorems, and maps every definition that models code to the lines it models.

File and line references are to the Go sources: `tui.go` is
`internal/tui/tui.go`, `commands/tui.go` is `internal/commands/tui.go`.

## 1. The system

`bramble` is one process that talks to one radio node over serial, WebSocket or
BLE through the SDK (`bramble.Client`, not part of this repository). Most
subcommands make one RPC and print the answer. The parts with state of their own:

| Part | State | Operations | What must hold |
|---|---|---|---|
| **TUI connection** `tui.go`, `bridge.go`, `commands/tui.go` | `connected`, `client`, `backoffSec`, `retryIn`; polls, timers and dials in flight; the push callbacks of each client | status tick, poll result, reconnect timer, dial, dial result | one reconnect attempt at a time; no client leaked or closed while in use; backoff 1, 2, 4 .. 30 s; it recovers |
| **TUI conversations** `store.go`, `tui.go`, `commands.go` | conversations with messages, lines and unread counts; active conversation; the scrollback; delivery receipts and their anchors | send, `/msg`, send result, push, receipt, switch, `/clear`, preload | the screen is the transcript; receipts sit under the message they confirm; unread counts are right; a clear is for good |
| **Message database** `msgdb.go`, `store.go`, `commands/tui.go` | SQLite rows, goroutines that write them | upsert, status update, preload, start-up fetch | no row invented or lost; what a session was told is stored |
| **mesh-test** `commands/meshtest.go` | connected nodes, receipt channel, receipts of the window, report | connect, choose sender, broadcast, collect, report | a credit is a real receipt; no queued receipt is lost; the report adds up; the command ends |
| **Airtime lockout, input line, commands** `tui.go`, `input.go`, `commands.go` | lockout, tick chains, text, history, draft; the last airtime report; the question of `/reboot` | key, Enter, handling of what was entered, buffer switch, airtime report, lock tick | a depleted tier blocks sends and the block ends; a refused text can be recalled; no reboot unasked |
| **Device book** `devices/devices.go`, `picker.go`, `commands/devices.go` | the file of aliases, hosts and tokens; the copy each process holds | load, add, remove, save, pick | a save changes what was meant; the picker shows the file |
| **Target of the TUI** `commands/tui.go`, `root.go` | flags, the alias's entry, the connected target, the token in use | resolve, dial, probe, prompt, offer to save, reconnect | a token stays with its host, a reconnect with its device |
| **Collection windows** `broadcast.go`, `probe.go`, `monitor.go`, `traffic.go`, `console.go`, `fleet.go`, `mdns.go` | bounded channels, filters, timers, results | register, ask, collect, match, complete, stop | what is due is counted, nothing stays in a channel, the window closes |
| **Provisioning and settings** `netkey.go`, `anchor.go`, `auth.go`, `ble_security.go`, `wifi.go`, `rollcall.go`, `reboot.go`, `sleep.go`, `pair.go`, `ota.go`, `config.go`, `channels.go`, `beacon_policy.go`, ... | `anchor.seed`, `tokens.json`; what the command saw of the node | look, change, confirm; load, truncate, write; upload and wait for the restart | a success is reported only for a success; a key is not replaced unasked; files keep what was saved; settings are not undone by another command |
| **Location** `location.go`, `location_doctor.go` | the rules a command builds from file and flags; the doctor's five reads | set, remove, share; read, diagnose | the doctor's verdict is never without evidence |
| Names, packet parsing, rendering, formatting, commands that only read | caches and layout | | see section 7 |

How they interact. The TUI is a Bubble Tea program: one loop goroutine handles
one message at a time; a handler returns *commands*, each of which runs in a
goroutine and posts one message when it is done. Pushes arrive on SDK goroutines
and `Bridge` posts them to the loop. A command captures what it needs when it is
created, and its result is handled under whatever state the loop is in by then:
this is where most of the hard behaviour comes from. The store starts one more
goroutine for each database write and never waits for it. The connection changes
the client under everything else; conversations do not depend on which client it
is, so the two are modelled separately. Before the loop starts, `runTUI` chooses
a target and a token, possibly through the picker; the address book it reads and
writes is a plain file that every bramble process of the user reads and writes whole,
without a lock.

The other subcommands are one process each, without a TUI, and end. Those that collect
answers register callbacks that the SDK runs in goroutines of its own, most of which put
what they get into a channel without waiting; a select loop takes it out, next to a timer,
a signal or a completion. Those that set a node up make several calls and write files; the
operator may run two of them at once, and the node may restart, or take a call whose answer
is lost, between any two of their steps.

What is hard to test here: results that arrive after the state they were made
for has gone (polls of replaced clients, sends answered after a switch),
receipts that overtake the result they belong to, two ways of producing one screen
(append and redraw), unordered database writers and a process that ends without
waiting for them, bounded channels that drop, timers that race with answers, checks made at Enter that no
longer hold when the message is handled, a node and files that change between the look and
the act of a command.
`PROJECT.json` has each of these under "hazards" with the line where it bites.

## 2. Modules

| Module | What it is |
|---|---|
| `Session` | the abstract promise of the connection: online, waiting, dialing; waits double up to a ceiling and start over |
| `Connection` | the connection life cycle in detail; implements `Session` (`ImplementsSession`) |
| `MCConnection`, `Connection*.cfg` | checking |
| `ConnectionProofs` | theorems |
| `Conversations` | store, screen, sends, pushes, receipts |
| `MCConversations`, `Conversations*.cfg` | checking |
| `ConversationsProofs` | theorems |
| `MsgPersistence` | database, writers, sessions and crashes |
| `MCMsgPersistence`, `MsgPersistence*.cfg` | checking |
| `MsgPersistenceProofs` | theorems |
| `MeshTest` | the mesh-test command |
| `MCMeshTest`, `MeshTest*.cfg` | checking |
| `MeshTestProofs` | theorems |
| `DeviceBook` | the address book: load, picker, save in two system calls, for any number of processes |
| `TuiTarget` | the start of the TUI and its reconnects, over `DeviceBook`, whose actions its steps on the book are |
| `MCTuiTarget`, `TuiTarget*.cfg` | checking, of both |
| `TuiTargetProofs` | theorems about both |
| `TuiInput` | the input line, the airtime lockout and the dispatch of what is typed |
| `MCTuiInput`, `TuiInput_Airtime.cfg`, `TuiInput_Commands.cfg` | checking: the lockout; refusals and reboots |
| `TuiInputProofs` | theorems |
| `Collection` | nine commands that wait for answers, as one window with different ways in and out |
| `MCCollection`, `Collection*.cfg` | checking |
| `Settings` | operators: what each settings command checks and sends, what the node makes of it |
| `Provisioning` | the commands that set a node up, over `Settings`, the node and the operator's files |
| `MCProvisioning`, `Provisioning*.cfg` | checking |
| `ProvisioningProofs` | theorems |
| `Location` | the commands that change the location configuration, and the doctor |
| `MCLocation`, `Location.cfg` | checking |
| `CommandProofs` | theorems about `Collection` and about `Location`: both are commands that run once, and they share no state. It extends both, so `Location` calls its parts `LocationInit`, `LocationNext`, `LocationSpec` |

Operators named `Fault...` are not part of any specification: each is a definition
with a plausible bug, and replacing the definition by it makes a property fail
("mutants" in `PROJECT.json`), which shows that the property depends on the code.

### Connection

| Code | Model |
|---|---|
| `m.connected`, `m.client`, `m.backoffSec`, `m.retryIn` | `connected`, `client`, `backoff`, `retryIn` |
| `fetchStatus` goroutines, with the client each captured | `fetching[c]` |
| the `tea.Tick` of `scheduleReconnect`, `doReconnect` goroutines, posted results | `timers`, `dials`, `dialErrs`, `dialed` |
| transport of a client, and `Close` | `link[c]` |
| callbacks registered by `Bridge.Start` | `subscribed` |
| handlers of `tickMsg`, `fetchStatusResult`, `reconnectMsg`, `reconnectResult` | `Tick`, `StatusOk`/`StatusErr`, `ReconnectTimer`, `Reconnected`/`ReconnectFailed` |

A client is an identity that can be used again once it is closed and nobody holds
it (`Free`). A reply is received and handled in one step: a drop of the link
between the two commutes with the receipt. `return m, m.scheduleReconnect()` copies
`m` and changes it in one statement, and Go leaves the order of the two open, so it is
a constant (`CallFirst`); the safety theorems are proved for both orders, the run and
the refinement take the order in which the backoff works.

### Conversations

| Code | Model |
|---|---|
| `m.activeConv` and `store.ActiveConvID` (set together in `switchBuffer`) | `active` |
| `Conversation.Messages` and `.Events`, `.Unread` | `log`, `unread` |
| `m.scroll`, with the receipts drawn in it | `screen`, `shown` |
| commands of `sendMessage` and `sendDirectMessage`, with what they captured | `sends` |
| `store.deliveries`, `store.msgCorrelation` | `deliveries`, `correlated` |
| `switchBuffer`, `/clear`, `PreloadFromDB` | `SwitchBuffer`, `Clear`, `Init` |
| the two branches of `sendResultMsg`, and its error | `Sent`, `SentInline`, `SendFailed` |
| `MsgReceived`, `BroadcastDeliveryReceived` | `MsgReceived`, `BroadcastDelivery` |

`seen` and `cleared` are history variables. A line keeps its identity, not its
wording. Order is left out because a redraw sorts by time stamps in seconds, so
lines of one second change places anyway. System lines and command output go to the
store and the screen together, like the failure and note lines that are modelled.
Messages without an address of our own (`IdentityKnown = FALSE`) are filed by the
store and by the loop in different conversations; the properties about the screen
are stated for a known identity. `Undrawn` names the other exception: the message
of a `/msg` to the peer whose conversation is open is filed but not drawn.

### MsgPersistence

| Code | Model |
|---|---|
| table `messages`, column `status` | `row` |
| goroutines of `AddMessage`; of `UpdateAck` and of the receipt handler | `upserts`; `updates` |
| `PreloadFromDB`, the live fetch of `runTUI`, `p.Run` | `Start`, `FetchMessage`, `Run` |
| quitting, or a crash at any time | `Stop` |
| `AddMessage`, `UpdateAck`/`BroadcastDeliveryReceived` | `FileMessage`, `Report` |
| `UpsertMessage`, `UpdateStatus` | operators of the same names, run by `DoUpsert`, `DoUpdate`, `FetchMessage` |

`made` and `reported` are the node's side. SQLite's own durability is assumed: a
statement that ran survives a crash.

### MeshTest

| Code | Model |
|---|---|
| the list of `buildMeshNodeList`, what each transport reaches | `Order`, `Address` (constants) |
| `connected`, progress through the list | `up`, `tried` |
| `selectSender`, `expectedByAddress` | `Sender`, `Expected` |
| `deliveryEvents` (128 entries) | `queue` (`QueueCap`) |
| the loop over broadcasts | `Drain`, `SendOk`/`SendError`, `Take`, `Complete`/`Timeout` |
| `received`, `report.Broadcasts`, `perNode` | `received`, `results`, `perNode` |
| the callback | `Enqueue`, in `Confirm` |

`copies` and `accepted` are history variables. `CreditIsReal` is stated for firmware
that sends broadcast ids (`WithIds`): the code takes any receipt when ids are missing.
Addresses are in upper case, as the firmware prints them; the code compares an
upper-cased recipient with an address it does not change.

### DeviceBook

| Code | Model |
|---|---|
| `devices.json`, readable or not | `file` |
| a process with a `Book` in memory: in the picker's list or at its question, or inside `Save` | `proc[p].at`, `.mem`, `.task`, `.meant` |
| `Load`, one `Add` or `Remove`, and the call of `Save` | `StartSave` (in `CmdAdd`, `CmdRm`, and in `OfferSave` of the TUI) |
| keys of the picker | `PickerOpen`, `PickerDelete`, `PickerConfirm`, `PickerCancel`, `PickerAdd`, `PickerClose` |
| `os.WriteFile`: open with truncation, write | `SaveOpens`, `SaveWrites` |
| an error of either or of the close, and what the picker does with it | `SaveFails` (`Kept`, `Unsaved`, `TakenBack`) |
| a process that is killed | `Die` |

A missing file is an empty book (`Load`), so the initial state is a blank one. `good`,
`foreign` and `lost` are history: the last book that was complete in the file, whether
another process touched the file since this one read or wrote it, and the aliases a save of
which was reported as failed. A save that is reported as failed may have written nothing, a
part, or, if only the close failed, the whole document; `OnlyMeant` speaks of all of them. The picker loads the book once, so it
overwrites what others write while it is open; the properties name this exception
rather than hide it. The two fields of the add form and the list's filter change no
book and are left out.

### TuiTarget

| Code | Model |
|---|---|
| `flagDevice`, `flagTransport`, `flagBLE`, `flagPort`, `flagAuthToken`, `BRAMBLE_TOKEN`, a terminal on stdin | `flags` |
| how far `runTUI` has come | `stage` |
| `resolvedDevice`, the client's device | `resolved`, `target` |
| `resolvedAuthToken` | `Token` |
| the switches of `getClient` and `connectFn` | `DialTarget`, `RedialTarget` |
| `resolveTUITarget` | `NoPicker`, `OpenPicker`, `Edit`, `Choose`, `Quit`, `Unreadable` |
| `dialTUIClient`, `verifyTUIAuth`, the prompt, the second dial | `Dial`/`DialFails`, `Verify`/`Rejected`, `Prompt`/`PromptEmpty`, `Reverify`/`ReverifyFails` |
| `offerSaveToken` | `Decline`, `OfferSave`, `Saved` |

A device is an identity and `NormalizeHost` maps every spelling of a host to one, so
`Hosts` are its values. What a node demands (`Secret`) does not change while the TUI
runs. `first` and `verified` are history. The probe may fail for another reason than
the token, and the UI then starts unverified, as in the code.

### TuiInput

| Code | Model |
|---|---|
| `il.textarea`, `il.history`, `il.historyIdx`, `il.draft`, `il.lockout` | `text`, `history`, `idx` (one more), `draft`, `shown` |
| `m.airtimeLockTicking`, `airtimeLockTickCmd` in flight | `ticking`, `ticks` |
| `store.Airtime`; the budgets of the node | `known`; `node` |
| `InputLine.Update` and `m.refreshInputLockout` after it | `Type`, `Escape`, `HistoryUp`, `HistoryDown`, `Enter` with `Refresh` |
| an `InputMsg` not handled yet | an element of `entries` with fate `"posted"` |
| handler of `InputMsg`, `CommandHandler.Execute` | `HandleSay`, `HandleGoto`, `HandleReboot`, `HandleOther` |
| `switchBuffer`, with its callers | `Switch` in `Goto`, `Click`, `HandleGoto` |
| handlers of `fetchAirtimeResult`, `airtimeLockTickMsg` | `Report`, `LockTick` |

A text is an identity with the branch of `Execute` it takes (`Kind`). `entries` is a history
variable except for the texts still posted, which Bubble Tea may deliver in any order. The
lockout is decided by what the last report left of a tier; the refill time it shows is not
kept, so a lockout ends with a report and not earlier, as in the code, where the tick only
redraws what the store holds.

### Collection

| Code | Model |
|---|---|
| `OnBroadcastDelivery`, `OnProbeResult` ... registered; the port or socket open | `listening` |
| `deliveryCh`, `resultCh` (32 entries); `completeCh`, `matchedCh`; `sigCh` | `queue` (`QueueMax`); `complete`; `quit` |
| responses, deliveries, printed events, rows | `printed` |
| the request; the switch of traffic events | `AskBroadcast` ...; `Enable` |
| the select loop of each command | `Take` and the actions of `Close` |
| the callback of each command | `ArriveQueued`, `ArriveEvent`, `ArriveTraffic`, `ArriveLine`, `ArriveRow` |

All commands share the window and its variables; `command` says which one this process runs.
An answer may arrive as soon as the request is out, listening or not, which is how a probe
loses what is faster than the registration of its callbacks. A probe that is complete drains
its channel one result at a time (`Take` in phase `"draining"`), while more results come, until
it finds the channel empty (`DrainEnds`). Traffic events stay switched on
when the monitor ends, as in the code.

### Provisioning and Settings

| Code | Model |
|---|---|
| the process, the call it is about to make | `job[p]`, `at[p]` |
| `NetworkKeyStatus`, the loaded seed; the loaded `tokens.json`; `baselineUptime`; `sawDisconnect` | `seen[p]`; `read[p]`; `base[p]`; `gone` |
| `anchor.seed`, `tokens.json` | `seed`, `tokens` |
| checks of what was given | `ReadKey`, `ReadPasskey`, `ReadWifi`, `ReadBackup`, `ReadSeconds`, `ReadSetting` |
| one RPC that changes the node | `Generate`, `Provision`, `SetAnchor`, ..., by way of `Call`, or `Declined` for `ok:false` |
| `os.WriteFile` | `Truncate`, `Write` |
| the OTA wait loop | `Poll`, `PollUptime`, `Reach` |
| flags and arguments of a settings command; the request it sends | `job[p].given`; `Requests` (`Settings`) |

A call that fails may have reached the node. Keys, seeds and passkeys are identities, and a
fingerprint stands for its key. `took`, `lost`, `since`, `saved` and `excused` are history:
what the node accepted, which failed checks were wrong, and which files a kill, a second
writer or a forced overwrite may have spoiled. `excused` is the named exception of `FilesKept`:
`os.WriteFile` is neither atomic nor locked, and `pair --save` takes a `tokens.json` it cannot
read or parse for an empty one (`LoadTokens`). A setting is a value of a small set: that
`--bw` is given in kHz and sent in Hz changes the number and not which setting was given.

### Location

| Code | Model |
|---|---|
| file and flags of `set-config`, merged; arguments of the contact commands | `job`, `Built` |
| the checks; the call | `CheckConfig`, `CheckContact`, `CheckPeer`; `SetConfig`, `SetContact`, `RemoveContact`, `ShareOnce` |
| `gatherLocationDoctorInput`, read by read, with the errors it keeps | `Gather`, `read` |
| `diagnoseLocation`, `judgeContactTarget`, `judgeChannelTarget` | `Diagnosis`, `JudgeContact`, `JudgeChannel` |
| neighbours, routes, sessions and the GPS meanwhile | `Drift` |

The default tier is a rule of its own: `set-config` refuses a bad one from file or flag
(`Valid`), and what the doctor says does not depend on it. `set-contact` wants a tier, while
a rule of `set-config` may leave it out.

What the node then does (`Sends`, `Sharing`, `Reaches`) is external: it is what the comments
and the help text of the doctor say of the firmware.

## 3. What is checked

| Run | Bounds | Shows |
|---|---|---|
| `connection` | 4 clients, 2 polls in flight on each | `OneReconnectChain`, `NoClientLeak`, `InUseNotClosed`, refinement of `Session`, `LossDetected`, `StableRecovery` |
| `conversations` | broadcast, a channel, a peer and the own address; 2 sends, 1 push, 1 old message, 1 recipient | `ScreenIsTranscript`, `ReceiptsAnchored`, `UnreadIsUnseen`, `ClearSurvives`, `OutcomeOnRecord`, `NothingVanishes` |
| `persistence` | 2 messages, 2 sessions, preload limit 1 | `RowsAreReported`, `StoredStays`, `EventuallyStored` |
| `mesh_test` | 4 transports to 3 nodes, 2 broadcasts, channel of 2 | `CreditIsReal`, `QueuedReceiptsCount`, `ReportAddsUp`, `Terminates` |
| `tui_target` | 2 processes, 2 aliases, 2 hosts, 2 tokens, 9 command lines | `ListedIsSaved`, `OnlyMeant`, `TokensBelong`, `RunsAuthorized`, `ReconnectsHome` |
| `input_airtime` | 2 buffers, 3 texts, 2 entered, 2 scarce tiers, history of 2, 2 ticks in flight | `LockoutIsCurrent`, `NoDepletedSend`, `LockoutLifts`, `ChainsDieOut` |
| `input_commands` | 2 buffers, 6 texts, 3 entered, history of 1 | `RefusedIsRecallable`, `RebootsWereAsked` |
| `collection` | 9 commands, 4 answers of different kinds, channel of 2 | `ReceiptsAddUp`, `NothingLeftBehind`, `WindowCloses` |
| `provisioning` | 2 processes, 3 keys, 2 devices, 2 checks of an OTA wait, 28 commands in the pairs that share a file or a part of the node | `SuccessIsReal`, `FilesKept`, `ReKeyAsked`, `CommandsEnd` |
| `location` | a contact and a channel, 7 configurations, 11 commands, 2 changes around the node | `OkMeansShared`, `BlockedMeansSilent` |

Why the bounds are enough. *Connection*: one client is kept by the slash commands,
one is in use, one is dialled, and polls of the one replaced before can still be in
flight; with fewer identities the late error of an old poll could not meet a new
dial. Two polls on one client are needed for an error that is handled after the
first one already caused a reconnect. *Conversations*: two sends are needed for a
receipt of one to redraw while the other is in flight; every kind of conversation
occurs, with two of those that hold direct messages. *Persistence*: two sessions
are one crash and one recovery, two messages and a limit of one make the preload
choose. *MeshTest*: three nodes, one of them on two transports, so that the sender's
second transport must be excluded; the second broadcast is where late receipts of
the first arrive; the channel is smaller than the number of receipts. *TuiTarget*: the
second process can change an alias at every point between a lookup and a save, and save
at the same time; of two aliases one is meant and one must stay; one host and the BLE peer
demand a token, the other host, which is also the reconnect's default, does not; the
command lines name no target, each single kind of target, an alias with a wrong token in
the environment, and two targets at once. Nothing bounds how many commands and saves
happen: the state space is finite without it. *TuiInput*: two texts entered can overtake
each other, with a switch or a report between; two ticks are the one that was left in flight
and the one a new lockout starts; a history of one forgets with the second text; a third
entered text makes question, answer and second answer. *Collection*: three answers pass the
filter and one does not, and three are more than the channel holds. *Provisioning*: a
second process can act between any two steps of the first; three keys are the node's and one
for each; two checks of the wait are one that fails and one that follows. *Location*: one
contact can be judged in every way, and a second one adds nothing that the worst finding
does not decide; two changes may hit two different reads. The state
spaces are searched completely.

`CHECK_DEADLOCK FALSE` is used where the system stops: mesh-test ends, the number
of starts is bounded in `MsgPersistence`, the TUI of `TuiTarget` and of `TuiInput` exits,
and the commands of `Collection`, `Provisioning` and `Location` end.

A type invariant stands in every module that has variables. All of them are proved, except
that of `Location` (section 5), and are not repeated by the runs.

Fairness, each with its reason. *Connection*: ticks and timers are delivered by the
runtime, an RPC ends by its 5 s timeout and a dial by its 15 s timeout, and the loop
takes every posted message, so these are weakly fair; links owe nothing.
`StableRecovery` says what follows if the environment leaves the system alone from
some point on (`Disturbance` lists what it must not do: fail a dial, drop a link, fail
a poll of a healthy link, or leave a poll of a healthy link unanswered for a whole
wait and dial). The last condition is needed: each poll outliving its client costs the
next client its connection, and TLC shows that with slow polls this goes on for ever.
*MsgPersistence*: goroutines run and posted messages are taken while the program
runs. *MeshTest*: the command is one goroutine whose calls and window all have
timeouts. *TuiInput*: ticks are delivered and the airtime poll is answered; `LockoutLifts`
and `ChainsDieOut` assume that the node has budget from some point on. *Collection*: calls
and timers return, the drain of a probe goes on while it finds something, and the probe of a port has a timeout of its own. *Provisioning*: every
call has a timeout and the OTA wait a deadline. No node owes an answer and no user a key.

### Disagreements between code and documents

Two runs expect a violation; each states what a document of the repository says:

* `pushes_reach_loop`: `runTUI` gives Bubble Tea a copy of the model before
  `SetProgram` sets `m.bridge` on its own variable, so in the loop's model
  `m.bridge` is nil, and after a reconnect no push callback is registered.
* `sent_where_typed`: the result of a send is filed under the conversation that is
  active when it arrives.

Five more are stated beside the properties that hold, with a configuration each
(`<Module>_<Property>.cfg`, for the MC module of the same name) under which TLC refutes them
in seconds. They are the exceptions that those properties name, and what the code does at
the hazard itself, so they are to be read together:

| Said | Where | What the code does | What holds instead |
|---|---|---|---|
| `TuiTarget!ReconnectSameTarget` | `commands/tui.go:63`: "so reconnects target the same device as the initial connect" | a TUI started on an auto-detected serial port reconnects to `ws://bramble.local/ws` | `ReconnectsHome`, but for that port |
| `Collection!OnlyMessages` | `monitor.go:45`: "Only show message events" | `--messages` leaves out neighbours, acks and receipts, and still shows traffic, wifi, gps and location | nothing |
| `Collection!ProbeAddsUp` | `probe.go:25`: "collecting and displaying each ProbeResult as it arrives" | a probe registers its callbacks after it was sent (`probe.go:73`) and loses what comes before | `ReceiptsAddUp`, for the commands that register first |
| `Provisioning!ReKeyNeedsForce` | `netkey.go:91`: re-keying an already-provisioned node "requires --force" | `netkey generate` and `netkey provision` skip the question if the status call fails | `ReKeyAsked`, but for that call |
| `Provisioning!UpdateMeansRestart` | `ota.go:167`: "wait for node reboot/reconnect and report OTA outcome" | the wait takes any check that fails for a sign of a restart, so a slow answer becomes "OTA outcome: success" | `SuccessIsReal`, but for a lost check (`lost`) |

Others are stated in the modules or visible in the actions:

* `Connection!LossIsAboutClient`: the error of a status poll does not say which client was
  asked; a late one takes a healthy new connection offline.
* `MsgPersistence!AckSettles`: an upsert that runs after the update of a status, in the same
  session or at the next start, overwrites it with "sent".
* `MeshTest!EveryNodeRated`: a node that confirmed nothing is missing from the reliability
  list.
* `pair --json --save` prints and returns before it saves; `ota --json` does not wait for the
  restart, `--wait` or not.
* `pair --save` with a `tokens.json` it cannot read or parse writes one with the new token
  only; the others are gone (`FilesKept` names it, `excused`).
* `auth enable` says that the device makes up its token at the next boot; the code makes one
  up itself.
* `sleep` prints "Sleep request failed." for `ok:false` and exits with 0.
* `beacon-policy set` without any flag sends an empty request, which `config set-radio`
  refuses; the levels of `audio set-volume` and `backlight`, documented as 0 to 100, are not
  checked.
* `location set-config`: `--contact-rules` is decoded over the rules of `--file`, so a field
  the flag leaves out keeps the file's value (`Over`).
* `location doctor`: a GPS read that fails, without manual coordinates, makes the verdict
  "blocked" although the node may share (`BlockedMeansSilent` names it), and a failed read of
  the neighbours is reported as a node without any.
* `channels remove` takes an index, which another command may have given to another channel
  since it was listed.

## 4. What is proved

All theorems hold for every value of the constants under the modules' named
assumptions. Each `Invariance` proves an inductive invariant: type correctness, the
properties, and what makes them inductive.

* `ConnectionProofs`: `Invariance`, `TypeCorrect`, `ReconnectChain`, `NoLeak`,
  `InUseOpen`, `LoopImplementsSession`. The chain invariant says that a reconnect
  attempt exists in exactly one of its forms (timer, dial, posted error, posted
  client), which makes `client` and the one in `dialed` the only open ones. The
  refinement needs a build in which the call changes `m` first (`CallFirst`);
  the other theorems do not. Two more theorems say how far the disagreements of section 3
  reach. `PushesEndWithFirst`: pushes reach the loop from the first client and never from
  another. `LateAnswersAreTheCause`: if every reconnect finds the polls of the old client
  answered, no poll is left of another client than the one in use, and only its own
  answers take the loop offline.
* `ConversationsProofs`: `Invariance`, `TypeCorrect`, `TranscriptOnScreen`,
  `ReceiptsStayAnchored`, `ClearIsForGood`, `LinesStay`. What makes them inductive: a
  line is filed in at most one conversation, and a line whose send or push is still to
  come is nowhere yet, neither in a log nor among the cleared lines. `OutcomesRecorded`
  rests on that invariant and on `Recorded`: the failure, or the note, of a send that is
  over stands where it was typed or was cleared, and so does the message it sent, with its
  peer if it was a `/msg`. `UnreadCorrect` speaks of a number and of the size of a set; what links
  the two is that everything the user saw is filed or cleared and everything on the
  screen was seen (`SeenOnRecord`), so that each step files at most one unseen line where
  it counts one (`CountFollows`), and opening a conversation leaves none (`OpenIsRead`).
  `FiledWhereSent` is `SentWhereTyped` for a user who does not switch while a text is on its
  way (`Waits`): then every text on its way goes to the open conversation.
* `MsgPersistenceProofs`: `Invariance`, `TypeCorrect`, `NothingInvented`, `RowsStay`,
  `ShownAreStored`. The strengthening says what the goroutines carry: an update's status was
  reported, an upsert is of a message the node has. `ShownIsOnItsWay`, the part of
  `EventuallyStored` that is safety (stated with its proof, and no property of the run),
  follows from `RowsStay` step by step.
* `MeshTestProofs`: `Invariance`, `TypeCorrect`, `CreditsAreReal`,
  `NoReceiptPassedOver`, `ReportIsSound`. The strengthening: what waits in the channel or
  is counted in the open window was really sent by a node; a receipt that overtakes the
  answer of its send waits in the channel, which was drained before the send; and
  nothing is recorded ahead of the broadcast at hand, so that recording a window extends
  the set a count is the size of by exactly one element.
* `TuiTargetProofs`: first the book (`BookInvariance`): a copy agrees with the last
  complete file in every alias its holder did not touch, as long as nobody else touched
  the file; an alias being added is new, which is why taking it back restores the copy;
  and a write nobody interfered with finds the file empty, which is why a torn file has
  a second culprit. Each step either leaves the file alone or makes every other copy
  stale, and two lemmas (`Private`, `Touching`) carry all actions. Then the TUI:
  its steps on the book are the book's own (`ProcStepInv` carries the book's invariant over
  them), and, with what is
  dialled and accepted at each stage, `PickerShowsTheFile`, `SavesWhatWasMeant`,
  `SavedTokensBelong`, `SessionStaysAuthorised`, `ReconnectsReturn`, `TypeCorrect`.
* `TuiInputProofs`: `Invariance`, `TypeCorrect`, `LockoutCorrect`, `RefusedCorrect`,
  `RebootsCorrect`, and `SendCorrect` for the action property `NoDepletedSend`. A refused
  text is recallable only because every text is, whatever became of it: the text entered
  k texts ago is among the last k + 1 of the history, or the history has turned over
  since (`AllRecallable`, carried by `RememberProperties` for what `addHistory` drops and
  joins). Each `/reboot` that was handled, an entry of its own, accounts for at most one
  restart or open question, so that a second confirmation finds none (`RebootsWereAsked`).
* `ProvisioningProofs`: `Invariance`, `TypeCorrect`, `SuccessCorrect`, `FilesCorrect`,
  `ReKeyCorrect`. The invariant says, per process, which commands come to which call and
  with what (`OnTrack`), what one saw that was about to replace a key (`Asks`), and
  what an OTA wait may conclude (`Waited`): an uptime below the baseline is that of another
  boot, and a link seen down was lost, or the node is or was down. For each file it
  says what a process between the truncation and the write knows as long as nobody else
  wrote and nobody was killed (`SeedKept`, `TokensKept`), and a setting that was accepted
  stands unless another command gives it too (`SettingsHold`). `IsJob` is an assumption
  about command lines: a command that picks a slot of a channel gives nothing else, because
  `channels add` and `remove` are subcommands with flags of their own.
* `CommandProofs`, part one: `WindowInvariance`, `WindowTypeCorrect`, `ReceiptsCorrect`,
  `EndsCorrect`. An answer is printed, queued, dropped or still to come, once; broadcast and
  discover listen before an answer may come (`ListensInTime`), which a probe does not; and
  a row of `fleet` is written by the time its goroutine is through (`RowWritten`).
* `CommandProofs`, part two: `LocationInvariance`, `OkCorrect`, `BlockedCorrect`. The five
  reads of the doctor come one after the other. The invariant says of each what it knows
  after its turn if nothing changed since the first one (`HasRead`), that its place in the
  report is blank before (`NotYetRead`), and that the verdict is that of the report
  (`Judged`). Then the verdict and what the node does are two functions of one state, and
  the theorems compare them rule by rule.

## 5. What is only model-checked

Liveness (`LossDetected`, `StableRecovery`, `EventuallyStored`, `Terminates`, `LockoutLifts`,
`ChainsDieOut`, `WindowCloses`, `CommandsEnd`) needs ENABLED for its fairness and is out of the
prover's reach. Every safety invariant and every action property without fairness that a
passing run checks is proved.

The type invariant of `Location` is not: the node stores configurations that commands
build with `SelectSeq`, which the standard module defines by recursion over the
sequence, and what a recursion returns for every sequence cannot be proved here. The
theorems about the doctor need less, that the places they compare exist (`Shape`), and that
is proved.

## 6. Bounds, by name

`MaxFetch` (polls in flight on one client), `MaxSessions` (starts of the program),
`MaxCopies` (receipts of one node for one broadcast), `QueueCap` (128 in the code),
`Recent` (200 in the code), `Broadcasts` (an option of mesh-test); the sets `Clients`,
`Sends`, `Arrivals`, `History`, `Ids`, `Procs`, `Aliases`, `Entries`, `Typed`, `Tokens`,
`CommandLines`; `MaxEnters` (texts entered), `MaxTicks` (lock ticks in flight), `HistoryMax`
(50 in the code), `QueueMax` (32 in the code), `MaxPolls` (checks of an OTA wait), `MaxDrift`
(changes around the node), and the sets `Texts`, `Answers`, `Starts`, `Jobs`. The theorems
hold for all of them.

## 7. Not modelled, and why

* Rendering, layout and colours; formatting of answers; pixel conversion: no state
  that a property is about. The hit test of the status bar and the order of lines in
  the scrollback are candidates for pure modules.
* Subcommands that read something and print it (`status`, `peers`, `routes`, `traffic export`,
  `diagnostics`, the `get` and `status` forms of the others): nothing to interleave.
* The slash commands that print an answer, and `/config`, `/nick` and `/alias`: one kind that
  changes nothing the model keeps.
* Names and aliases of peers (`names.go`): maps behind a mutex. The lookup of an address by
  name takes any of several peers of one name, so `/msg` to such a name may reach either.
* The packets of mDNS and the list of serial ports; the traffic streams of
  `mesh-test --validate-primitives`.

## 8. Plan

In this order, each module with a run, mutants and, where it says so, theorems:

1. `Session`, `Connection`, `ConnectionProofs` (done): the life cycle everything else
   depends on.
2. `Conversations`, `ConversationsProofs` (done).
3. `MsgPersistence`, `MsgPersistenceProofs` (done).
4. `MeshTest`, `MeshTestProofs` (done); the traffic streams of
   `--validate-primitives` are left.
5. `DeviceBook`, `TuiTarget`, `TuiTargetProofs` (done).
6. `TuiInput`, `TuiInputProofs` (done).
7. `Collection` (done), with part one of `CommandProofs` (done).
8. `Provisioning`, `Settings`, `ProvisioningProofs` (done).
9. `Location` (done), with part two of `CommandProofs` (done).
10. To prove next: more of the safe halves of the liveness properties, as `ShownIsOnItsWay` is
    of `EventuallyStored` (work that is left falls with every step of mesh-test and of an OTA
    wait); under which order of writers `AckSettles` holds.
11. Names and aliases, with the lookup by name; `--validate-primitives`.
