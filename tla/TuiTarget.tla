------------------------------ MODULE TuiTarget ------------------------------
(***************************************************************************)
(* How `bramble tui` decides which device it talks to and with which       *)
(* token, from its start to its reconnects, while other processes change   *)
(* the address book under it.                                              *)
(*   internal/commands/tui.go    resolveTUITarget, connectTUIClient,       *)
(*                               verifyTUIAuth, offerSaveToken, connectFn  *)
(*   internal/commands/root.go   loadDeviceEntry, resolvedAuthToken,       *)
(*                               getClient                                 *)
(* Devices are targets: a WebSocket host, the BLE peer of --ble, the       *)
(* serial port of --port, or whatever port auto-detection finds.  Secret   *)
(* gives the token each of them demands, None for an open one.             *)
(***************************************************************************)
EXTENDS DeviceBook

CONSTANTS Tui,                \* the process that runs the terminal UI
          Hosts, Mdns,        \* WebSocket URLs; ws://bramble.local/ws
          Ble, Port, Detected,    \* the other targets
          Tokens, Secret,
          CommandLines        \* what the user may start the TUI with

Targets == Hosts \cup {Ble, Port, Detected}

Flags == [device : Aliases \cup {None},     \* the alias argument or --device
          transport : Hosts \cup {None},
          ble : BOOLEAN, port : BOOLEAN,
          token : Tokens \cup {None},
          env : Tokens \cup {None},         \* BRAMBLE_TOKEN
          interactive : BOOLEAN]            \* stdin is a terminal

ASSUME TargetAssumption ==
    /\ Tui \in Procs
    /\ Mdns \in Hosts
    /\ Entries = [host : Hosts, token : Tokens \cup {None}]
    /\ None \notin Targets \cup Tokens
    /\ Secret \in [Targets -> Tokens \cup {None}]
    /\ CommandLines \subseteq Flags

VARIABLES
    flags,       \* flagDevice, flagTransport, ... and the environment
    stage,       \* how far runTUI has come
    resolved,    \* resolvedDevice: the entry of the alias, or None
    target,      \* what the client is connected to
    first,       \* history: the target the UI was started on
    verified     \* history: the node accepted the token of this session

targetVars == <<flags, stage, resolved, target, first, verified>>
vars == <<bookVars, targetVars>>

Stages == {"start", "pick", "dial", "verify", "prompt", "redial", "reverify",
           "offer", "save", "run", "exit"}

TypeOK ==
    /\ BookTypeOK
    /\ flags \in Flags
    /\ stage \in Stages
    /\ resolved \in Entries \cup {None}
    /\ target \in Targets \cup {None}
    /\ first \in Targets \cup {None}
    /\ verified \in BOOLEAN

Init ==
    /\ BookInit
    /\ flags \in CommandLines
    /\ stage = "start"
    /\ resolved = None /\ target = None /\ first = None
    /\ verified = FALSE

-----------------------------------------------------------------------------
(* Resolution: which target, which token. *)

Token == CASE flags.token # None -> flags.token
           [] flags.token = None /\ flags.env # None -> flags.env
           [] OTHER -> IF resolved = None THEN None ELSE resolved.token

\* The order of precedence of getClient, and of the reconnect factory; they
\* differ in what is left when nothing was selected.
Selected(entry, otherwise) ==
    CASE flags.ble -> Ble
      [] ~flags.ble /\ flags.transport # None -> flags.transport
      [] ~flags.ble /\ flags.transport = None /\ flags.port -> Port
      [] OTHER -> IF entry = None THEN otherwise ELSE entry.host

\* A fault: the host of the alias is not captured for reconnects.
FaultRedialTarget == Selected(None, Mdns)

DialTarget(entry) == Selected(entry, Detected)
RedialTarget == Selected(resolved, Mdns)

Accepts(t, token) == Secret[t] \in {None, token}

\* A fault: whatever was dialled is saved.
FaultSaveHost == IF resolved # None THEN resolved.host ELSE target

\* The host a typed token is saved for.
SaveHost == IF resolved # None THEN resolved.host ELSE flags.transport

-----------------------------------------------------------------------------
(* The steps of runTUI. *)

Goto(s) == stage' = s

Exit == Goto("exit") /\ UNCHANGED <<flags, resolved, target, first, verified>>

Explicit == \/ flags.device # None \/ flags.transport # None
            \/ flags.ble \/ flags.port

\* resolveTUITarget without the picker: an explicit target, no terminal, or
\* an empty book.
NoPicker ==
    /\ stage = "start"
    /\ Explicit \/ ~flags.interactive \/ file = Blank
    /\ Goto("dial")
    /\ UNCHANGED <<bookVars, flags, resolved, target, first, verified>>

OpenPicker ==
    /\ stage = "start"
    /\ ~Explicit /\ flags.interactive
    /\ PickerOpen(Tui)
    /\ Goto("pick")
    /\ UNCHANGED <<flags, resolved, target, first, verified>>

Unreadable ==
    /\ stage = "start"
    /\ ~Explicit /\ flags.interactive
    /\ file \in Broken
    /\ Exit /\ UNCHANGED bookVars

Edit == stage = "pick" /\ PickerStep(Tui) /\ UNCHANGED targetVars

Choose(a) ==
    /\ stage = "pick"
    /\ proc[Tui].mem[a] # None
    /\ PickerClose(Tui)
    /\ flags' = [flags EXCEPT !.device = a]
    /\ Goto("dial")
    /\ UNCHANGED <<resolved, target, first, verified>>

\* The picker is left without a choice, or the process is killed.
Quit == stage = "pick" /\ PickerClose(Tui) /\ Exit

Killed == Die(Tui) /\ Exit

\* dialTUIClient: getClient reads the book again, each time it is called.
Dial ==
    /\ stage \in {"dial", "redial"}
    /\ \/ flags.device = None /\ resolved' = None
       \/ /\ flags.device # None
          /\ file \notin Broken
          /\ file[flags.device] # None
          /\ resolved' = file[flags.device]
    /\ target' = DialTarget(resolved')
    /\ Goto(IF stage = "dial" THEN "verify" ELSE "reverify")
    /\ UNCHANGED <<bookVars, flags, first, verified>>

\* No such alias, a book that cannot be read, or a device that does not answer.
DialFails == stage \in {"dial", "redial"} /\ Exit /\ UNCHANGED bookVars

\* The probe succeeds, or fails for another reason than authorisation: the
\* UI starts either way.
Verify ==
    /\ stage = "verify"
    /\ \/ Accepts(target, Token) /\ verified' = TRUE
       \/ verified' = FALSE
    /\ first' = target
    /\ Goto("run")
    /\ UNCHANGED <<bookVars, flags, resolved, target>>

Rejected ==
    /\ stage = "verify"
    /\ ~Accepts(target, Token)
    /\ Goto(IF Token = None /\ flags.interactive THEN "prompt" ELSE "exit")
    /\ UNCHANGED <<bookVars, flags, resolved, target, first, verified>>

Prompt(token) ==
    /\ stage = "prompt"
    /\ flags' = [flags EXCEPT !.token = token]
    /\ Goto("redial")
    /\ UNCHANGED <<bookVars, resolved, target, first, verified>>

PromptEmpty == stage = "prompt" /\ Exit /\ UNCHANGED bookVars

\* A fault: the typed token is good for the second dial only.
FaultReverify ==
    /\ stage = "reverify"
    /\ Accepts(target, Token)
    /\ verified' = TRUE
    /\ flags' = [flags EXCEPT !.token = None]
    /\ Goto("offer")
    /\ UNCHANGED <<bookVars, resolved, target, first>>

\* The second probe: any failure of it ends the program.
Reverify ==
    /\ stage = "reverify"
    /\ Accepts(target, Token)
    /\ verified' = TRUE
    /\ Goto("offer")
    /\ UNCHANGED <<bookVars, flags, resolved, target, first>>

ReverifyFails == stage = "reverify" /\ Exit /\ UNCHANGED bookVars

\* Nothing to save under, the user declines, or the book cannot be read.
Decline ==
    /\ stage = "offer"
    /\ first' = target
    /\ Goto("run")
    /\ UNCHANGED <<bookVars, flags, resolved, target, verified>>

\* A fault: an alias that exists keeps its host.
FaultOfferSave(a) ==
    /\ stage = "offer"
    /\ SaveHost # None
    /\ flags.device \in {None, a}
    /\ file \notin Broken
    /\ StartSave(Tui, a, [host |-> IF file[a] = None THEN SaveHost ELSE file[a].host,
                          token |-> flags.token])
    /\ Goto("save")
    /\ UNCHANGED <<flags, resolved, target, first, verified>>

\* Saving under the alias that was used, or one the user gives.
OfferSave(a) ==
    /\ stage = "offer"
    /\ SaveHost # None
    /\ flags.device \in {None, a}
    /\ StartSave(Tui, a, [host |-> SaveHost, token |-> flags.token])
    /\ Goto("save")
    /\ UNCHANGED <<flags, resolved, target, first, verified>>

\* The save has ended, well or not: the UI starts.
Saved ==
    /\ stage = "save"
    /\ proc[Tui].at = "off"
    /\ first' = target
    /\ Goto("run")
    /\ UNCHANGED <<bookVars, flags, resolved, target, verified>>

\* The connection drops and connectFn makes another.
Reconnect ==
    /\ stage = "run"
    /\ target' = RedialTarget
    /\ UNCHANGED <<bookVars, flags, stage, resolved, first, verified>>

-----------------------------------------------------------------------------
Other(p) ==
    /\ p # Tui
    /\ \/ CommandStep(p) \/ PickerOpen(p) \/ PickerStep(p) \/ PickerClose(p)
       \/ Die(p)
    /\ UNCHANGED targetVars

Save(p) == SaveStep(p) /\ UNCHANGED targetVars

TuiStep ==
    \/ NoPicker \/ OpenPicker \/ Unreadable \/ Edit \/ Quit \/ Killed
    \/ Dial \/ DialFails \/ Verify \/ Rejected
    \/ PromptEmpty \/ Reverify \/ ReverifyFails \/ Decline \/ Saved \/ Reconnect
    \/ \E a \in Aliases : Choose(a) \/ OfferSave(a)
    \/ \E k \in Tokens : Prompt(k)

Next == TuiStep \/ \E p \in Procs : Other(p) \/ Save(p)

Spec == Init /\ [][Next]_vars

-----------------------------------------------------------------------------
(* Properties. *)

OneTarget ==
    /\ flags.transport # None => ~flags.ble /\ ~flags.port
    /\ flags.ble => ~flags.port
    /\ flags.device # None => flags.transport = None /\ ~flags.ble /\ ~flags.port

\* A token in the address book was typed there by the user or accepted by the
\* host it is saved with, whatever other processes did to the alias between
\* the dial, the prompt, the second dial and the save (offerSaveToken).
TokensBelong ==
    OneTarget => \A a \in Aliases :
        \/ good[a] \in Typed \cup {None}
        \/ Accepts(good[a].host, good[a].token)

\* The UI never runs on a session the node is known to reject, on which it
\* "would flap forever": the token that passed the probe is the one every
\* later reconnect presents to the same device (connectTUIClient, connectFn).
RunsAuthorized ==
    stage = "run" /\ verified /\ target = first => Accepts(target, Token)

\* Reconnects go to the device the UI was started on, although the alias may
\* since have been changed or removed in the book; only a serial port that was
\* auto-detected is not found again (connectFn's default is a host name).
ReconnectsHome ==
    stage = "run" => target = first \/ first = Detected

\* What the comment on connectFn says (commands/tui.go:63): "Capture the resolved
\* alias host so reconnects target the same device as the initial connect."
ReconnectSameTarget == stage = "run" => target = first

=============================================================================
