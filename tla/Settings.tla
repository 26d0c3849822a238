------------------------------ MODULE Settings ------------------------------
(***************************************************************************)
(* What the commands that change settings of a node send it: config.go,    *)
(* channels.go, beacon_policy.go, audio.go, backlight.go, telemetry.go and *)
(* mailbox.go of src/internal/commands.                                    *)
(*                                                                         *)
(* Given are the arguments and flags of the command line, a function from  *)
(* their names to values.  "garbage" does not parse as what is wanted,     *)
(* "excess" parses and is out of range.  A command sends one request or,   *)
(* if it refuses what it was given, none: the set of its requests is empty.*)
(***************************************************************************)
EXTENDS Naturals

Slots == {"slot0", "slot1"}
Radio == {"freq", "sf", "bw", "cr", "txpower"}
Beacon == {"enabled", "mode", "base", "min", "max", "dense", "churn", "window"}
Names == Radio \cup Beacon \cup Slots
           \cup {"default", "name", "volume", "muted", "mailbox", "backlight", "telemetry"}
Values == {"none", "one", "other", "excess", "garbage"} \cup Slots

\* strconv.Atoi, parseBoolArg and the flags that have a type refuse garbage; some
\* settings have their range checked as well.
Checked(given, ranged) ==
    {g \in {given} : \A s \in DOMAIN g :
        g[s] # "garbage" /\ (s \in ranged => g[s] # "excess")}

\* config set-name: the length is checked.
SetName(given) == Checked(given, {"name"})

\* A fault: parameters that were not given are sent as zero.
FaultSetRadio(given) ==
    {[s \in Radio |-> IF s \in DOMAIN g THEN g[s] ELSE "none"] :
        g \in Checked(given, {"sf", "cr", "txpower"})}

\* config set-radio: what was given and no more; frequency and bandwidth are left
\* to the node to check, and nothing at all is refused.  A value of "bw" stands for
\* a bandwidth: it is typed in kHz and sent in Hz, rounded, and no two of the values
\* here meet.
SetRadio(given) ==
    {g \in Checked(given, {"sf", "cr", "txpower"}) : DOMAIN g # {}}

\* beacon-policy set: what was given, which may be nothing.
SetBeacon(given) == Checked(given, {})

\* channels add, remove and set-default: the node picks the index of a new one.
AddChannel(given) == {given}
RemoveChannel(given) == Checked(given, {})
SetDefaultChannel(given) == Checked(given, {})

\* audio set-volume, set-muted and play-tone: the level is not checked.
SetVolume(given) == Checked(given, {})
SetMuted(given) == Checked(given, {})
PlayTone(given) == {given}

\* mailbox set, backlight and telemetry set-mode.
SetMailbox(given) == Checked(given, {})
SetBacklight(given) == Checked(given, {})
SetTelemetry(given) == {given}

Settings == {"set-name", "set-radio", "set-beacon", "add-channel", "remove-channel",
             "set-default", "set-volume", "set-muted", "play-tone", "set-mailbox",
             "set-backlight", "set-telemetry"}

Requests(cmd, given) ==
    CASE cmd = "set-name" -> SetName(given)
      [] cmd = "set-radio" -> SetRadio(given)
      [] cmd = "set-beacon" -> SetBeacon(given)
      [] cmd = "add-channel" -> AddChannel(given)
      [] cmd = "remove-channel" -> RemoveChannel(given)
      [] cmd = "set-default" -> SetDefaultChannel(given)
      [] cmd = "set-volume" -> SetVolume(given)
      [] cmd = "set-muted" -> SetMuted(given)
      [] cmd = "play-tone" -> PlayTone(given)
      [] cmd = "set-mailbox" -> SetMailbox(given)
      [] cmd = "set-backlight" -> SetBacklight(given)
      [] OTHER -> SetTelemetry(given)

\* What the node makes of a request, each setting it names: nothing of one that is
\* out of range or has no room.
Applied(set, request) ==
    IF \E s \in DOMAIN request : request[s] = "excess" THEN {}
    ELSE IF "add" \in DOMAIN request
    THEN {[set EXCEPT ![i] = request["add"]] : i \in {i \in Slots : set[i] = "none"}}
    ELSE IF "remove" \in DOMAIN request
    THEN {[set EXCEPT ![request["remove"]] = "none"]}
    ELSE {[s \in Names |-> IF s \in DOMAIN request THEN request[s] ELSE set[s]]}
=============================================================================
