------------------------------ MODULE Location ------------------------------
(***************************************************************************)
(* Location sharing: src/internal/commands/location.go and                 *)
(* src/internal/commands/location_doctor.go.                               *)
(*                                                                         *)
(* One process runs a command that changes the configuration on the node,  *)
(* another the doctor, which reads five things one after the other and     *)
(* then judges them; meanwhile peers come and go, sessions and the GPS fix *)
(* change.  What a board or an old firmware cannot answer is no error: it  *)
(* is left out of the judgement or counted as a problem.                   *)
(*                                                                         *)
(* A tier is "good", "bad" or "unset"; a field that the JSON of a rule     *)
(* leaves out is "unset", and so are an address that does not parse and an *)
(* empty tier on the command line.  default is the tier of the rules that  *)
(* give none.  Intervals, coordinates and wording are left out.*)
(* The specification has names of its own (LocationInit, LocationSpec), so *)
(* that a module may extend it beside another one.                         *)
(***************************************************************************)
EXTENDS Naturals, Sequences, FiniteSets

CONSTANTS
    Peers,     \* peers that may be contacts
    Numbers,   \* channels that may be targets
    Starts,    \* configurations the node may begin with
    Jobs,      \* commands that may be run: cmd, and what file and flags set
    MaxDrift   \* bound: changes around the node

Unset == "unset"
Rule == [to : Peers \cup Numbers \cup {Unset}, on : {"yes", "no", Unset},
         tier : {"good", "bad", Unset}]
Config == [enabled : {"yes", "no", Unset}, default : {"good", "bad", Unset},
           manual : BOOLEAN, contacts : Seq(Rule), channels : Seq(Rule)]

ASSUME LocationAssumption ==
    /\ Unset \notin Peers \cup Numbers
    /\ Starts \subseteq Config
    /\ MaxDrift \in Nat

VARIABLES
    job,      \* the command that runs beside the doctor
    at,       \* "start", "send", "ok" or "error"
    config,   \* the location configuration of the node
    fix,      \* its GPS has a fix
    session,  \* per peer: "none", "pending", "chainless" or "ready"
    near,     \* peers that are radio neighbours
    routed,   \* peers a route that is not broken leads to
    drift,    \* changes around the node so far
    next,     \* the next read of the doctor, "done" after its verdict
    read,     \* what it has read
    verdict,  \* its verdict
    stale     \* history variable: something changed since its first read

around == <<fix, session, near, routed, drift>>
setting == <<job, at, config>>
doctor == <<next, read, verdict>>
locationVars == <<setting, around, doctor, stale>>

Sessions == {"none", "pending", "chainless", "ready"}
Reads == <<"config", "gps", "sessions", "near", "routed">>

LocationTypeOK ==
    /\ job \in Jobs /\ at \in {"start", "send", "ok", "error"}
    /\ config \in Config
    /\ fix \in BOOLEAN /\ session \in [Peers -> Sessions]
    /\ near \subseteq Peers /\ routed \subseteq Peers /\ drift \in 0..MaxDrift
    /\ next \in 1..6
    /\ read \in [config : Config, gps : {"fix", "none", "failed"}, known : BOOLEAN,
                 sessions : [Peers -> Sessions], near : SUBSET Peers, routed : SUBSET Peers]
    /\ verdict \in {"none", "failed", "ok", "warn", "blocked"}
    /\ stale \in BOOLEAN

LocationInit ==
    /\ job \in Jobs /\ at = "start"
    /\ config \in Starts
    /\ fix \in BOOLEAN /\ session \in [Peers -> {"none", "ready"}]
    /\ near \in SUBSET Peers /\ routed = {} /\ drift = 0
    /\ next = 1 /\ verdict = "none" /\ stale = FALSE
    /\ read = [config |-> config, gps |-> "none", known |-> FALSE,
               sessions |-> [p \in Peers |-> "none"], near |-> {}, routed |-> {}]

-----------------------------------------------------------------------------
(* The commands that change the configuration *)

\* json.Unmarshal of a flag into the rules decoded from the file: rule i keeps
\* what rule i of the flag leaves out.
Over(old, new) ==
    [i \in 1..Len(new) |->
        [f \in DOMAIN new[i] |->
            IF new[i][f] = Unset /\ i <= Len(old) THEN old[i][f] ELSE new[i][f]]]

\* The configuration sent: what file and flags set, a flag over the file.
Built ==
    [f \in DOMAIN job.file \cup DOMAIN job.flags |->
        IF f \notin DOMAIN job.flags THEN job.file[f]
        ELSE IF f \in DOMAIN job.file /\ f \in {"contacts", "channels"}
             THEN Over(job.file[f], job.flags[f])
             ELSE job.flags[f]]

\* The default tier if there is one, empty or not, and the tier of every rule that
\* gives one, from the file or a flag.
Valid ==
    /\ "default" \in DOMAIN Built => Built.default = "good"
    /\ \A f \in {"contacts", "channels"} \cap DOMAIN Built :
         \A i \in 1..Len(Built[f]) : Built[f][i].tier # "bad"

\* The checks before the node is called.
Checks(cmds, fine) ==
    /\ at = "start" /\ job.cmd \in cmds
    /\ at' = IF fine THEN "send" ELSE "error"
    /\ UNCHANGED <<job, config, around, doctor, stale>>

\* set-config wants something to set.
CheckConfig == Checks({"set-config"}, Valid /\ DOMAIN Built # {})

\* The address and the tier of the command line; neither may be empty.
Given == Built.contacts[1]
CheckContact == Checks({"set-contact"}, Given.to # Unset /\ Given.tier = "good")
CheckPeer == Checks({"remove-contact", "share-once"}, Given.to # Unset)

\* The rules without those for one peer.
Without(rules, p) == SelectSeq(rules, LAMBDA r : r.to # p)

\* A call that makes the configuration new: a failed one may have reached the node.
Call(cmd, new) ==
    /\ at = "send" /\ job.cmd = cmd
    /\ \/ at' = "ok" /\ config' = new
       \/ at' = "error" /\ config' \in {config, new}
    /\ stale' = (stale \/ (next > 1 /\ config' # config))
    /\ UNCHANGED <<job, around, doctor>>

\* What was not set stays; a list of rules replaces the list.
SetConfig ==
    Call("set-config", [f \in DOMAIN config |-> IF f \in DOMAIN Built THEN Built[f] ELSE config[f]])

SetContact ==
    Call("set-contact",
         [config EXCEPT !.contacts = Without(@, Given.to) \o Built.contacts])

RemoveContact ==
    Call("remove-contact", [config EXCEPT !.contacts = Without(@, Given.to)])

ShareOnce == Call("share-once", config)

Change ==
    \/ CheckConfig \/ CheckContact \/ CheckPeer
    \/ SetConfig \/ SetContact \/ RemoveContact \/ ShareOnce

-----------------------------------------------------------------------------
(* The doctor *)

\* gatherLocationDoctorInput: without the configuration there is no report; the
\* other reads may fail, and only GPS and sessions remember that they did.
Gather ==
    /\ next <= Len(Reads) /\ verdict = "none"
    /\ LET what == Reads[next]
       IN \/ /\ read' = CASE what = "gps" -> [read EXCEPT !.gps = IF fix THEN "fix" ELSE "none"]
                          [] what = "sessions" -> [read EXCEPT !.sessions = session, !.known = TRUE]
                          [] what = "near" -> [read EXCEPT !.near = near]
                          [] what = "routed" -> [read EXCEPT !.routed = routed]
                          [] OTHER -> [read EXCEPT !.config = config]
             /\ UNCHANGED verdict
          \/ /\ read' = IF what = "gps" THEN [read EXCEPT !.gps = "failed"] ELSE read
             /\ verdict' = IF what = "config" THEN "failed" ELSE verdict
    /\ next' = next + 1
    /\ UNCHANGED <<setting, around, stale>>

On(r) == r.on # "no"

\* A fault: a rule that is off counts as a problem solved.
FaultJudgeContact(r) ==
    IF ~On(r) THEN "ok"
    ELSE IF ~read.known THEN "warn"
    ELSE IF r.to \notin Peers \/ read.sessions[r.to] # "ready" THEN "blocked"
    ELSE IF r.to \notin read.near \cup read.routed THEN "warn" ELSE "ok"

\* judgeContactTarget: a share to a contact needs an active session with a send
\* chain; without a way to the peer it is a warning.
JudgeContact(r) ==
    IF ~On(r) \/ ~read.known THEN "warn"
    ELSE IF r.to \notin Peers \/ read.sessions[r.to] # "ready" THEN "blocked"
    ELSE IF r.to \notin read.near \cup read.routed THEN "warn" ELSE "ok"

\* A fault: a channel nobody hears blocks the node.
FaultJudgeChannel(r) == IF read.near = {} THEN "blocked" ELSE IF On(r) THEN "ok" ELSE "warn"

\* judgeChannelTarget: a share to a channel needs nothing.
JudgeChannel(r) == IF On(r) /\ read.near # {} THEN "ok" ELSE "warn"

Items(rules) == {rules[i] : i \in 1..Len(rules)}

\* The targets, each switched on or not, with its verdict.
Targets ==
    {<<On(r), JudgeContact(r)>> : r \in Items(read.config.contacts)}
        \cup {<<On(r), JudgeChannel(r)>> : r \in Items(read.config.channels)}

\* describeSelfPosition: the fix, else the manual coordinates.
HasPosition == read.gps = "fix" \/ read.config.manual

\* diagnoseLocation: the worst of its findings.
Diagnosis ==
    IF \/ read.config.enabled # "yes"
       \/ ~\E t \in Targets : t[1] /\ t[2] # "blocked"
       \/ ~HasPosition
    THEN "blocked"
    ELSE IF ~read.known \/ \E t \in Targets : t[2] # "ok" THEN "warn" ELSE "ok"

Diagnose ==
    /\ next > Len(Reads) /\ verdict = "none"
    /\ verdict' = Diagnosis
    /\ UNCHANGED <<setting, around, next, read, stale>>

-----------------------------------------------------------------------------
\* Peers come into range and leave it, routes are found and break, a session
\* begins or loses its keys, the GPS finds itself or not.
Drift ==
    /\ drift < MaxDrift /\ drift' = drift + 1
    /\ \/ fix' = ~fix /\ UNCHANGED <<session, near, routed>>
       \/ /\ \E p \in Peers, s \in Sessions : session' = [session EXCEPT ![p] = s]
          /\ UNCHANGED <<fix, near, routed>>
       \/ near' \in SUBSET Peers /\ UNCHANGED <<fix, session, routed>>
       \/ routed' \in SUBSET Peers /\ UNCHANGED <<fix, session, near>>
    /\ stale' = (stale \/ next > 1)
    /\ UNCHANGED <<setting, doctor>>

LocationNext == Change \/ Gather \/ Diagnose \/ Drift

LocationSpec == LocationInit /\ [][LocationNext]_locationVars

-----------------------------------------------------------------------------
(* Properties *)

\* What the node does, as the comments of the doctor tell: a contact is sent to
\* under a session key, a channel always; sharing needs the switch and a position.
Sends(r) == On(r) /\ r.to \in Peers /\ session[r.to] = "ready"
Sharing ==
    /\ config.enabled = "yes" /\ (fix \/ config.manual)
    /\ \/ \E r \in Items(config.contacts) : Sends(r)
       \/ \E r \in Items(config.channels) : On(r)
Reaches ==
    /\ \A r \in Items(config.contacts) : Sends(r) /\ r.to \in near \cup routed
    /\ Items(config.channels) # {} => near # {}

\* An all-clear of the doctor is never without evidence: unless something changed
\* while it looked, the node shares and each target can be reached.
OkMeansShared == verdict = "ok" /\ ~stale => Sharing /\ Reaches

\* The doctor calls a node blocked only if nothing leaves it, whatever else is
\* wrong and whichever reads failed; a GPS that does not answer is taken for one
\* without a fix.
BlockedMeansSilent == verdict = "blocked" /\ ~stale /\ read.gps # "failed" => ~Sharing
=============================================================================
