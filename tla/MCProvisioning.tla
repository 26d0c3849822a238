--------------------------- MODULE MCProvisioning ---------------------------
(* Two processes with commands that touch the same part of the node or the *)
(* same file, and what of that may be there before.                        *)
EXTENDS Provisioning, TLC

CONSTANTS p, q, k1, k2, k3, here, there

Run(cmd, arg, flags) == [cmd |-> cmd, arg |-> arg, flags |-> flags, given |-> <<>>]
Set(cmd, given) == [cmd |-> cmd, arg |-> k1, flags |-> {}, given |-> given]

Begin(first, second, nodes, seeds, tokenSets) ==
    [job : {(p :> a @@ q :> b) : a \in first, b \in second},
     node : nodes, seed : seeds, tokens : tokenSets]

Fresh == [key |-> None, anchor |-> None, endorsed |-> None, token |-> FALSE, passkey |-> None,
          display |-> FALSE, wifi |-> None, calling |-> FALSE,
          set |-> [s \in Names |-> "none"]]

Sets ==
    {Set("set-name", "name" :> v) : v \in {"one", "excess"}}
    \cup {Set("set-radio", given) :
            given \in {<<>>, "sf" :> "other", "freq" :> "one", "cr" :> "excess", "bw" :> "excess"}}
    \cup {Set("set-beacon", given) :
            given \in {<<>>, "enabled" :> "one" @@ "base" :> "other", "mode" :> "one"}}
    \cup {Set("add-channel", "add" :> "one"), Set("remove-channel", "remove" :> "slot0"),
          Set("set-default", "default" :> "slot0"), Set("set-volume", "volume" :> "garbage"),
          Set("set-muted", "muted" :> "one"), Set("play-tone", "tone" :> "one"),
          Set("set-mailbox", "mailbox" :> "one"), Set("set-backlight", "backlight" :> "one"),
          Set("set-telemetry", "telemetry" :> "one")}

NetKey(k) == {Run("generate", k, {}), Run("generate", k, {"force"}), Run("provision", k, {}),
              Run("provision", k, {"bad"}), Run("provision", k, {"force"})}
Anchor(k) == {Run("create", k, {}), Run("import", k, {}), Run("import", k, {"force", "bad"}),
              Run("create", k, {"force"}), Run("enroll", k1, {})}
Pair == {Run("pair", here, {"save"}), Run("pair", here, {"save", "json"})}

StartsDef ==
    Begin(NetKey(k2), NetKey(k3) \cup {Run("provision", k1, {})},
          {Fresh, [Fresh EXCEPT !.key = k1]}, {None}, {{}})
    \cup Begin(Anchor(k2), Anchor(k3) \cup {Run("anchor", k1, {})},
               {Fresh, [Fresh EXCEPT !.anchor = k1]}, {None, k1}, {{}})
    \cup Begin(Pair, {Run("pair", there, {"save"}), Run("enable", k1, {}), Run("disable", k1, {})},
               {Fresh, [Fresh EXCEPT !.token = TRUE]}, {None}, {{}, {there}})
    \cup Begin({Run("passkey", k2, {}), Run("passkey", k2, {"bad"})}, {Run("clear", k1, {})},
               {Fresh, [Fresh EXCEPT !.display = TRUE]}, {None}, {{}})
    \cup Begin({Run("ota", k1, {"wait", "tcp"})}, {Run("ota", k1, {}), Run("ota", k1, {"wait"})},
               {Fresh}, {None}, {{}})
    \cup Begin({Run("wifi", k1, {}), Run("wifi", k1, {"reboot"}), Run("wifi", k1, {"bad"}),
               Run("rollcall", k1, {})},
               {Run("sleep", k1, {}), Run("sleep", k1, {"bad"}), Run("reboot", k1, {}),
                Run("rollcall", k1, {})}, {Fresh}, {None}, {{}})
    \cup Begin(Sets, Sets, {Fresh}, {None}, {{}})
=============================================================================
