----------------------------- MODULE MCLocation -----------------------------
(* One peer and one channel: sharing off, without targets, with a contact, *)
(* with both, with a rule that is off; and commands that change that.      *)
EXTENDS Location

CONSTANTS peer, number

To(p, on, tier) == [to |-> p, on |-> on, tier |-> tier]
With(contacts, channels) ==
    [enabled |-> "yes", default |-> Unset, manual |-> FALSE, contacts |-> contacts, channels |-> channels]
Contact == <<To(peer, Unset, "good")>>
Channel == <<To(number, Unset, Unset)>>

StartsDef ==
    {With(<<>>, <<>>), With(Contact, <<>>), With(Contact, Channel),
     With(<<To(peer, "no", "good")>>, Channel), With(Contact, <<To(number, "no", Unset)>>),
     [With(<<>>, Channel) EXCEPT !.enabled = Unset],
     [With(Contact, Channel) EXCEPT !.manual = TRUE]}

Nothing == [f \in {} |-> <<>>]
Job(cmd, file, flags) == [cmd |-> cmd, file |-> file, flags |-> flags]

JobsDef ==
    {Job("set-config", Nothing, Nothing),
     Job("set-config", Nothing, [enabled |-> "yes"]),
     Job("set-config", [contacts |-> <<To(peer, "no", "good")>>],
                       [contacts |-> <<To(Unset, Unset, "good")>>]),
     Job("set-config", [channels |-> <<To(number, "yes", "bad")>>], [enabled |-> "no"]),
     Job("set-config", [default |-> "bad"], [enabled |-> "no"]),
     Job("set-config", [default |-> "bad"], [default |-> "good"]),
     Job("set-contact", Nothing, [contacts |-> Contact]),
     Job("set-contact", Nothing, [contacts |-> <<To(peer, Unset, Unset)>>]),
     Job("remove-contact", Nothing, [contacts |-> <<To(peer, Unset, Unset)>>]),
     Job("share-once", Nothing, [contacts |-> <<To(peer, Unset, Unset)>>]),
     Job("share-once", Nothing, [contacts |-> <<To(Unset, Unset, Unset)>>])}
=============================================================================
