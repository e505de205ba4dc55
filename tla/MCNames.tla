-------------------------------- MODULE MCNames --------------------------------
(***************************************************************************)
(* Names with every variant of every type, every name that is written in   *)
(* three spellings, and unknown names, among them those that share a       *)
(* prefix with a known one.                                                *)
(***************************************************************************)
EXTENDS Names

MCSent == Variants \ Unread
MCMechanisms == Mechanisms

Spellings(atoms) == {<<a[1], Spelled(Folded(a[2]), s)>> : a \in atoms, s \in {"usual", "lower", "upper"}}
NamesOf(values) == {<<b[1], Display(b[1], b[2])>> : b \in values}

UnknownNames ==
  {<<t, Usual(<<"X">>)>> : t \in NameTypes \ {"FlagNameAttribute"}}
    \cup {<<t, Usual(<<"\\", "X">>)>> : t \in {"Flag", "FlagFetch", "FlagPerm", "FlagNameAttribute"}}
    \cup {<<"AttributeFlag", Usual(<<"\\\\", "X">>)>>, <<"Flag", Usual(<<"\\", "RECENT">>)>>}
    \cup {<<"Capability", Usual(<<w, "=">> \o a)>> : w \in {"AUTH", "COMPRESS", "QUOTA", "SORT", "THREAD", "STATUS", "X"},
            a \in {<<>>, <<"X">>, <<"PLAIN">>, <<"RES-">>, <<"RES-", "X">>, <<"X", "=", "X">>}}

MCHeard == Spellings(NamesOf(MCSent) \cup UnknownNames)
MCMechanismsHeard == Spellings(NamesOf(Mechanisms))
=============================================================================
