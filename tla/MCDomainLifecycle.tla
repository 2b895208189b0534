-------------------------- MODULE MCDomainLifecycle --------------------------
(* Instances of DomainLifecycle for TLC: one local public suffix, a name      *)
(* below it and a name below that.                                            *)
EXTENDS DomainLifecycle

CONSTANTS w1, w2, u1, u2

MCSuffix == {<<"io">>, <<"uk">>, <<"co", "uk">>}
MCLocal == {<<"dedyn", "io">>}
MCName == {<<"dedyn", "io">>, <<"a", "dedyn", "io">>, <<"b", "a", "dedyn", "io">>, <<"co", "uk">>}
MCInternal == {}
MCReservedLabel == {"_"}
MCLimit == (u1 :> 1) @@ (u2 :> 1)
MCRegistered == (<<"dedyn", "io">> :> Operator) @@ (<<"a", "dedyn", "io">> :> u1)
                @@ (<<"b", "a", "dedyn", "io">> :> Nobody) @@ (<<"co", "uk">> :> Nobody)
=============================================================================
