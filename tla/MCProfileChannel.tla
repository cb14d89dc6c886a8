-------------------------- MODULE MCProfileChannel --------------------------
(* Small instances of the request channel.                                 *)
EXTENDS ProfileChannel

CONSTANTS c1, c2, p1, p2

OneClient  == {c1}
TwoClients == {c1, c2}
TwoProfiles   == {Default, p1}
ThreeProfiles == {Default, p1, p2}

Ask(o, n, e) == [op |-> o, name |-> n, enable |-> e]
AnyRequest == Requests
\* a list is answered in two critical sections, a deletion moves the active
\* profile on; a torn request makes one of the other
FewRequests == {Ask("load", p1, -1), Ask("delete", p1, -1), Ask("list", NoName, -1)}
=============================================================================
