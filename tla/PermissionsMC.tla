--------------------------- MODULE PermissionsMC ----------------------------
(***************************************************************************)
(* Permissions on a small instance: a directory to be, a node below it that *)
(* may itself be a directory, a resource that is referenced or below       *)
(* either, and a spare key.                                                *)
(***************************************************************************)
EXTENDS Permissions, TLC

CONSTANTS d, a, b, x

MCNodeKeys == {d, a, b, x}

Resource(parent, ops, wild) ==
    [kind |-> "resource", parent |-> parent, refs |-> <<>>, ops |-> ops, wild |-> wild]

Directory(parent, refs) ==
    [kind |-> "directory", parent |-> parent, refs |-> refs, ops |-> <<>>, wild |-> FALSE]

MCResourceOf ==
    [d_read |-> d, d_update |-> d, a_read |-> a, a_update |-> a, b_read |-> b, b_list |-> b,
     b_update |-> b, x_read |-> x, x_list |-> x, x_update |-> x]

MCFeatures == DOMAIN MCResourceOf

OfD == [read |-> {"d_read"}, update |-> {"d_update"}]
OfA == [read |-> {"a_read"}, update |-> {"a_update"}]
OfB == [read |-> {"b_read", "b_list"}, update |-> {"b_update"}]
OfX == [read |-> {"x_read", "x_list"}, update |-> {"x_update"}]

Catalogs(atD, atA, atB, atX) ==
    {(d :> s) @@ (a :> t) @@ (b :> u) @@ (x :> v) : s \in atD, t \in atA, u \in atB, v \in atX}

\* Trees of directories with references, and b as anything.
Trees ==
    Catalogs({Resource(None, OfD, FALSE), Directory(None, <<>>), Directory(None, b :> All),
              Directory(None, b :> {"update"} @@ a :> {"read"})},
             {Resource(None, OfA, FALSE), Resource(d, OfA, FALSE), Directory(d, b :> All),
              Directory(None, b :> {"update"})},
             {Resource(None, OfB, FALSE), Resource(a, OfB, FALSE), Resource(None, OfB, TRUE),
              Resource(None, "update" :> {"b_update"}, FALSE), Directory(None, d :> All), Absent},
             {Absent})

\* Others with x, beside a and b or in their place.
Replacements ==
    Catalogs({Resource(None, OfD, FALSE), Directory(None, x :> {"read"})},
             {Resource(None, OfA, FALSE), Directory(None, x :> All), Absent},
             {Resource(None, OfB, FALSE), Absent},
             {Resource(None, OfX, FALSE), Directory(None, a :> All)})

MCDocuments == Trees \cup Replacements

Renaming(moves, D) == [k \in D |-> IF k \in DOMAIN moves THEN moves[k] ELSE k]

\* None, one to a new key or to one that is there, two to the same.
MCResourceRenames ==
    {Renaming(r, MCNodeKeys) : r \in {<<>>, b :> x, x :> b, a :> x @@ b :> x, b :> a}}

FromB == [b_read |-> "x_read", b_list |-> "x_list", b_update |-> "x_update"]
FromA == [a_read |-> "x_read", a_update |-> "x_update"]

\* Also: two features of a resource become one, and those of two resources.
MCFeatureRenames ==
    {Renaming(r, MCFeatures) :
        r \in {<<>>, FromB, [FromB EXCEPT !.b_list = "x_read"], FromA @@ FromB,
               [x_read |-> "b_read", x_list |-> "b_list", x_update |-> "b_update"]}}

Http(method, path) == Endpoint("http", method, path)

MCEndpointsOf ==
    [d_read   |-> {Http("GET", <<"user", "{id}", "role">>)},
     d_update |-> {Http("GET", <<"user", "new">>), Endpoint("grpc", "GRPC", <<"Set">>)},
     a_read   |-> {Http("GET", <<"user", "{id}">>)},
     a_update |-> {Http("PUT", <<"user", "{id}">>)},
     b_read   |-> {Http("GET", <<"user", "mine">>)},
     b_list   |-> {Http("GET", <<"user", "{id}", "role">>)},
     b_update |-> {Http("PUT", <<"user", "mine">>), Endpoint("grpc", "GRPC", <<"Get">>)},
     x_read   |-> {Http("GET", <<"user", "mine">>)},
     x_list   |-> {Http("GET", <<"user", "mine", "log">>)},
     x_update |-> {Http("PUT", <<"user", "mine">>), Endpoint("grpc", "GRPC", <<"Get">>)}]

MCParameters == {"{id}", ":id", ":name"}

MCRouteTable ==
    {<<"GET", <<"user", ":name">> >>, <<"GET", <<"user", "mine">> >>,
     <<"GET", <<"user", "new">> >>, <<"GET", <<"user", ":id", "role">> >>,
     <<"GET", <<"user", "mine", "log">> >>,
     <<"PUT", <<"user", ":id">> >>, <<"PUT", <<"user", "mine">> >>}

MCOtherScopes == {Http("GET", <<"user", "{id}">>), Endpoint("grpc", "GRPC", <<"Set">>)}

MCResetTargets == {<<"PUT", <<"user", "mine">> >>}

MCTargets ==
    {Target("GET", p, "") : p \in {<<"user", "7">>, <<"user", "mine">>, <<"user", "new">>,
                                   <<"user", "7", "role">>, <<"user", "mine", "role">>,
                                   <<"user", "mine", "log">>, <<"user">>}}
    \cup {Target("PUT", p, "") : p \in {<<"user", "7">>, <<"user", "mine">>}}
    \cup {Target("GRPC", <<>>, r) : r \in {"Set", "Get"}}
=============================================================================
