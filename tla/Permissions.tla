---------------------------- MODULE Permissions -----------------------------
(***************************************************************************)
(* The resource catalog of one permission scope, an action stored with     *)
(* bindings to it, and what the holder of that action may call.            *)
(*                                                                         *)
(* A document with an edited catalog comes with the keys of resources and  *)
(* of features that it renames, to new ones or to ones that were there.    *)
(* It is validated and, in the same transaction, the stored configuration  *)
(* follows it: keys are renamed in it, and a resource that became a        *)
(* directory is replaced by what the directory offers.  The document is    *)
(* refused when the configuration does not fit it then.  See Assignments   *)
(* for the transactions, Dictionary for the process's copy of the document.*)
(***************************************************************************)
EXTENDS Routes, FiniteSets

CONSTANTS
    NodeKeys,       \* keys of catalog nodes
    Features,       \* features that may be called for
    EndpointsOf,    \* EndpointsOf[f]: what feature f opens
    ResourceOf,     \* ResourceOf[f]: the resource that feature f is named after
    Documents,      \* catalogs that editors send, a bound
    ResourceRenames, \* new keys of resources, a bound; k is at k when not renamed
    FeatureRenames, \* new keys of features, a bound, likewise
    All,            \* no selection of features, or of operations: all of them
    None,           \* no parent
    Targets         \* requests

Operations == {"read", "update"}

\* A function on some of D.
Partial(f, D, V) == DOMAIN f \subseteq D /\ f \in [DOMAIN f -> V]

\* References are a function from the referenced keys to the selected operations,
\* operations one from the supported to the features.
NodeTyped(node) ==
    /\ node.kind \in {"absent", "directory", "resource"}
    /\ node.parent \in NodeKeys \cup {None}
    /\ Partial(node.refs, NodeKeys, {All} \cup SUBSET Operations)
    /\ Partial(node.ops, Operations, SUBSET Features)

Absent == [kind |-> "absent", parent |-> None, refs |-> <<>>, ops |-> <<>>, wild |-> FALSE]

CatalogTyped(c) == \A k \in NodeKeys : NodeTyped(c[k])

ASSUME CatalogConfig ==
    /\ IsFiniteSet(NodeKeys) /\ None \notin NodeKeys
    /\ \A features \in SUBSET Features : features # All
    /\ \A c \in Documents : CatalogTyped(c)
    /\ ResourceRenames \subseteq [NodeKeys -> NodeKeys]
    /\ FeatureRenames \subseteq [Features -> Features]

\* An RPC and its endpoint have the method "GRPC"; what a request brings is no
\* parameter.
ASSUME EndpointsConfig ==
    /\ EndpointsOf \in [Features -> SUBSET [protocol : {"http", "grpc"}, method : STRING,
                                             path : Seq(STRING)]]
    /\ \A f \in Features : \A e \in EndpointsOf[f] : e.protocol = "grpc" => e.method = "GRPC"
    /\ \A t \in Targets :
          /\ t.path \in Seq(STRING \ Parameters)
          /\ t.resource \in STRING
          /\ t.resource # "" => t.method = "GRPC" /\ t.resource \notin Parameters \cup {Placeholder}

VARIABLES
    catalog,        \* catalog[k]: the node under key k
    config          \* the stored configuration of an action

permissionVars == <<catalog, config>>
-----------------------------------------------------------------------------
(* The catalog.                                                             *)

Exists(c, k) == c[k].kind # "absent"

IsResource(c, k) == c[k].kind = "resource"

Supported(c, k) == DOMAIN c[k].ops

Children(c, k) == {child \in NodeKeys : Exists(c, child) /\ c[child].parent = k}

Selects(c, k, target, op) == LET ops == c[k].refs[target] IN ops = All \/ op \in ops

\* Mutant: a reference passes every operation on.
SupportsAnyReference(c, key, op) ==
    LET supports[at \in NodeKeys \X (SUBSET NodeKeys)] ==
            LET k == at[1]
            IN  IF ~Exists(c, k) \/ k \in at[2] THEN FALSE
                ELSE IF IsResource(c, k) THEN op \in Supported(c, k)
                ELSE \E t \in Children(c, k) \cup DOMAIN c[k].refs :
                        supports[<<t, at[2] \cup {k}>>]
    IN  supports[<<key, {}>>]

\* at: a node, and the nodes on the way to it.
SupportsReferencedOperation(c, key, op) ==
    LET supports[at \in NodeKeys \X (SUBSET NodeKeys)] ==
            LET k == at[1]
            IN  IF ~Exists(c, k) \/ k \in at[2] THEN FALSE
                ELSE IF IsResource(c, k) THEN op \in Supported(c, k)
                ELSE \/ \E t \in Children(c, k) : supports[<<t, at[2] \cup {k}>>]
                     \/ \E t \in DOMAIN c[k].refs :
                           Selects(c, k, t, op) /\ supports[<<t, at[2] \cup {k}>>]
    IN  supports[<<key, {}>>]

\* directoryResourceBindings: <<resource, operation>>, each with all its features.
DirectoryResourceBindings(c, owner, op) ==
    LET visit[at \in NodeKeys \X (SUBSET Operations) \X (SUBSET NodeKeys)] ==
            LET k == at[1]
                ops == at[2]
                path == at[3] \cup {k}
            IN  IF ~Exists(c, k) \/ k \in at[3] \/ ops = {} THEN {}
                ELSE IF IsResource(c, k) THEN {k} \X (ops \cap Supported(c, k))
                ELSE UNION ({visit[<<t, ops, path>>] : t \in Children(c, k)}
                       \cup {visit[<<t, {o \in ops : Selects(c, k, t, o)}, path>>] :
                                 t \in DOMAIN c[k].refs})
    IN  visit[<<owner, IF op = "*" THEN Operations ELSE {op}, {}>>]

Edge(c, a, b) == Exists(c, b) /\ (c[b].parent = a \/ b \in DOMAIN c[a].refs)

Acyclic(c) ==
    \A S \in SUBSET NodeKeys : S # {} => \E a \in S : \A b \in S : ~Edge(c, a, b)

OwnerOf(c, f) ==
    {o \in NodeKeys \X Operations : o[2] \in Supported(c, o[1]) /\ f \in c[o[1]].ops[o[2]]}

\* Keys, labels, entries and buttons of the frontend are not modelled.
Validate(c) ==
    /\ \A k \in NodeKeys :
          /\ c[k].kind = "directory" => Supported(c, k) = {} /\ ~c[k].wild
          /\ DOMAIN c[k].refs # {} => c[k].kind = "directory"
          /\ c[k].parent # None => c[c[k].parent].kind = "directory"
          /\ \A t \in DOMAIN c[k].refs :
                /\ t # k /\ Exists(c, t)
                /\ c[k].refs[t] # All =>
                      /\ c[k].refs[t] # {}
                      /\ \A op \in c[k].refs[t] : SupportsReferencedOperation(c, t, op)
    /\ Acyclic(c)
    /\ \A f \in Features : /\ Cardinality(OwnerOf(c, f)) <= 1
                          /\ \A o \in OwnerOf(c, f) : o[1] = ResourceOf[f]
-----------------------------------------------------------------------------
(* Configurations.  One of bindings is a function from <<resource,          *)
(* operation>> to the selected features; the default one selects resources  *)
(* to read and, for all of them, features; "all" is an older form.          *)

Explicit(bindings) == [builtin |-> "", bindings |-> bindings, keys |-> {}, selected |-> All]

Default(keys, selected) ==
    [builtin |-> "default", bindings |-> <<>>, keys |-> keys, selected |-> selected]

Builtin == [builtin |-> "all", bindings |-> <<>>, keys |-> {}, selected |-> All]

FeaturesOf(c, k, op) == IF op \in Supported(c, k) THEN c[k].ops[op] ELSE {}

Readable(c, keys) == UNION {FeaturesOf(c, k, "read") : k \in keys}

Fits(selection, features) == IF selection = All THEN TRUE ELSE selection \subseteq features

\* The errors of ResolveBinding and ResolveResources.
Resolves(c, cfg) ==
    /\ \A b \in DOMAIN cfg.bindings :
          LET selected == cfg.bindings[b]
          IN  /\ IsResource(c, b[1])
              /\ \/ b[2] = "*" /\ c[b[1]].wild /\ Fits(selected, {})
                 \/ b[2] \in Supported(c, b[1]) /\ Fits(selected, c[b[1]].ops[b[2]])
    /\ \A k \in cfg.keys : IsResource(c, k) /\ "read" \in Supported(c, k)
    /\ Fits(cfg.selected, Readable(c, cfg.keys))

Selected(features, selection) == IF selection = All THEN features ELSE features \cap selection

Wildcard(cfg) == cfg.builtin = "all" \/ \E b \in DOMAIN cfg.bindings : b[2] = "*"

ResolveAll(c) == UNION {FeaturesOf(c, k, op) : k \in NodeKeys, op \in Operations}

ResolveBindings(c, bindings) ==
    UNION {Selected(FeaturesOf(c, b[1], b[2]), bindings[b]) : b \in DOMAIN bindings}

\* A wildcard gets all there is in the scope.
ResolveConfig(c, cfg) ==
    IF Wildcard(cfg) THEN ResolveAll(c)
    ELSE ResolveBindings(c, cfg.bindings) \cup Selected(Readable(c, cfg.keys), cfg.selected)

Opened(features) == UNION {EndpointsOf[f] : f \in features}

\* Mutant: what a resource offers is not added to a binding that is there.
MergeDuplicates(parts) ==
    [b \in {<<p[1], p[2]>> : p \in parts} |->
       CHOOSE selection \in {p[3] : p \in {p \in parts : <<p[1], p[2]>> = b}} : TRUE]

\* mergeResourceBindings, of <<resource, operation, selected>>.
MergeResourceBindings(parts) ==
    [b \in {<<p[1], p[2]>> : p \in parts} |->
       LET selections == {p[3] : p \in {p \in parts : <<p[1], p[2]>> = b}}
       IN  IF All \in selections THEN All ELSE UNION selections]

\* The keys that renames takes to another one were there and are gone, and the
\* other one is there; it may have been there before.
ValidCatalogRenames(renames, previous, current) ==
    \A from \in DOMAIN renames :
       renames[from] # from => from \in previous \ current /\ renames[from] \in current

\* Registered nodes, and features: there is none that no operation has.
Nodes(c) == {k \in NodeKeys : Exists(c, k)}

Buttons(c) == ResolveAll(c)

Moved(selection, moves) == IF selection = All THEN All ELSE {moves[f] : f \in selection}

Converted(before, after, renames, k) ==
    IsResource(before, k) /\ after[renames[k]].kind = "directory"

\* renames: of resources, moves: of features.
MigrateConvertedResourceConfig(before, after, cfg, renames, moves) ==
    LET Became(k) == Converted(before, after, renames, k)
        Directory(k, op) ==
            {<<p[1], p[2], after[p[1]].ops[p[2]]>> :
                p \in DirectoryResourceBindings(after, renames[k], op)}
        bindings == MergeResourceBindings(UNION
            {IF Became(b[1]) THEN Directory(b[1], b[2])
             ELSE {<<renames[b[1]], b[2], Moved(cfg.bindings[b], moves)>>} : b \in DOMAIN cfg.bindings})
        selected == Moved(cfg.selected, moves)
        reads == MergeResourceBindings(UNION
            {IF Became(k) THEN Directory(k, "read")
             ELSE {<<renames[k], "read", Selected(FeaturesOf(after, renames[k], "read"), selected)>>} :
             k \in cfg.keys})
    IN  CASE cfg.builtin = "" -> Explicit(bindings)
          [] cfg.builtin = "default" /\ (\E k \in cfg.keys : Became(k)) ->
                Default({b[1] : b \in DOMAIN reads}, UNION {reads[b] : b \in DOMAIN reads})
          [] OTHER -> [builtin |-> cfg.builtin, bindings |-> cfg.bindings,
                       keys |-> {renames[k] : k \in cfg.keys}, selected |-> selected]

\* Two features of a selection get one key.
Collapses(selection, moves) ==
    selection # All /\ \E f, g \in selection : f # g /\ moves[f] = moves[g]

\* A list that names a binding, a resource or a feature twice is refused.  Only with a
\* conversion are bindings merged, and the features of one added once to those of
\* another; the order of bindings is not modelled.
Unrepeated(before, after, cfg, renames, moves) ==
    LET kept == {b \in DOMAIN cfg.bindings : ~Converted(before, after, renames, b[1])}
        gone == DOMAIN cfg.bindings \ kept
        Alike(b, other) == renames[b[1]] = renames[other[1]] /\ b[2] = other[2]
    IN  /\ gone = {} => \A b, other \in kept : Alike(b, other) => b = other
        /\ \A b \in kept : Collapses(cfg.bindings[b], moves) =>
              \/ \E other \in kept : Alike(b, other) /\ ~Collapses(cfg.bindings[other], moves)
              \/ \E other \in gone :
                    <<renames[b[1]], b[2]>> \in DirectoryResourceBindings(after, renames[other[1]], other[2])
        /\ \/ \E k \in cfg.keys : Converted(before, after, renames, k)
           \/ /\ \A j, k \in cfg.keys : renames[j] = renames[k] => j = k
              /\ ~Collapses(cfg.selected, moves)
-----------------------------------------------------------------------------
(* Edits.                                                                  *)

\* Configurations that an administrator stores, a bound: one binding, up to three to
\* read, or up to three resources, each with one selection of up to two features of
\* a resource, or the form of old.
OneBinding(k, op, selected) == [b \in {<<k, op>>} |-> selected]

Reads(keys, k, selected) == [b \in keys \X {"read"} |-> IF b[1] = k THEN selected ELSE All]

FewKeys == {keys \in SUBSET NodeKeys : Cardinality(keys) \in 1..3}

FewFeatures ==
    {All, {}} \cup {{p[1], p[2]} : p \in {p \in Features \X Features : ResourceOf[p[1]] = ResourceOf[p[2]]}}

Storable ==
    {Explicit(OneBinding(k, op, selected)) :
        k \in NodeKeys, op \in Operations \cup {"*"}, selected \in FewFeatures}
    \cup {Explicit(Reads(keys, k, selected)) :
        keys \in FewKeys, k \in NodeKeys, selected \in FewFeatures}
    \cup {Default(keys, selected) : keys \in FewKeys, selected \in FewFeatures}
    \cup {Builtin}

Selections == {All} \cup SUBSET Features

ConfigTyped(cfg) ==
    /\ Partial(cfg.bindings, NodeKeys \X (Operations \cup {"*"}), Selections)
    /\ cfg.keys \subseteq NodeKeys
    /\ cfg.selected \in Selections
    /\ \/ cfg.builtin = "" /\ cfg.keys = {}
       \/ cfg.builtin \in {"default", "all"} /\ DOMAIN cfg.bindings = {}

PermissionsTypeOK ==
    /\ CatalogTyped(catalog)
    /\ ConfigTyped(config)
    /\ Validate(catalog)
    /\ Resolves(catalog, config)

PermissionsInit ==
    /\ catalog = [k \in NodeKeys |-> Absent]
    /\ config = Explicit(<<>>)

UpdateCatalog(next, renames, moves) ==
    /\ ValidCatalogRenames(renames, Nodes(catalog), Nodes(next))
    /\ ValidCatalogRenames(moves, Buttons(catalog), Buttons(next))
    /\ catalog' \in {c \in {next} : Validate(c)}
    /\ config' \in {cfg \in {MigrateConvertedResourceConfig(catalog, next, config, renames, moves)} :
                       Unrepeated(catalog, next, config, renames, moves) /\ Resolves(next, cfg)}

\* Mutant: the definition is stored as it was sent.
UpdateActionUnresolved ==
    /\ config' \in Storable
    /\ UNCHANGED catalog

\* An action is defined or edited, or another one, of any form, is looked at.
UpdateAction ==
    /\ config' \in {cfg \in Storable : Resolves(catalog, cfg)}
    /\ UNCHANGED catalog

PermissionsNext ==
    \/ \E next \in Documents, renames \in ResourceRenames, moves \in FeatureRenames :
          UpdateCatalog(next, renames, moves)
    \/ UpdateAction

PermissionsSpec == PermissionsInit /\ [][PermissionsNext]_permissionVars
-----------------------------------------------------------------------------
(* What must hold.                                                         *)

\* What a directory offers for an operation: every set of nodes that has it and,
\* with a node, what that passes the operation on to, has the resource.
Offered(c, directory, op) ==
    LET Passes(a, b) ==
            /\ Exists(c, b)
            /\ \/ c[b].parent = a
               \/ b \in DOMAIN c[a].refs /\ Selects(c, a, b, op)
    IN  {k \in NodeKeys :
           /\ IsResource(c, k) /\ op \in Supported(c, k)
           /\ \A S \in SUBSET NodeKeys :
                 directory \in S /\ (\A a \in S, b \in NodeKeys : Passes(a, b) => b \in S)
                 => k \in S}

\* What the validation of references believes to be offered is what a conversion
\* finds, through whatever chains of children and references with operations
\* (resource_catalog.go:301: "follows the same operation intersections as the
\* reference picker").
PickerAgrees ==
    \A k \in NodeKeys, op \in Operations :
       Exists(catalog, k) =>
          LET offered == Offered(catalog, k, op)
          IN  /\ SupportsReferencedOperation(catalog, k, op) <=> offered # {}
              /\ DirectoryResourceBindings(catalog, k, op) = offered \X {op}

\* What remains of a selection of features for an operation: the same of a
\* resource, all that a directory offers for it.
Remains(c, k, op, selected) ==
    IF IsResource(c, k) THEN Selected(FeaturesOf(c, k, op), selected)
    ELSE UNION {UNION {FeaturesOf(c, leaf, o) : leaf \in Offered(c, k, o)} :
                   o \in IF op = "*" THEN Operations ELSE {op}}

GrantsFollow ==
    \A renames \in ResourceRenames, moves \in FeatureRenames :
       /\ catalog' # catalog /\ ~Wildcard(config')
       /\ UpdateCatalog(catalog', renames, moves)
       =>
          ResolveConfig(catalog', config') =
             (UNION {Remains(catalog', renames[b[1]], b[2], Moved(config.bindings[b], moves)) :
                        b \in DOMAIN config.bindings})
             \cup UNION {Remains(catalog', renames[k], "read", Moved(config.selected, moves)) :
                            k \in config.keys}

\* After an edit of the catalog the action grants, for each resource it is bound
\* to, the selected features under their new keys of the resource that has its
\* key's place, be that a new one or one that was there and that the action may
\* be bound to as well; and for a resource that became a directory what the
\* directory offers for the operation.  No more and no less, in whatever way the
\* bindings are merged (resource_conversion.go:12: "an explicit snapshot of their
\* new children and references").
GrantsFollowTheCatalog == [][GrantsFollow]_permissionVars

\* The endpoints of other actions and templates that overlap do not matter: a
\* holder may call a path just when the route that the router takes for it is a
\* granted endpoint; a wildcard never closes a route of its own scope that
\* another scope's template covers too (permission.go:82, 128).
CheckFollowsTheRouter ==
    LET granted == Opened(ResolveConfig(catalog, config))
    IN  \A t \in Targets, reset \in BOOLEAN :
           LET routed == IF t.resource = "" THEN Dispatch(t.method, t.path) ELSE {<<t.resource>>}
               opens == \E e \in granted, r \in routed :
                           /\ (e.protocol = "grpc") = (t.resource # "")
                           /\ e.method = t.method
                           /\ CanonicalRoute(e.path) = CanonicalRoute(r)
               allowed == CheckPermission(granted, Wildcard(config), reset, t)
           IN  /\ routed # {} /\ ~reset /\ opens => allowed
               /\ routed # {} /\ ~Wildcard(config) /\ allowed => opens
               /\ reset /\ allowed => <<t.method, t.path>> \in ResetTargets
=============================================================================
