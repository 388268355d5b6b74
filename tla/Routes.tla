------------------------------- MODULE Routes -------------------------------
(***************************************************************************)
(* Which route a path is, and who may call it: the decision behind every   *)
(* authenticated request.                                                  *)
(*                                                                         *)
(* A path is a sequence of segments; a segment of a route or of an         *)
(* endpoint's template is a parameter or is itself.  The values parameters *)
(* take are ordinary segments.                                             *)
(***************************************************************************)
EXTENDS Integers, Sequences

CONSTANTS
    Parameters,     \* segments that are parameters, in either syntax
    RouteTable,     \* the <<method, path>> the HTTP router has
    OtherScopes,    \* endpoints of features of other scopes
    ResetTargets    \* <<method, path>> open to who must replace a password

ASSUME RoutesConfig == RouteTable \subseteq STRING \X Seq(STRING)

\* An endpoint of protocol "grpc" has the method "GRPC" and a path of one segment.
Endpoint(protocol, method, path) == [protocol |-> protocol, method |-> method, path |-> path]

\* A request: resource is the name of an RPC, or "" for HTTP.
Target(method, path, resource) == [method |-> method, path |-> path, resource |-> resource]

\* Parameters match one segment each.
MatchRouteTemplate(template, path) ==
    /\ Len(template) = Len(path)
    /\ \A i \in DOMAIN path : template[i] \in Parameters \/ template[i] = path[i]

\* What two spellings of a route have in common.
Placeholder == "{}"

CanonicalRoute(path) ==
    [i \in DOMAIN path |-> IF path[i] \in Parameters THEN Placeholder ELSE path[i]]

MatchEndpoint(endpoint, target) ==
    IF target.resource # "" THEN
        endpoint.protocol = "grpc" /\ endpoint.path = <<target.resource>>
    ELSE /\ endpoint.protocol = "http" /\ endpoint.method = target.method
         /\ MatchRouteTemplate(endpoint.path, target.path)

\* Of two templates of one path: the leftmost segment in which only one has a
\* parameter decides.
Precedes(a, b) ==
    \E i \in DOMAIN a :
       /\ a[i] \notin Parameters /\ b[i] \in Parameters
       /\ \A j \in 1 .. i - 1 : (a[j] \in Parameters) = (b[j] \in Parameters)

Matching(target) ==
    {r[2] : r \in {r \in RouteTable : /\ target.resource = "" /\ r[1] = target.method
                                      /\ MatchRouteTemplate(r[2], target.path)}}

\* Mutant: only the templates are compared.
ResolveNoRoute(target) == {}

\* resolveHTTPRoute: none or one.
ResolveHTTPRoute(target) ==
    LET matching == Matching(target)
    IN  {r \in matching : \A s \in matching : ~Precedes(s, r)}

\* CheckPermission, for the endpoints a user was granted.  reset: the user must
\* replace the password before anything else.
CheckPermission(granted, wildcard, reset, target) ==
    LET resolved == ResolveHTTPRoute(target)
    IN  /\ reset => /\ target.resource = ""
                    /\ <<target.method, target.path>> \in ResetTargets
        /\ \/ \E e \in granted :
                 IF resolved # {}
                 THEN /\ e.protocol = "http" /\ e.method = target.method
                      /\ \E r \in resolved : CanonicalRoute(e.path) = CanonicalRoute(r)
                 ELSE MatchEndpoint(e, target)
           \/ wildcard /\ ~\E e \in OtherScopes : MatchEndpoint(e, target)
-----------------------------------------------------------------------------
\* What the HTTP router does with a path, segment by segment: the static child
\* before the parameter, and back when that leads nowhere.
Dispatch(method, path) ==
    LET table == {r[2] : r \in {r \in RouteTable : r[1] = method /\ Len(r[2]) = Len(path)}}
        Under(routes, i, segments) == {r \in routes : r[i] \in segments}
        descend[at \in (SUBSET table) \X (1 .. Len(path) + 1)] ==
            LET routes == at[1]
                i == at[2]
            IN  IF i > Len(path) \/ routes = {} THEN routes
                ELSE LET static == descend[<<Under(routes, i, {path[i]}), i + 1>>]
                     IN  IF static # {} THEN static
                         ELSE descend[<<Under(routes, i, Parameters), i + 1>>]
    IN  descend[<<table, 1>>]
=============================================================================
