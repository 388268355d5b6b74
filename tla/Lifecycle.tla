----------------------------- MODULE Lifecycle -----------------------------
(***************************************************************************)
(* The life of the server process.                                         *)
(*                                                                         *)
(* New acquires what the application needs, one resource after another,    *)
(* and gives everything back in reverse order when a step fails.  Run      *)
(* opens the listeners, starts two background workers and the servers, and *)
(* waits for SIGTERM or for a server that fails.  It then lets the servers *)
(* finish their requests for as long as the shutdown timeout, joins the    *)
(* workers and returns; main closes the application and the process ends.  *)
(* It may be started again, and it may be killed at any moment.            *)
(***************************************************************************)
EXTENDS Integers, Sequences, SequencesExt, FiniteSets

CONSTANTS
    Requests,       \* the HTTP requests at once
    Endpoints,      \* the servers configured: "http", "profiler", "grpc"
    Deployments     \* the stores projects are generated with

ASSUME LifecycleConfig ==
    /\ "http" \in Endpoints /\ IsFiniteSet(Endpoints)
    /\ Deployments \subseteq {"redis", "memory"} /\ Deployments # {}

VARIABLES
    deployment,     \* which store this project uses: never changes
    stage,          \* where New, Run and Close are
    held,           \* the resources acquired, in order: the cleanups
    signalled,      \* SIGTERM or SIGINT has cancelled the context of Run
    endpoint,       \* endpoint[e]: the server e and its listener
    workers,        \* the background workers that run
    told,           \* those Run has stopped on its way out
    timedOut,       \* the shutdown timeout has passed
    forced,         \* the HTTP server gave up waiting for its requests
    open            \* the requests of this process that are not finished

lifecycle == <<deployment, stage, held, signalled, endpoint, workers, told,
               timedOut, forced, open>>

Stages == {"down", "building", "listening", "serving", "draining", "joining", "closing"}

Workers == {"dictionary", "msg"}

Resources == {"tracer", "db", "redis", "cache", "sessions"}

\* What New acquires, in this order; "sessions" is the store with its janitor.
Plan == <<"tracer", "db">> \o
        IF deployment = "redis" THEN <<"redis", "cache">> ELSE <<"sessions">>

Wanted == Plan[Len(held) + 1]

Holds(resource) == Contains(held, resource)

LifecycleTypeOK ==
    /\ deployment \in Deployments
    /\ stage \in Stages
    /\ held \in Seq(Resources) /\ IsPrefix(held, Plan)
    /\ signalled \in BOOLEAN /\ timedOut \in BOOLEAN /\ forced \in BOOLEAN
    /\ endpoint \in [Endpoints -> {"off", "listening", "serving", "failed",
                                   "stopping", "stopped"}]
    /\ workers \in SUBSET Workers /\ told \in SUBSET Workers
    /\ open \in SUBSET Requests

LifecycleInit ==
    /\ deployment \in Deployments
    /\ stage = "down"
    /\ held = <<>>
    /\ signalled = FALSE /\ timedOut = FALSE /\ forced = FALSE
    /\ endpoint = [e \in Endpoints |-> "off"]
    /\ workers = {} /\ told = {}
    /\ open = {}
-----------------------------------------------------------------------------
(* New.                                                                    *)

Start ==
    /\ stage = "down"
    /\ stage' = "building"
    /\ UNCHANGED <<deployment, held, signalled, endpoint, workers, told, timedOut,
                   forced, open>>

Acquire ==
    /\ stage = "building" /\ Len(held) < Len(Plan)
    /\ held' = Append(held, Wanted)
    /\ UNCHANGED <<deployment, stage, signalled, endpoint, workers, told,
                   timedOut, forced, open>>

\* Mutant: an error is returned without giving anything back.
FailToBuildLeaking ==
    /\ stage = "building"
    /\ Len(held) < Len(Plan) => Wanted # "sessions"
    /\ stage' = "down"
    /\ UNCHANGED <<deployment, held, signalled, endpoint, workers, told,
                   timedOut, forced, open>>

\* A resource, or one of the constructors after them: only the store in memory
\* cannot fail.
FailToBuild ==
    /\ stage = "building"
    /\ Len(held) < Len(Plan) => Wanted # "sessions"
    /\ stage' = "closing"
    /\ UNCHANGED <<deployment, held, signalled, endpoint, workers, told,
                   timedOut, forced, open>>

\* The end of New; Run does nothing when the signal is already there.
Built ==
    /\ stage = "building" /\ Len(held) = Len(Plan)
    /\ stage' = IF signalled THEN "closing" ELSE "listening"
    /\ UNCHANGED <<deployment, held, signalled, endpoint, workers, told,
                   timedOut, forced, open>>
-----------------------------------------------------------------------------
(* Run.                                                                    *)

Listen(e) ==
    /\ stage = "listening" /\ endpoint[e] = "off"
    /\ endpoint' = [endpoint EXCEPT ![e] = "listening"]
    /\ UNCHANGED <<deployment, stage, held, signalled, workers, told,
                   timedOut, forced, open>>

\* The listeners opened before are closed on the way out.
FailToListen(e) ==
    /\ stage = "listening" /\ endpoint[e] = "off"
    /\ endpoint' = [f \in Endpoints |-> "off"]
    /\ stage' = "closing"
    /\ UNCHANGED <<deployment, held, signalled, workers, told, timedOut,
                   forced, open>>

Serve ==
    /\ stage = "listening" /\ \A e \in Endpoints : endpoint[e] = "listening"
    /\ workers' = Workers
    /\ endpoint' = [e \in Endpoints |-> "serving"]
    /\ stage' = "serving"
    /\ UNCHANGED <<deployment, held, signalled, told, timedOut, forced, open>>

Signal ==
    /\ stage # "down" /\ ~signalled
    /\ signalled' = TRUE
    /\ UNCHANGED <<deployment, stage, held, endpoint, workers, told,
                   timedOut, forced, open>>

\* Serve returns: its error waits in a channel with room for every server.  One
\* that fails later changes only what Run returns.
ServerFails(e) ==
    /\ stage = "serving" /\ endpoint[e] = "serving"
    /\ endpoint' = [endpoint EXCEPT ![e] = "failed"]
    /\ UNCHANGED <<deployment, stage, held, signalled, workers, told,
                   timedOut, forced, open>>

Drain ==
    /\ stage = "serving"
    /\ signalled \/ \E e \in Endpoints : endpoint[e] = "failed"
    /\ stage' = "draining"
    /\ UNCHANGED <<deployment, held, signalled, endpoint, workers, told,
                   timedOut, forced, open>>

\* shutdown(e) has closed the listener.
Shutdown(e) ==
    /\ stage = "draining" /\ endpoint[e] \in {"serving", "failed"}
    /\ endpoint' = [endpoint EXCEPT ![e] = "stopping"]
    /\ UNCHANGED <<deployment, stage, held, signalled, workers, told,
                   timedOut, forced, open>>

ShutdownTimeout ==
    /\ stage = "draining" /\ ~timedOut
    /\ timedOut' = TRUE
    /\ UNCHANGED <<deployment, stage, held, signalled, endpoint, workers,
                   told, forced, open>>

\* Mutant: Close instead of Shutdown.
DrainedAtOnce(e) ==
    /\ endpoint[e] = "stopping"
    /\ endpoint' = [endpoint EXCEPT ![e] = "stopped"]
    /\ UNCHANGED <<deployment, stage, held, signalled, workers, told,
                   timedOut, forced, open>>

\* Mutant: the servers are shut down without a timeout.
DrainedOnly(e) ==
    /\ endpoint[e] = "stopping"
    /\ e = "http" => open = {}
    /\ endpoint' = [endpoint EXCEPT ![e] = "stopped"]
    /\ UNCHANGED <<deployment, stage, held, signalled, workers, told,
                   timedOut, forced, open>>

\* The calls of the other servers are not modelled: these stop at any time.
Drained(e) ==
    /\ endpoint[e] = "stopping"
    /\ e = "http" => open = {} \/ timedOut
    /\ endpoint' = [endpoint EXCEPT ![e] = "stopped"]
    /\ forced' = (forced \/ (e = "http" /\ open # {}))
    /\ UNCHANGED <<deployment, stage, held, signalled, workers, told,
                   timedOut, open>>

Stopped ==
    /\ stage = "draining" /\ \A e \in Endpoints : endpoint[e] = "stopped"
    /\ stage' = "joining"
    /\ UNCHANGED <<deployment, held, signalled, endpoint, workers, told,
                   timedOut, forced, open>>
-----------------------------------------------------------------------------
(* The workers, whose contexts are children of the one the signal cancels. *)

Cancelled(w) == signalled \/ w \in told

\* Between two sweeps, or when the sweep it is in has ended: each has a timeout.
WorkerReturns(w) ==
    /\ w \in workers /\ Cancelled(w)
    /\ workers' = workers \ {w}
    /\ UNCHANGED <<deployment, stage, held, signalled, endpoint, told,
                   timedOut, forced, open>>

\* Deferred calls: the worker started last is stopped, and waited for, first.
StopWorker(w) ==
    /\ stage = "joining" /\ w \notin told
    /\ w = "msg" => "dictionary" \in told \ workers
    /\ told' = told \cup {w}
    /\ UNCHANGED <<deployment, stage, held, signalled, endpoint, workers,
                   timedOut, forced, open>>

\* Run returns.
Return ==
    /\ stage = "joining" /\ told = Workers
    /\ workers = {}
    /\ endpoint' = [e \in Endpoints |-> "off"]
    /\ stage' = "closing"
    /\ UNCHANGED <<deployment, held, signalled, workers, told, timedOut,
                   forced, open>>
-----------------------------------------------------------------------------
(* Close, and the end of the process.                                      *)

\* Closing the store in memory waits for its janitor, which has only to see that.
Release ==
    /\ stage = "closing" /\ held # <<>>
    /\ held' = Front(held)
    /\ UNCHANGED <<deployment, stage, signalled, endpoint, workers, told,
                   timedOut, forced, open>>

\* What the next process does not see of this one.  Requests that outlived the
\* timeout end with it.
Fresh ==
    /\ signalled' = FALSE /\ timedOut' = FALSE /\ forced' = FALSE
    /\ told' = {}
    /\ open' = {}

Exit ==
    /\ stage = "closing" /\ held = <<>>
    /\ stage' = "down"
    /\ Fresh
    /\ UNCHANGED <<deployment, held, endpoint, workers>>

Crash ==
    /\ stage # "down"
    /\ stage' = "down"
    /\ held' = <<>>
    /\ endpoint' = [e \in Endpoints |-> "off"]
    /\ workers' = {}
    /\ Fresh
    /\ UNCHANGED deployment
-----------------------------------------------------------------------------
(* Requests.                                                               *)

Accept(r) ==
    /\ endpoint["http"] = "serving"
    /\ stage \in {"serving", "draining"}
    /\ open' = open \cup {r}
    /\ UNCHANGED <<deployment, stage, held, signalled, endpoint, workers,
                   told, timedOut, forced>>

Finish(r) ==
    /\ r \in open
    /\ open' = open \ {r}
    /\ UNCHANGED <<deployment, stage, held, signalled, endpoint, workers,
                   told, timedOut, forced>>

\* What the process does by itself, whatever its requests do.
ProcessStep ==
    \/ Acquire \/ FailToBuild \/ Built
    \/ \E e \in Endpoints : Listen(e) \/ FailToListen(e)
    \/ Serve \/ Drain
    \/ \E e \in Endpoints : Shutdown(e) \/ Drained(e)
    \/ ShutdownTimeout \/ Stopped
    \/ \E w \in Workers : StopWorker(w) \/ WorkerReturns(w)
    \/ Return \/ Release

\* What happens to it.
WorldStep ==
    \/ Start \/ Signal
    \/ \E e \in Endpoints : ServerFails(e)
-----------------------------------------------------------------------------
(* Properties.                                                             *)

\* A process that ends by returning has closed every listener, joined its
\* workers and released all it acquired, also when New or Run failed half way
\* (app.go:107-111, 280-287: each failing step cleans up), and no worker is left
\* when the database is closed (lifecycle.go:97, 120: each is waited for).
NothingLeaks ==
    /\ stage = "down" =>
           /\ held = <<>>
           /\ \A e \in Endpoints : endpoint[e] = "off"
           /\ workers = {}
    /\ workers # {} => Holds("db")

\* Run leaves no request behind unless the shutdown timeout has passed: those
\* accepted before the servers stopped run to their end, with the database open.
CleanStopCutsNothing ==
    stage \in {"joining", "closing"} /\ open # {} => forced

\* What each stage finds: the listeners it may meet, the resources it may rely
\* on, and no request before the servers or after them that was not cut off.
StagesOK ==
    /\ stage \in {"down", "building", "closing"} =>
           \A e \in Endpoints : endpoint[e] = "off"
    /\ stage = "listening" => \A e \in Endpoints : endpoint[e] \in {"off", "listening"}
    /\ stage = "serving" => \A e \in Endpoints : endpoint[e] \in {"serving", "failed"}
    /\ stage = "draining" =>
           \A e \in Endpoints : endpoint[e] \in {"serving", "failed", "stopping", "stopped"}
    /\ stage = "joining" => \A e \in Endpoints : endpoint[e] = "stopped"
    /\ stage = "down" => held = <<>>
    /\ stage \in {"listening", "serving", "draining", "joining"} => held = Plan
    /\ workers # {} => stage \in {"serving", "draining", "joining"}
    /\ stage \in {"down", "building", "listening"} => open = {}
    /\ endpoint["http"] = "stopped" /\ open # {} => forced
    /\ stage = "closing" /\ open # {} => forced

\* The process was told to stop, one of its servers failed, or it is closing what it
\* had acquired.  Only its end changes that.
OnItsWayOut ==
    \/ stage # "down" /\ signalled
    \/ \E e \in Endpoints : endpoint[e] = "failed"
    \/ stage \in {"draining", "joining", "closing"}

\* A process that is on its way out ends, even when a handler never returns
\* (app.go: the shutdown timeout).
StopEnds == []<>~OnItsWayOut
=============================================================================
