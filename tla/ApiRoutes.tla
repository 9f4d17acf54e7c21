------------------------------- MODULE ApiRoutes -------------------------------
(***************************************************************************)
(* The endpoints of an API proxy (uns-api-proxy.ts) and what others see of *)
(* them: the Express router, the Swagger paths, the registries the base    *)
(* class announces to the Controller (uns-proxy.ts), and the plugin that   *)
(* holds announcements back until the process owns its service             *)
(* (uns-api-plugin.ts).  Paths are those Express accepts, requests and     *)
(* their authorization are left out, the Controller keeps the last list of *)
(* a registry, and the held-back lists are sent in any order.              *)
(***************************************************************************)
EXTENDS Naturals

CONSTANTS
    Registrations,  \* [endpoint, registry] the application may register
    MaxAsked        \* bound: calls that register or unregister

ASSUME RoutesAssumption ==
    \A c \in Registrations :
        c = [endpoint |-> [method |-> c.endpoint.method, path |-> c.endpoint.path],
             registry |-> c.registry]

CatchAll == [method |-> "ANY", path |-> "#"]
Endpoints == {c.endpoint : c \in Registrations}
Registries == {c.registry : c \in Registrations}
Paths(endpoints) == {e.path : e \in endpoints}

VARIABLES
    listening,  \* app.server.listening
    asked,      \* number of calls of the application
    waiting,    \* registrations that poll for the server
    routes,     \* endpoints with a layer in app.router
    documented, \* endpoints in app.swaggerSpec.paths
    announced,  \* by registry: producedApiEndpoints, produced...Endpoints, ...Catchall
    ownership,  \* of the plugin: no, flushing, yes, released
    deferred,   \* deferredMetadata, by registry
    toFlush,    \* registries onActivate() still has to publish
    heard       \* by registry: the list the Controller has

endpointVars == <<listening, asked, waiting, routes, documented, announced>>
metadataVars == <<ownership, deferred, toFlush, heard>>
routesVars == <<endpointVars, metadataVars>>

\* ownership = "yes": the process does not take part in stateful handover.
RoutesInit ==
    /\ listening = FALSE /\ asked = 0
    /\ waiting = {} /\ routes = {} /\ documented = {} /\ toFlush = {}
    /\ announced = [r \in Registries |-> {}]
    /\ deferred = [r \in Registries |-> {}]
    /\ heard = [r \in Registries |-> {}]
    /\ ownership \in {"no", "yes"}

-----------------------------------------------------------------------------
\* Announcements

Publishing == ownership \in {"flushing", "yes"}

\* emitProduced...() of some registries, to publishMetadata().  An empty list is
\* not sent.
Emit(registries, lists) ==
    LET sent(old) == [r \in Registries |->
                        IF r \in registries /\ lists[r] # {} THEN lists[r] ELSE old[r]]
    IN  /\ heard' = IF Publishing THEN sent(heard) ELSE heard
        /\ deferred' = IF Publishing THEN deferred ELSE sent(deferred)
        /\ UNCHANGED <<ownership, toFlush>>

\* The minute timer of the proxy.
Announce ==
    /\ Emit(Registries, announced)
    /\ UNCHANGED endpointVars

\* onActivate(): from here on lists are published, and the flush goes on beside.
MetadataActivate ==
    /\ ownership = "no"
    /\ ownership' = "flushing"
    /\ toFlush' = {r \in Registries : deferred[r] # {}}
    /\ UNCHANGED <<endpointVars, deferred, heard>>

\* The flush publishes the list of a registry as it was held back.
Flush(r) ==
    /\ ownership = "flushing" /\ r \in toFlush
    /\ heard' = [heard EXCEPT ![r] = deferred[r]]
    /\ toFlush' = toFlush \ {r}
    /\ UNCHANGED <<endpointVars, ownership, deferred>>

FlushEnds ==
    /\ ownership = "flushing" /\ toFlush = {}
    /\ ownership' = "yes"
    /\ deferred' = [r \in Registries |-> {}]
    /\ UNCHANGED <<endpointVars, toFlush, heard>>

MetadataRelease ==
    /\ ownership = "yes" /\ ownership' = "released"
    /\ UNCHANGED <<endpointVars, deferred, toFlush, heard>>

-----------------------------------------------------------------------------
\* Endpoints

\* registerApiEndpoint(): a path that is in the registry stays as it is there.
\* registerApiCatchAll() sends its registry every time.
RegisterEndpoint(e, r) ==
    IF e # CatchAll /\ e.path \in Paths(announced[r])
      THEN UNCHANGED <<announced, metadataVars>>
      ELSE /\ announced' = [announced EXCEPT ![r] = @ \cup {e}]
           /\ Emit({r}, announced')

\* get() writes the Swagger path anew, the others add their method to it, the
\* catch-all has a document of its own.
Document(e) ==
    IF e = CatchAll THEN documented
    ELSE {d \in documented : e.method = "GET" => d.path # e.path} \cup {e}

\* get(), registerMutationEndpoint(), registerCatchAll(), once the server listens.
Register(c) ==
    /\ RegisterEndpoint(c.endpoint, c.registry)
    /\ routes' = routes \cup {c.endpoint}
    /\ documented' = Document(c.endpoint)

\* An endpoint that waits is not registered a second time.
CallRegister(c) ==
    /\ asked < MaxAsked /\ asked' = asked + 1
    /\ c \notin waiting
    /\ IF listening
         THEN Register(c) /\ UNCHANGED waiting
         ELSE /\ waiting' = waiting \cup {c}
              /\ UNCHANGED <<routes, documented, announced, metadataVars>>
    /\ UNCHANGED listening

\* The poll of a registration finds the server listening.
Continue(c) ==
    /\ listening /\ c \in waiting
    /\ waiting' = waiting \ {c}
    /\ Register(c)
    /\ UNCHANGED <<listening, asked>>

Listen ==
    /\ ~listening /\ listening' = TRUE
    /\ UNCHANGED <<asked, waiting, routes, documented, announced, metadataVars>>

\* Fault: a path stays in its registry, with its first method, while it has routes.
UnregisterLast(e) ==
    /\ asked < MaxAsked /\ asked' = asked + 1
    /\ routes' = routes \ {e} /\ documented' = documented \ {e}
    /\ LET found == {r \in Registries : e.path \in Paths(announced[r]) \ Paths(routes')}
       IN  /\ announced' = [r \in Registries |->
                              IF r \in found THEN {d \in announced[r] : d.path # e.path}
                              ELSE announced[r]]
           /\ Emit(found, announced')
    /\ UNCHANGED <<listening, waiting>>

\* unregister(): the layers and the Swagger entry of the method, but the path in
\* every registry.
Unregister(e) ==
    /\ asked < MaxAsked /\ asked' = asked + 1
    /\ routes' = routes \ {e} /\ documented' = documented \ {e}
    /\ LET found == {r \in Registries : e.path \in Paths(announced[r])}
       IN  /\ announced' = [r \in Registries |->
                              {d \in announced[r] : d.path # e.path}]
           /\ Emit(found, announced')
    /\ UNCHANGED <<listening, waiting>>

RoutesNext ==
    \/ \E c \in Registrations : CallRegister(c) \/ Continue(c)
    \/ \E e \in Endpoints \ {CatchAll} : Unregister(e)
    \/ \E r \in Registries : Flush(r)
    \/ Listen \/ Announce \/ MetadataActivate \/ FlushEnds \/ MetadataRelease

RoutesFairness ==
    /\ WF_routesVars(Announce) /\ WF_routesVars(FlushEnds)
    /\ \A r \in Registries : WF_routesVars(Flush(r))

RoutesSpec == RoutesInit /\ [][RoutesNext]_routesVars /\ RoutesFairness

-----------------------------------------------------------------------------

RoutesTypeOK ==
    /\ listening \in BOOLEAN /\ asked \in 0..MaxAsked /\ waiting \subseteq Registrations
    /\ routes \subseteq Endpoints /\ documented \subseteq Endpoints
    /\ {announced, deferred, heard} \subseteq [Registries -> SUBSET Endpoints]
    /\ ownership \in {"no", "flushing", "yes", "released"} /\ toFlush \subseteq Registries

\* Whatever is announced or documented is served, although the registries know
\* one method of a path and unregister() takes the path out of them.
AnnouncedIsServed ==
    /\ \A r \in Registries : announced[r] \subseteq routes
    /\ documented \subseteq routes

\* The held-back lists are published beside newer ones, and an empty list never
\* is: while the process owns its service the Controller still ends up with the
\* list of each registry that is not empty, and every endpoint in it is served.
ControllerSettles ==
    <>[](ownership = "yes") =>
        <>[](\A r \in Registries :
               announced[r] # {} =>
                 heard[r] = announced[r] /\ heard[r] \subseteq routes)
=============================================================================
