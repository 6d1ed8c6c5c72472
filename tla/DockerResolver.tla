--------------------------- MODULE DockerResolver ---------------------------
(***************************************************************************)
(* resolver.DockerResolver (collector/resolver/resolver.go): a cache from  *)
(* addresses to container names, filled from a list of the containers and  *)
(* kept up to date from Docker's event stream.  Docker is external: it     *)
(* gives a started container a free address, which another container may   *)
(* have had before, and its stream carries every start and die from the    *)
(* moment of the subscription on, in order, until it fails.                *)
(***************************************************************************)
EXTENDS Integers, Sequences

CONSTANTS
    Containers,     \* container names
    IPs,
    NoIP,           \* not running; not in the cache
    MaxPending      \* bound: events not yet handled

ASSUME ResolverAssumption == NoIP \notin IPs /\ NoIP \notin Containers

VARIABLES
    running,        \* container -> its address, or NoIP (Docker)
    stream,         \* events the subscription holds, oldest first
    cache,          \* r.cache: address -> container, or NoIP
    rpc,            \* where the resolver is: "list", "fill", "subscribe", "watch",
                    \* "inspect", "put", or "ended" (watchEvents has returned)
    info,           \* what Docker answered: the list, or [name, ip]; NoIP
    unseen          \* history: containers of which a start or die was missed, or
                    \* could not be looked up, since their last handled die

resolverVars == <<running, stream, cache, rpc, info, unseen>>

Subscribed == rpc \in {"watch", "inspect", "put"}

ResolverInit ==
    /\ running \in [Containers -> IPs \cup {NoIP}]
    /\ \A c, d \in Containers : c # d => running[c] # running[d] \/ running[c] = NoIP
    /\ stream = <<>> /\ cache = [ip \in IPs |-> NoIP]
    /\ rpc = "list" /\ info = NoIP /\ unseen = {}

----------------------------------------------------------------------------
(* Docker                                                                  *)

\* A change nobody is told of, once the list was made, is missed.
Changes(action, c) ==
    /\ Subscribed => Len(stream) < MaxPending
    /\ stream' = IF Subscribed THEN Append(stream, [action |-> action, name |-> c]) ELSE stream
    /\ unseen' = IF rpc \in {"fill", "subscribe"} THEN unseen \cup {c} ELSE unseen
    /\ UNCHANGED <<cache, rpc, info>>

ContainerStarts(c) ==
    /\ running[c] = NoIP
    /\ \E ip \in IPs : /\ \A d \in Containers : running[d] # ip
                       /\ running' = [running EXCEPT ![c] = ip]
    /\ Changes("start", c)

ContainerDies(c) ==
    /\ running[c] # NoIP /\ running' = [running EXCEPT ![c] = NoIP]
    /\ Changes("die", c)

----------------------------------------------------------------------------
(* NewDockerResolver                                                       *)

\* The request of refreshAll; when it fails, nothing that runs is known.
List ==
    /\ rpc = "list"
    /\ \/ rpc' = "fill" /\ info' = running /\ UNCHANGED unseen
       \/ /\ rpc' = "subscribe" /\ UNCHANGED info
          /\ unseen' = {c \in Containers : running[c] # NoIP}
    /\ UNCHANGED <<running, stream, cache>>

\* Its lock.
Fill ==
    /\ rpc = "fill" /\ rpc' = "subscribe"
    /\ cache' = [ip \in IPs |-> IF \E c \in Containers : info[c] = ip
                                  THEN CHOOSE c \in Containers : info[c] = ip
                                ELSE cache[ip]]
    /\ info' = NoIP
    /\ UNCHANGED <<running, stream, unseen>>

----------------------------------------------------------------------------
(* watchEvents, handleEvent                                                *)

\* The request behind r.client.Events reaches Docker.
Subscribe ==
    /\ rpc = "subscribe" /\ rpc' = "watch"
    /\ UNCHANGED <<running, stream, cache, info, unseen>>

\* The stream fails, or ctx is cancelled: the cache stays as it is.
StreamEnds ==
    /\ rpc = "watch" /\ rpc' = "ended" /\ stream' = <<>>
    /\ UNCHANGED <<running, cache, info, unseen>>

\* Removes the address the container has now.
HandleDieByAddress ==
    /\ rpc = "watch" /\ stream # <<>> /\ Head(stream).action = "die"
    /\ cache' = [ip \in IPs |-> IF ip = running[Head(stream).name] THEN NoIP ELSE cache[ip]]
    /\ unseen' = unseen \ {Head(stream).name}
    /\ stream' = Tail(stream)
    /\ UNCHANGED <<running, rpc, info>>

\* Removes every address with the container's name.
HandleDie ==
    /\ rpc = "watch" /\ stream # <<>> /\ Head(stream).action = "die"
    /\ cache' = [ip \in IPs |-> IF cache[ip] = Head(stream).name THEN NoIP ELSE cache[ip]]
    /\ unseen' = unseen \ {Head(stream).name}
    /\ stream' = Tail(stream)
    /\ UNCHANGED <<running, rpc, info>>

HandleStart ==
    /\ rpc = "watch" /\ stream # <<>> /\ Head(stream).action = "start"
    /\ rpc' = "inspect" /\ info' = [name |-> Head(stream).name, ip |-> NoIP]
    /\ stream' = Tail(stream)
    /\ UNCHANGED <<running, cache, unseen>>

\* ContainerInspect answers with the address of that moment, or fails.
Inspect ==
    /\ rpc = "inspect"
    /\ \/ /\ rpc' = "put" /\ info' = [info EXCEPT !.ip = running[info.name]]
          /\ UNCHANGED unseen
       \/ rpc' = "watch" /\ info' = NoIP /\ unseen' = unseen \cup {info.name}
    /\ UNCHANGED <<running, stream, cache>>

\* Its lock; a container that has stopped again has no valid address.
PutAddress ==
    /\ rpc = "put" /\ rpc' = "watch" /\ info' = NoIP
    /\ cache' = [ip \in IPs |-> IF ip = info.ip THEN info.name ELSE cache[ip]]
    /\ UNCHANGED <<running, stream, unseen>>

ResolverNext ==
    \/ \E c \in Containers : ContainerStarts(c) \/ ContainerDies(c)
    \/ List \/ Fill \/ Subscribe \/ StreamEnds
    \/ HandleDie \/ HandleStart \/ Inspect \/ PutAddress

ResolverSpec == ResolverInit /\ [][ResolverNext]_resolverVars

----------------------------------------------------------------------------
(* Properties                                                              *)

\* Once all events are handled, the cache has exactly the address of every
\* container whose changes all reached it, although each event is looked up some
\* time after it happened, containers restart in between, and addresses pass
\* from one to another.  A container whose start or end was missed at startup is
\* in order again after its next end (resolver.go:160-197).
CacheCatchesUp ==
    (rpc = "watch" /\ stream = <<>>) =>
        \A c \in Containers \ unseen, ip \in IPs : cache[ip] = c <=> running[c] = ip
=============================================================================
