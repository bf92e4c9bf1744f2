-------------------------------- MODULE WsHub --------------------------------
(***************************************************************************)
(* The dashboard's WebSocket hub (api/websocket_handler.go) with its       *)
(* connections, the forwarding of events and Server.Shutdown.              *)
(*                                                                         *)
(* A connection is a read pump and a write pump, which share a cleanup     *)
(* that runs once.  The channels register and unregister are unbuffered:   *)
(* a send on them and the hub's receipt are one step.                      *)
(***************************************************************************)
EXTENDS Integers, FiniteSets

CONSTANTS
    Clients,         \* connections that may be opened
    MaxClients,      \* maxWSClients, 100 in the code
    SendCap,         \* capacity of a client's channel, 64 in the code
    BroadcastCap,    \* capacity of the broadcast channel, 256 in the code
    MaxEvents,       \* bound on the events that are published
    Stuck            \* peers that read nothing: a write to them never returns

ASSUME HubAssumption ==
    /\ IsFiniteSet(Clients)
    /\ MaxClients \in Nat \ {0} /\ SendCap \in Nat \ {0} /\ BroadcastCap \in Nat \ {0}
    /\ MaxEvents \in Nat /\ Stuck \subseteq Clients

VARIABLES
    clients,     \* the hub's map
    broadcast,   \* messages in the broadcast channel
    hub,         \* the hub's goroutine
    stop,        \* the channel stop is closed
    ctxDone,     \* the server's context is cancelled
    forwarder,   \* the goroutine of forwardEvents
    events,      \* events published so far
    returned,    \* Server.Shutdown has returned
    read,        \* read pump (and handler) of each connection
    write,       \* write pump of each connection
    once,        \* who runs the cleanup of the connection
    queued,      \* messages in the client's channel
    closes,      \* how often the client's channel was closed
    conn         \* the connection itself

pumps == <<read, write, once, conn>>
server == <<stop, ctxDone, returned>>
hubVars == <<clients, broadcast, hub, forwarder, events, queued, closes, pumps, server>>

HubInit ==
    /\ clients = {} /\ broadcast = 0 /\ hub = "running" /\ forwarder = "waiting"
    /\ stop = FALSE /\ ctxDone = FALSE /\ returned = FALSE /\ events = 0
    /\ read = [c \in Clients |-> "none"] /\ write = [c \in Clients |-> "none"]
    /\ once = [c \in Clients |-> "free"]
    /\ queued = [c \in Clients |-> 0] /\ closes = [c \in Clients |-> 0]
    /\ conn = [c \in Clients |-> "none"]

CloseSend(S) == closes' = [c \in Clients |-> closes[c] + (IF c \in S THEN 1 ELSE 0)]

---------------------------------------------------------------------------
(* forwardEvents                                                           *)

\* The bus hands over an event; one that cannot be encoded is skipped.
ReceiveEvent ==
    /\ forwarder = "waiting" /\ events < MaxEvents
    /\ events' = events + 1
    /\ forwarder' \in {"waiting", "sending"}
    /\ UNCHANGED <<clients, broadcast, hub, queued, closes, pumps, server>>

\* The send to the hub has no alternative: it waits while the channel is full.
Forward ==
    /\ forwarder = "sending" /\ broadcast < BroadcastCap
    /\ broadcast' = broadcast + 1 /\ forwarder' = "waiting"
    /\ UNCHANGED <<clients, hub, events, queued, closes, pumps, server>>

\* A plausible bug: the end of the context is not watched for.
StopForwardingNever == FALSE /\ UNCHANGED hubVars

StopForwarding ==
    /\ forwarder = "waiting" /\ ctxDone
    /\ forwarder' = "done"
    /\ UNCHANGED <<clients, broadcast, hub, events, queued, closes, pumps, server>>

---------------------------------------------------------------------------
(* The hub                                                                 *)

\* A plausible bug: no limit on the clients.
RegisterUnlimited(c) ==
    /\ hub = "running" /\ read[c] = "registering"
    /\ read' = [read EXCEPT ![c] = "reading"] /\ write' = [write EXCEPT ![c] = "ranging"]
    /\ clients' = clients \cup {c}
    /\ UNCHANGED <<broadcast, hub, forwarder, events, queued, closes, once, conn, server>>

\* A client beyond the limit loses its channel and its connection at once.
Register(c) ==
    /\ hub = "running" /\ read[c] = "registering"
    /\ read' = [read EXCEPT ![c] = "reading"] /\ write' = [write EXCEPT ![c] = "ranging"]
    /\ \/ /\ Cardinality(clients) >= MaxClients
          /\ CloseSend({c}) /\ conn' = [conn EXCEPT ![c] = "closed"]
          /\ UNCHANGED clients
       \/ /\ Cardinality(clients) < MaxClients
          /\ clients' = clients \cup {c}
          /\ UNCHANGED <<closes, conn>>
    /\ UNCHANGED <<broadcast, hub, forwarder, events, queued, once, server>>

\* A plausible bug: the channel is closed whether or not the client is known.
LetGoAnyway(c) == clients' = clients \ {c} /\ CloseSend({c})

LetGo(c) == clients' = clients \ {c} /\ CloseSend({c} \cap clients)

\* One message goes to every client; those whose channel is full are evicted.
Broadcast ==
    /\ hub = "running" /\ broadcast > 0
    /\ broadcast' = broadcast - 1
    /\ LET full == {c \in clients : queued[c] >= SendCap}
       IN  /\ clients' = clients \ full
           /\ CloseSend(full)
           /\ queued' = [c \in Clients |-> IF c \in clients \ full THEN queued[c] + 1
                                                                   ELSE queued[c]]
    /\ UNCHANGED <<hub, forwarder, events, pumps, server>>

\* run returns and leaves the broadcast channel as it is.
StopHub ==
    /\ hub = "running" /\ stop
    /\ CloseSend(clients) /\ clients' = {}
    /\ hub' = "stopped"
    /\ UNCHANGED <<broadcast, forwarder, events, queued, pumps, server>>

---------------------------------------------------------------------------
(* A connection                                                            *)

\* A client connects; the HTTP server may still accept during a shutdown.
Connect(c) ==
    /\ read[c] = "none"
    /\ read' = [read EXCEPT ![c] = "registering"] /\ conn' = [conn EXCEPT ![c] = "open"]
    /\ UNCHANGED <<clients, broadcast, hub, forwarder, events, queued, closes, write, once, server>>

\* The hub is stopping: the connection is closed and no pump is started.
Refuse(c) ==
    /\ read[c] = "registering" /\ stop
    /\ conn' = [conn EXCEPT ![c] = "closed"]
    /\ read' = [read EXCEPT ![c] = "done"] /\ write' = [write EXCEPT ![c] = "done"]
    /\ UNCHANGED <<clients, broadcast, hub, forwarder, events, queued, closes, once, server>>

\* The write pump takes a message, also from a channel that was closed since.
TakeMessage(c) ==
    /\ write[c] = "ranging" /\ queued[c] > 0
    /\ queued' = [queued EXCEPT ![c] = @ - 1]
    /\ write' = [write EXCEPT ![c] = "writing"]
    /\ UNCHANGED <<clients, broadcast, hub, forwarder, events, closes, read, once, conn, server>>

\* WriteMessage returns, with an error once the connection is closed.
Written(c) ==
    /\ write[c] = "writing"
    /\ \/ conn[c] = "open" /\ c \notin Stuck /\ write' = [write EXCEPT ![c] = "ranging"]
       \/ conn[c] = "closed" /\ write' = [write EXCEPT ![c] = "cleanup"]
    /\ UNCHANGED <<clients, broadcast, hub, forwarder, events, queued, closes, read, once, conn, server>>

\* The channel is closed and empty: the range ends.
RangeEnds(c) ==
    /\ write[c] = "ranging" /\ queued[c] = 0 /\ closes[c] > 0
    /\ write' = [write EXCEPT ![c] = "cleanup"]
    /\ UNCHANGED <<clients, broadcast, hub, forwarder, events, queued, closes, read, once, conn, server>>

\* ReadMessage fails: the connection is closed, or the peer goes away, says
\* nothing valid or too much, at any time.
ReadFails(c) ==
    /\ read[c] = "reading"
    /\ read' = [read EXCEPT ![c] = "cleanup"]
    /\ UNCHANGED <<clients, broadcast, hub, forwarder, events, queued, closes, write, once, conn, server>>

ReadFailsClosed(c) == conn[c] = "closed" /\ ReadFails(c)

Pump(c, side) == IF side = "read" THEN read[c] ELSE write[c]
SetPump(c, side, to) ==
    IF side = "read" THEN read' = [read EXCEPT ![c] = to] /\ UNCHANGED write
                     ELSE write' = [write EXCEPT ![c] = to] /\ UNCHANGED read

\* The first pump takes the Once; the other waits inside Do until it is done.
EnterOnce(c, side) ==
    /\ Pump(c, side) = "cleanup"
    /\ \/ /\ once[c] = "free"
          /\ once' = [once EXCEPT ![c] = "taken"] /\ SetPump(c, side, "unregistering")
       \/ /\ once[c] = "over"
          /\ SetPump(c, side, "done") /\ UNCHANGED once
    /\ UNCHANGED <<clients, broadcast, hub, forwarder, events, queued, closes, conn, server>>

\* A plausible bug: the cleanup waits for a hub that may have stopped.
UnregisterWaits(c, side) ==
    /\ Pump(c, side) = "unregistering" /\ hub = "running" /\ LetGo(c)
    /\ SetPump(c, side, "done")
    /\ conn' = [conn EXCEPT ![c] = "closed"] /\ once' = [once EXCEPT ![c] = "over"]
    /\ UNCHANGED <<broadcast, hub, forwarder, events, queued, server>>

\* The hub is told, or is stopping; then the connection is closed.
Unregister(c, side) ==
    /\ Pump(c, side) = "unregistering"
    /\ \/ hub = "running" /\ LetGo(c)
       \/ stop /\ UNCHANGED <<clients, closes>>
    /\ SetPump(c, side, "done")
    /\ conn' = [conn EXCEPT ![c] = "closed"] /\ once' = [once EXCEPT ![c] = "over"]
    /\ UNCHANGED <<broadcast, hub, forwarder, events, queued, server>>

---------------------------------------------------------------------------
(* Server.Shutdown                                                         *)

Cancel ==
    /\ ~ctxDone /\ ctxDone' = TRUE
    /\ UNCHANGED <<clients, broadcast, hub, forwarder, events, queued, closes, pumps, stop, returned>>

CloseStop ==
    /\ ctxDone /\ ~stop /\ stop' = TRUE
    /\ UNCHANGED <<clients, broadcast, hub, forwarder, events, queued, closes, pumps, ctxDone, returned>>

\* wg.Wait: both goroutines have ended.  The pipelines of the same wait group
\* are in TaskEvents.
ShutdownReturns ==
    /\ stop /\ hub = "stopped" /\ forwarder = "done" /\ ~returned
    /\ returned' = TRUE
    /\ UNCHANGED <<clients, broadcast, hub, forwarder, events, queued, closes, pumps, stop, ctxDone>>

---------------------------------------------------------------------------
Sides == {"read", "write"}

HubStep == Broadcast \/ StopHub \/ \E c \in Clients : Register(c)
ForwarderStep == Forward \/ StopForwarding
PumpStep(c) ==
    \/ Refuse(c) \/ TakeMessage(c) \/ Written(c) \/ RangeEnds(c) \/ ReadFailsClosed(c)
    \/ \E side \in Sides : EnterOnce(c, side) \/ Unregister(c, side)

HubNext ==
    \/ ReceiveEvent \/ HubStep \/ ForwarderStep
    \/ \E c \in Clients : Connect(c) \/ ReadFails(c) \/ PumpStep(c)
    \/ Cancel \/ CloseStop \/ ShutdownReturns

\* Goroutines run; select is fair between ready channels.  Nobody has to
\* connect, disconnect, publish or shut down; a shutdown once begun goes on.
HubFairness ==
    /\ WF_hubVars(Broadcast) /\ WF_hubVars(StopHub) /\ WF_hubVars(ForwarderStep)
    /\ WF_hubVars(CloseStop) /\ WF_hubVars(ShutdownReturns)
    /\ \A c \in Clients : WF_hubVars(Register(c)) /\ WF_hubVars(PumpStep(c))

HubSpec == HubInit /\ [][HubNext]_hubVars /\ HubFairness

---------------------------------------------------------------------------
(* Properties                                                              *)

\* Every variable has a value of its kind, within the channels' capacities.
HubTypeOK ==
    /\ clients \subseteq Clients
    /\ broadcast \in 0 .. BroadcastCap /\ events \in 0 .. MaxEvents
    /\ forwarder \in {"waiting", "sending", "done"} /\ hub \in {"running", "stopped"}
    /\ stop \in BOOLEAN /\ ctxDone \in BOOLEAN /\ returned \in BOOLEAN
    /\ read \in [Clients -> {"none", "registering", "reading", "cleanup", "unregistering", "done"}]
    /\ write \in [Clients -> {"none", "ranging", "writing", "cleanup", "unregistering", "done"}]
    /\ once \in [Clients -> {"free", "taken", "over"}]
    /\ conn \in [Clients -> {"none", "open", "closed"}]
    /\ queued \in [Clients -> 0 .. SendCap] /\ closes \in [Clients -> Nat]

\* A client's channel is closed once, by whoever removes the client from the
\* map (eviction, unregistration, rejection or stop), and the hub never sends
\* on a closed channel: either would end the process (wsHub.run).
ClosedOnce ==
    \A c \in Clients :
        /\ closes[c] <= 1
        /\ c \in clients => closes[c] = 0
        /\ closes[c] = 0 /\ c \notin clients => read[c] \in {"none", "registering", "done"}

\* The hub holds no more clients than it may, and none after it has stopped.
ClientsCapped ==
    /\ Cardinality(clients) <= MaxClients
    /\ hub = "stopped" => clients = {}

\* Once the hub has let go of a client, its pumps end and its connection is
\* closed, also when the hub itself has stopped; a peer that does not read can
\* hold them (handleWS).
ClientsLetGo ==
    \A c \in Clients \ Stuck :
        closes[c] > 0 ~> conn[c] = "closed" /\ read[c] = "done" /\ write[c] = "done"

\* Shutdown returns, unless forwardEvents is caught in a send to a full channel
\* that the stopped hub no longer reads (Server.Shutdown, forwardEvents).
ShutdownEnds ==
    stop ~> \/ returned
            \/ forwarder = "sending" /\ broadcast = BroadcastCap /\ hub = "stopped"
=============================================================================
