------------------------------ MODULE LiveFeed ------------------------------
(***************************************************************************)
(* The live leaderboard: the fan-out Hub of one leaderboard-svc replica    *)
(* (internal/ws/hub.go), the handler goroutine of each WebSocket           *)
(* (internal/httpapi/server.go) and the page that shows the standings      *)
(* (web/app/hooks/useLeaderboard.ts): WebSocket first, REST polling while  *)
(* there is none.                                                          *)
(*                                                                         *)
(* The standings are a version number.  TCP is external: a connection      *)
(* breaks so that both ends can tell, or silently; the kernel takes        *)
(* WireCap messages for a peer that does not read, and a write that finds  *)
(* no room fails at its deadline.                                          *)
(***************************************************************************)
EXTENDS Naturals, Sequences, FiniteSets

CONSTANTS
    Conns,       \* connections; one that is over at both ends is used again
    ClientBuf,   \* defaultClientBuf
    WireCap,     \* messages the network and the kernels hold
    MaxVersion,  \* bound: changes of the standings
    MaxBreaks,   \* bound: connections that break, requests that fail
    MaxFetches   \* bound: REST requests of the page under way at a time

VARIABLES
    standings,   \* the version in the store
    clients,     \* Hub.clients
    send,        \* Client.send
    handler,     \* connection -> program counter of handleLive
    link,        \* connection -> what the page knows of its socket
    wire,        \* connection -> messages on the way to the page
    mounted,     \* the page is open
    socket,      \* wsRef: the page's connection, or NoConn
    reconnect,   \* reconnectRef: a timer is set
    polling,     \* pollRef: the interval timer is set
    fetches,     \* REST requests under way: Asked, or the version answered
    view,        \* the entries on the page
    breaks

hubVars == <<clients, send, handler>>
viewVars == <<mounted, socket, reconnect, polling, fetches, view>>
liveVars == <<standings, clients, send, handler, link, wire, mounted, socket, reconnect,
              polling, fetches, view, breaks>>

NoConn == "none"
Asked == MaxVersion + 1

ASSUME LiveAssumption ==
    /\ NoConn \notin Conns
    /\ ClientBuf \in Nat \ {0} /\ WireCap \in Nat
    /\ MaxVersion \in Nat /\ MaxBreaks \in Nat /\ MaxFetches \in Nat

\* The page is open, or the browser shows something else.
LiveInit(open) ==
    /\ standings = 0
    /\ clients = {}
    /\ send = [c \in Conns |-> <<>>]
    /\ handler = [c \in Conns |-> "none"]
    /\ link = [c \in Conns |-> "none"]
    /\ wire = [c \in Conns |-> <<>>]
    /\ mounted = open
    /\ socket = NoConn
    /\ reconnect = TRUE
    /\ polling = FALSE
    /\ fetches = {}
    /\ view = 0
    /\ breaks = 0

-----------------------------------------------------------------------------
(* The server.                                                             *)

\* A replica's tick upserts a score.
StandingsChange ==
    /\ standings < MaxVersion
    /\ standings' = standings + 1
    /\ UNCHANGED <<hubVars, link, wire, viewVars, breaks>>

\* handleLive: Upgrade, then Register a client with an empty queue.
Accept(c) ==
    /\ link[c] = "dialing"
    /\ handler[c] = "none"
    /\ link' = [link EXCEPT ![c] = "accepted"]
    /\ handler' = [handler EXCEPT ![c] = "pump"]
    /\ clients' = clients \cup {c}
    /\ send' = [send EXCEPT ![c] = <<>>]
    /\ wire' = [wire EXCEPT ![c] = <<>>]
    /\ UNCHANGED <<standings, viewVars, breaks>>

\* Mutant: a client whose queue is full is taken out of the hub, its channel
\* left open.
HubBroadcast_Evict ==
    /\ clients' = {c \in clients : Len(send[c]) < ClientBuf}
    /\ send' = [c \in Conns |-> IF c \in clients /\ Len(send[c]) < ClientBuf
                                THEN Append(send[c], standings) ELSE send[c]]
    /\ UNCHANGED <<standings, handler, link, wire, viewVars, breaks>>

\* Tick: Top, then Hub.Broadcast to every client with room in its queue.
HubBroadcast ==
    /\ send' = [c \in Conns |-> IF c \in clients /\ Len(send[c]) < ClientBuf
                                THEN Append(send[c], standings) ELSE send[c]]
    /\ UNCHANGED <<standings, clients, handler, link, wire, viewVars, breaks>>

Dead(c) == link[c] \in {"broken", "silent", "closed"}

\* The writer pumps a message; the kernel takes it when it has room.
Pump(c) ==
    /\ handler[c] = "pump"
    /\ send[c] # <<>>
    /\ Len(wire[c]) < WireCap
    /\ send' = [send EXCEPT ![c] = Tail(@)]
    /\ wire' = [wire EXCEPT ![c] = Append(@, Head(send[c]))]
    /\ UNCHANGED <<standings, clients, handler, link, viewVars, breaks>>

\* Mutant: the loop goes on after a failed write.
PumpFails_Continue(c) ==
    /\ handler[c] = "pump"
    /\ send[c] # <<>>
    /\ Dead(c)
    /\ send' = [send EXCEPT ![c] = Tail(@)]
    /\ UNCHANGED <<standings, clients, handler, link, wire, viewVars, breaks>>

\* The write fails: the peer is gone, or did not read before the deadline.
\* The handler returns and its first deferred call closes the connection. The
\* goroutine that reads returns on an error and tells nobody.
PumpFails(c) ==
    /\ handler[c] = "pump"
    /\ send[c] # <<>>
    /\ \/ Dead(c) /\ UNCHANGED <<link, breaks>>
       \/ /\ ~ Dead(c)
          /\ Len(wire[c]) = WireCap
          /\ breaks < MaxBreaks
          /\ breaks' = breaks + 1
          /\ link' = [link EXCEPT ![c] = "broken"]
    /\ handler' = [handler EXCEPT ![c] = "closing"]
    /\ send' = [send EXCEPT ![c] = Tail(@)]
    /\ UNCHANGED <<standings, clients, wire, viewVars>>

\* The second deferred call: Unregister closes the channel.
Unregister(c) ==
    /\ handler[c] = "closing"
    /\ handler' = [handler EXCEPT ![c] = "none"]
    /\ clients' = clients \ {c}
    /\ send' = [send EXCEPT ![c] = <<>>]
    /\ wire' = [wire EXCEPT ![c] = <<>>]
    /\ UNCHANGED <<standings, link, viewVars, breaks>>

\* handleLeaderboard answers a REST request of the page.
ServeFetch ==
    /\ Asked \in fetches
    /\ fetches' = (fetches \ {Asked}) \cup {standings}
    /\ UNCHANGED <<standings, hubVars, link, wire, mounted, socket, reconnect, polling, view, breaks>>

-----------------------------------------------------------------------------
(* The network.                                                            *)

\* A connection breaks, in a way the page will notice or not; a page that
\* is still connecting always does.
BreakLink(c) ==
    /\ link[c] \in {"dialing", "accepted", "open"}
    /\ breaks < MaxBreaks
    /\ breaks' = breaks + 1
    /\ \E how \in IF link[c] = "dialing" THEN {"broken"} ELSE {"broken", "silent"} :
          link' = [link EXCEPT ![c] = how]
    /\ UNCHANGED <<standings, hubVars, wire, viewVars>>

\* A REST request fails: nothing is shown and the timer asks again.
FetchFails ==
    /\ Asked \in fetches
    /\ breaks < MaxBreaks
    /\ breaks' = breaks + 1
    /\ fetches' = fetches \ {Asked}
    /\ UNCHANGED <<standings, hubVars, link, wire, mounted, socket, reconnect, polling, view>>

-----------------------------------------------------------------------------
(* Callbacks of the page.                                                  *)

\* openSocket, at mount and WS_RECONNECT_MS after a close.  Polling goes on.
OpenSocket(c) ==
    /\ mounted /\ reconnect
    /\ link[c] \in {"none", "closed"} /\ handler[c] = "none"
    /\ link' = [link EXCEPT ![c] = "dialing"]
    /\ socket' = c
    /\ reconnect' = FALSE
    /\ UNCHANGED <<standings, hubVars, wire, mounted, polling, fetches, view, breaks>>

\* The WebSocket constructor throws: the page polls from here on, with no
\* socket and no timer for another attempt.
OpenSocketThrows ==
    /\ mounted /\ reconnect
    /\ breaks < MaxBreaks
    /\ breaks' = breaks + 1
    /\ reconnect' = FALSE
    /\ polling' = TRUE
    /\ fetches' = IF polling THEN fetches ELSE fetches \cup {Asked}
    /\ UNCHANGED <<standings, hubVars, link, wire, mounted, socket, view>>

\* onopen: the page relies on the socket alone from here.
OnOpen(c) ==
    /\ mounted /\ socket = c /\ link[c] = "accepted"
    /\ link' = [link EXCEPT ![c] = "open"]
    /\ polling' = FALSE
    /\ UNCHANGED <<standings, hubVars, wire, mounted, socket, reconnect, fetches, view, breaks>>

\* onmessage.
OnMessage(c) ==
    /\ mounted /\ socket = c /\ link[c] = "open" /\ wire[c] # <<>>
    /\ view' = Head(wire[c])
    /\ wire' = [wire EXCEPT ![c] = Tail(@)]
    /\ UNCHANGED <<standings, hubVars, link, mounted, socket, reconnect, polling, fetches, breaks>>

\* onerror and onclose: poll, with a first request now, and try again later.
OnClose(c) ==
    /\ mounted /\ socket = c /\ link[c] = "broken"
    /\ link' = [link EXCEPT ![c] = "closed"]
    /\ socket' = NoConn
    /\ reconnect' = TRUE
    /\ polling' = TRUE
    /\ fetches' = IF polling THEN fetches ELSE fetches \cup {Asked}
    /\ UNCHANGED <<standings, hubVars, wire, mounted, view, breaks>>

\* The interval timer fires fetchOnce, whether or not the last one is back.
FetchTick ==
    /\ mounted /\ polling
    /\ Cardinality(fetches) < MaxFetches
    /\ Asked \notin fetches
    /\ fetches' = fetches \cup {Asked}
    /\ UNCHANGED <<standings, hubVars, link, wire, mounted, socket, reconnect, polling, view, breaks>>

\* The answer is shown, even when the socket has shown something newer.
GotFetch(v) ==
    /\ mounted /\ v \in fetches \ {Asked}
    /\ view' = v
    /\ fetches' = fetches \ {v}
    /\ UNCHANGED <<standings, hubVars, link, wire, mounted, socket, reconnect, polling, breaks>>

\* The effect's cleanup: timers cleared, socket closed, answers ignored.
Leave ==
    /\ mounted
    /\ mounted' = FALSE
    /\ link' = IF socket = NoConn THEN link ELSE [link EXCEPT ![socket] = "closed"]
    /\ socket' = NoConn
    /\ reconnect' = FALSE
    /\ polling' = FALSE
    /\ fetches' = {}
    /\ UNCHANGED <<standings, hubVars, wire, view, breaks>>

-----------------------------------------------------------------------------

HandlerStep(c) == Accept(c) \/ Pump(c) \/ PumpFails(c) \/ Unregister(c)
PageStep(c) == OpenSocket(c) \/ OnOpen(c) \/ OnMessage(c) \/ OnClose(c)

LiveNext ==
    \/ StandingsChange
    \/ HubBroadcast
    \/ \E c \in Conns : HandlerStep(c) \/ PageStep(c) \/ BreakLink(c)
    \/ ServeFetch
    \/ FetchFails
    \/ OpenSocketThrows
    \/ FetchTick
    \/ \E v \in 0 .. MaxVersion : GotFetch(v)
    \/ Leave

\* The replica keeps ticking, goroutines and callbacks run, timers fire and
\* REST is answered.  Nothing makes a silent break known to the page.
LiveFairness ==
    /\ WF_liveVars(HubBroadcast)
    /\ \A c \in Conns : WF_liveVars(HandlerStep(c)) /\ WF_liveVars(PageStep(c))
    /\ WF_liveVars(ServeFetch) /\ WF_liveVars(FetchTick)
    /\ \A v \in 0 .. MaxVersion : WF_liveVars(GotFetch(v))

LiveSpec == LiveInit(TRUE) /\ [][LiveNext]_liveVars /\ LiveFairness

-----------------------------------------------------------------------------
(* Properties.                                                             *)

\* Once the standings are quiet and connections stop breaking, the page shows
\* the current ones for good: a full queue, a slow socket, a reconnect, or a
\* late REST answer that puts back an older view is always repaired.  Only a
\* connection that died silently leaves the page as it was.
LiveViewConverges ==
    <>[](~ mounted \/ view = standings \/ \E c \in Conns : socket = c /\ link[c] = "silent")

\* The hub drops a client whose page has gone, although the goroutine that
\* reads from the connection returns on an error without closing or
\* unregistering anything: the next writes find out.
GoneIsUnregistered ==
    \A c \in Conns : (c \in clients /\ Dead(c)) ~> (c \notin clients)
=============================================================================
