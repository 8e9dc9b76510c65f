--------------------------- MODULE ClientRegistry ---------------------------
(***************************************************************************)
(* The control plane of the server: one websocket handler task per session *)
(* (SessionServer::handle_client) and the ClientRegistry they share with   *)
(* the broadcast transport and the USB accept task.                        *)
(*                                                                         *)
(* Granularity.  Everything a task does while it holds the registry mutex  *)
(* is one step.  What it does after unlocking (the session counter of the  *)
(* metrics, the control events it collected) is a later step, and other    *)
(* tasks run in between.  A session id is a fresh Uuid, so a session that  *)
(* ended never comes back; a device that reconnects is a new session with  *)
(* the same key.                                                           *)
(*                                                                         *)
(* Data.  A device stands for the pair (name, IP address) and a key for    *)
(* the client_key.  The sample rate of a session is left out.  Time is     *)
(* left free: a waiting USB client may have waited for more than           *)
(* USB_PENDING_TIMEOUT_SECS at any moment, in queue order.                 *)
(***************************************************************************)
EXTENDS Integers, Sequences, FiniteSets

CONSTANTS
    Sessions,         \* session ids (Uuid), one per websocket connection
    Keys,             \* client_key values
    Devices,          \* (device name, IP address) pairs
    Hellos,           \* the hello messages clients may send
    Requests,         \* the set_audio_mode requests v2 clients may send
    Streams,          \* forwarded TCP connections the USB listener accepts
    AudioModes,
    INITIAL_MODE,     \* ServerConfig.current_audio_mode
    TRANSPORT_MODE,   \* ServerConfig.transport_mode: "wifi" or "usb"
    DATA_PLANE,       \* DataPlaneRouter::active_format
    CODEC,            \* DataPlaneRouter::active_codec
    MAX_CLIENTS,
    Transport,        \* the broadcast transport task
    Wifi,             \* a transport target: the client's UDP address
    None

DataPlanes == {"legacy_las1", "v2_header"}
Codecs == {"pcm16", "opus", "pcm24"}
Capabilities == {"opus", "hires_pcm24"}
Hello == [key : Keys, device : Devices, v2 : BOOLEAN, caps : SUBSET Capabilities]

ASSUME SessionsFinite == IsFiniteSet(Sessions)
ASSUME MaxClientsPositive == MAX_CLIENTS \in Nat \ {0}
ASSUME HellosTyped == Hellos \subseteq Hello
ASSUME RequestsTyped == Requests \subseteq [mode : AudioModes, codec : Codecs \cup {None}]
ASSUME ModesTyped == INITIAL_MODE \in AudioModes
ASSUME ConfigTyped == /\ TRANSPORT_MODE \in {"wifi", "usb"}
                      /\ DATA_PLANE \in DataPlanes
                      /\ CODEC \in Codecs
ASSUME MarkersDistinct ==
    /\ None \notin Sessions /\ None \notin Requests /\ None \notin Streams
    /\ None \notin Keys /\ None \notin Devices /\ None \notin Codecs
    /\ Transport \notin Sessions /\ Transport # None
    /\ Wifi \notin Streams /\ Wifi # None

Tasks == Sessions \cup {Transport}

VARIABLES
    clients,              \* the keys of ClientRegistryInner.clients
    handle,               \* ClientHandle of each session, prepared by its hello
    pending_usb_clients,  \* queue of sessions waiting for a forwarded stream
    pending_usb_streams,  \* queue of streams waiting for a session
    accepted_streams,     \* streams the listener has accepted so far
    active_sessions,      \* Metrics.active_sessions
    current_audio_mode,   \* the server-wide mode
    pc,                   \* where each session's handler task is
    request,              \* the set_audio_mode request a handler is applying
    victim,               \* the removed client a task has yet to account for
    bcast,                \* control events a handler collected under the lock
    connected             \* connectedClients shown by each session's phone

sessionVars == <<pc, request, victim, bcast, connected>>
usbVars == <<pending_usb_clients, pending_usb_streams, accepted_streams>>
regVars == <<clients, handle, usbVars, active_sessions, current_audio_mode,
             sessionVars>>

\* "pending" is the set of pending_first_packet and pending_mode_sync.
ClientHandle ==
    [key : Keys \cup {None}, device : Devices \cup {None}, v2 : BOOLEAN,
     caps : SUBSET Capabilities, transport : Streams \cup {Wifi, None},
     data_plane : DataPlanes, codec : Codecs, mode : AudioModes,
     pending : SUBSET {"first_packet", "mode_sync"}]

NoHandle ==
    [key |-> None, device |-> None, v2 |-> FALSE, caps |-> {},
     transport |-> None, data_plane |-> "legacy_las1", codec |-> "pcm16",
     mode |-> INITIAL_MODE, pending |-> {}]

Phases == {"idle", "negotiated", "announcing", "streaming", "applying",
           "notifying", "leaving", "rejected", "closed"}

Events == [event : {"client_list", "client_joined", "client_left"},
           to : SUBSET Sessions, count : Nat]

-----------------------------------------------------------------------------
(* Helpers of the registry.                                                *)

Elements(q) == {q[i] : i \in 1..Len(q)}

\* (a fault: the queue is not purged when its client goes)
WithoutNothing(q, c) == q

\* retain(|id| id != c) on a queue that holds each session at most once
\* (UsbQueueExact): cut the queue around the one place where c stands.
Without(q, c) ==
    IF \E i \in 1..Len(q) : q[i] = c
    THEN LET k == CHOOSE i \in 1..Len(q) : q[i] = c
         IN  SubSeq(q, 1, k - 1) \o SubSeq(q, k + 1, Len(q))
    ELSE q

\* remove_client_locked on the clients in R (at most one, except on expiry).
RemovedHandles(R) ==
    [s \in Sessions |-> IF s \in R THEN [handle[s] EXCEPT !.transport = None]
                                   ELSE handle[s]]

\* The handles hs after client c was given transport tr.
WithTransport(hs, c, tr) == [hs EXCEPT ![c].transport = tr]

V2Clients(C) == {c \in C : handle[c].v2}

\* build_client_list_json lists the v2 clients only; phones use its length.
ClientList(C) == [event |-> "client_list", to |-> V2Clients(C),
                  count |-> Cardinality(V2Clients(C))]
ClientJoined(C, s) == [event |-> "client_joined", to |-> V2Clients(C) \ {s}, count |-> 0]
ClientLeft(C) == [event |-> "client_left", to |-> V2Clients(C), count |-> 0]

\* (a fault: the count is not kept at zero or above)
HearUnclamped(n, e) == CASE e.event = "client_list"   -> e.count
                         [] e.event = "client_joined" -> n + 1
                         [] e.event = "client_left"   -> n - 1

\* StreamSessionManager.onMessage: how a phone keeps connectedClients.
Hear(n, e) == CASE e.event = "client_list"   -> e.count
                [] e.event = "client_joined" -> n + 1
                [] e.event = "client_left"   -> IF n > 0 THEN n - 1 ELSE 0

\* A send to a handler that has ended goes nowhere.
Broadcast(e) ==
    connected' = [s \in Sessions |->
        IF s \in e.to /\ pc[s] # "closed" THEN Hear(connected[s], e) ELSE connected[s]]

\* negotiate_session_path
NegotiatedPlane(h) == IF h.v2 THEN DATA_PLANE ELSE "legacy_las1"

NegotiatedCodec(h) ==
    IF /\ h.v2
       /\ DATA_PLANE = "v2_header"
       /\ \/ CODEC = "opus" /\ "opus" \in h.caps
          \/ CODEC = "pcm24" /\ "hires_pcm24" \in h.caps
    THEN CODEC ELSE "pcm16"

\* (a fault: the request is honoured whatever the data plane)
ResolvedCodecUngated(requested, plane) == requested

\* The codec set_client_mode resolves a request to: gated by the data plane.
ResolvedCodec(requested, plane) ==
    IF plane = "v2_header" THEN requested ELSE "pcm16"

\* What set_client_mode does to the handle it finds.
WithMode(h, r) ==
    [h EXCEPT !.mode = r.mode,
              !.codec = IF r.codec = None THEN h.codec
                        ELSE ResolvedCodec(r.codec, h.data_plane),
              !.pending = h.pending \cup {"mode_sync"}
                          \cup (IF r.codec = None THEN {} ELSE {"first_packet"})]

\* clients.len() >= MAX_CLIENTS, tested after the replacement.
FullOffByOne(C) == Cardinality(C) > MAX_CLIENTS
FullTooEarly(C) == Cardinality(C) >= MAX_CLIENTS - 1
Full(C) == Cardinality(C) >= MAX_CLIENTS

\* The clients register_client may replace, in the order of its else-ifs.
SameKey(s) == {c \in clients : handle[c].key = handle[s].key}
AttachedUsb == {c \in clients : handle[c].transport \in Streams}
SameDevice(s) == {c \in clients : /\ handle[c].device = handle[s].device
                                  /\ handle[c].transport = Wifi}
ReplaceableIgnoringKey(s) ==
    IF TRANSPORT_MODE = "usb" THEN AttachedUsb ELSE SameDevice(s)
Replaceable(s) ==
    IF SameKey(s) # {} THEN SameKey(s)
    ELSE IF TRANSPORT_MODE = "usb" THEN AttachedUsb ELSE SameDevice(s)

\* find() returns the first match in HashMap order: any one of them.
Replaced(s) == IF Replaceable(s) = {} THEN {{}}
                                      ELSE {{c} : c \in Replaceable(s)}

OneOf(R) == IF R = {} THEN None ELSE CHOOSE c \in R : TRUE

-----------------------------------------------------------------------------
Init ==
    /\ clients = {}
    /\ handle = [s \in Sessions |-> NoHandle]
    /\ pending_usb_clients = <<>>
    /\ pending_usb_streams = <<>>
    /\ accepted_streams = {}
    /\ active_sessions = 0
    /\ current_audio_mode = INITIAL_MODE
    /\ pc = [s \in Sessions |-> "idle"]
    /\ request = [s \in Sessions |-> None]
    /\ victim = [t \in Tasks |-> None]
    /\ bcast = [s \in Sessions |-> <<>>]
    /\ connected = [s \in Sessions |-> 0]

(***************************************************************************)
(* The handler task of a session.                                          *)
(***************************************************************************)

\* No hello within 5 s, or one that does not parse: the task returns.
HandshakeFails(s) ==
    /\ pc[s] = "idle"
    /\ pc' = [pc EXCEPT ![s] = "closed"]
    /\ UNCHANGED <<clients, handle, usbVars, active_sessions,
                   current_audio_mode, request, victim, bcast, connected>>

\* The hello is parsed, the server-wide mode is read and the path negotiated.
ReceiveHello(s, h) ==
    /\ pc[s] = "idle"
    /\ pc' = [pc EXCEPT ![s] = "negotiated"]
    /\ handle' = [handle EXCEPT ![s] =
           [key |-> h.key, device |-> h.device, v2 |-> h.v2, caps |-> h.caps,
            transport |-> None, data_plane |-> NegotiatedPlane(h),
            codec |-> NegotiatedCodec(h), mode |-> current_audio_mode,
            pending |-> {"first_packet"}]]
    /\ UNCHANGED <<clients, usbVars, active_sessions, current_audio_mode,
                   request, victim, bcast, connected>>

\* (a fault: the queued stream is used without being popped)
GetTransportKeepingStream(s, R, q) ==
    LET old == RemovedHandles(R) IN
    IF pending_usb_streams # <<>>
    THEN /\ handle' = WithTransport(old, s, Head(pending_usb_streams))
         /\ pending_usb_clients' = q
         /\ UNCHANGED pending_usb_streams
    ELSE /\ handle' = old
         /\ pending_usb_clients' = Append(q, s)
         /\ UNCHANGED pending_usb_streams

\* The new client's transport: its UDP address, or the oldest queued stream,
\* or none yet, and then it queues for one.
GetTransport(s, R, q) ==
    LET old == RemovedHandles(R) IN
    IF TRANSPORT_MODE = "wifi"
    THEN /\ handle' = WithTransport(old, s, Wifi)
         /\ pending_usb_clients' = q
         /\ UNCHANGED pending_usb_streams
    ELSE IF pending_usb_streams # <<>>
    THEN /\ handle' = WithTransport(old, s, Head(pending_usb_streams))
         /\ pending_usb_streams' = Tail(pending_usb_streams)
         /\ pending_usb_clients' = q
    ELSE /\ handle' = old
         /\ pending_usb_clients' = Append(q, s)
         /\ UNCHANGED pending_usb_streams

\* register_client: replace, then check the capacity, then insert.  The
\* replaced client R is accounted for after the lock is released (Depart).
RegisterClient(s, R) ==
    LET left == clients \ R
        q == Without(pending_usb_clients, OneOf(R))
    IN
    /\ pc[s] = "negotiated"
    /\ R \in Replaced(s)
    /\ \/ /\ Full(left)           \* too_many_clients
          /\ pc' = [pc EXCEPT ![s] = "rejected"]
          /\ clients' = left
          /\ handle' = RemovedHandles(R)
          /\ pending_usb_clients' = q
          /\ UNCHANGED <<pending_usb_streams, active_sessions, victim, bcast>>
       \/ /\ ~Full(left)
          /\ pc' = [pc EXCEPT ![s] = "announcing"]
          /\ clients' = left \cup {s}
          /\ GetTransport(s, R, q)
          /\ active_sessions' = active_sessions + 1
          /\ victim' = [victim EXCEPT ![s] = OneOf(R)]
          /\ bcast' = [bcast EXCEPT ![s] =
                 <<ClientList(left \cup {s}), ClientJoined(left \cup {s}, s)>>]
    /\ UNCHANGED <<accepted_streams, current_audio_mode, request, connected>>

\* The end of a removal, after the lock: dec_sessions and client_left.
Depart(t) ==
    /\ victim[t] # None
    /\ active_sessions' = active_sessions - 1
    /\ Broadcast(ClientLeft(clients))
    /\ victim' = [victim EXCEPT ![t] = None]
    /\ pc' = [s \in Sessions |-> IF s = t /\ pc[s] = "leaving" THEN "closed"
                                                               ELSE pc[s]]
    /\ UNCHANGED <<clients, handle, usbVars, current_audio_mode, request, bcast>>

\* A handler sends the next control event it collected; after the last one it
\* goes (back) to its message loop.
SendCollected(s) ==
    /\ pc[s] \in {"announcing", "notifying"}
    /\ victim[s] = None
    /\ IF bcast[s] = <<>>
       THEN /\ pc' = [pc EXCEPT ![s] = "streaming"]
            /\ UNCHANGED <<bcast, connected>>
       ELSE /\ Broadcast(Head(bcast[s]))
            /\ bcast' = [bcast EXCEPT ![s] = Tail(@)]
            /\ UNCHANGED pc
    /\ UNCHANGED <<clients, handle, usbVars, active_sessions,
                   current_audio_mode, request, victim>>

\* set_audio_mode, first part: the server-wide mode changes at once.
SetAudioMode(s, r) ==
    /\ pc[s] = "streaming"
    /\ handle[s].v2
    /\ current_audio_mode' = r.mode
    /\ request' = [request EXCEPT ![s] = r]
    /\ pc' = [pc EXCEPT ![s] = "applying"]
    /\ UNCHANGED <<clients, handle, usbVars, active_sessions, victim, bcast, connected>>

\* set_audio_mode, second part: set_client_mode under the lock.  A session
\* that was replaced in the meantime is not found and nothing changes.
SetClientMode(s) ==
    /\ pc[s] = "applying"
    /\ IF s \in clients
       THEN /\ handle' = [handle EXCEPT ![s] = WithMode(handle[s], request[s])]
            /\ bcast' = [bcast EXCEPT ![s] = <<ClientList(clients)>>]
            /\ pc' = [pc EXCEPT ![s] = "notifying"]
       ELSE /\ pc' = [pc EXCEPT ![s] = "streaming"]
            /\ UNCHANGED <<handle, bcast>>
    /\ request' = [request EXCEPT ![s] = None]
    /\ UNCHANGED <<clients, usbVars, active_sessions, current_audio_mode,
                   victim, connected>>

\* (a fault: an id the map no longer holds is accounted for again)
RemoveClientTwice(t, c) ==
    /\ clients' = clients \ {c}
    /\ handle' = RemovedHandles({c})
    /\ pending_usb_clients' = Without(pending_usb_clients, c)
    /\ victim' = [victim EXCEPT ![t] = c]

\* remove_client by task t, up to the unlock.  An unknown id changes nothing.
RemoveClient(t, c) ==
    IF c \in clients
    THEN /\ clients' = clients \ {c}
         /\ handle' = RemovedHandles({c})
         /\ pending_usb_clients' = Without(pending_usb_clients, c)
         /\ victim' = [victim EXCEPT ![t] = c]
    ELSE UNCHANGED <<clients, handle, pending_usb_clients, victim>>

\* Close frame, end of stream, 30 s without a message, or shutdown.
SessionEnds(s) ==
    /\ pc[s] = "streaming"
    /\ RemoveClient(s, s)
    /\ pc' = [pc EXCEPT ![s] = IF s \in clients THEN "leaving" ELSE "closed"]
    /\ UNCHANGED <<pending_usb_streams, accepted_streams, active_sessions,
                   current_audio_mode, request, bcast, connected>>

\* A websocket read error makes handle_client return before remove_client.
SessionReadError(s) ==
    /\ pc[s] = "streaming"
    /\ pc' = [pc EXCEPT ![s] = "closed"]
    /\ UNCHANGED <<clients, handle, usbVars, active_sessions,
                   current_audio_mode, request, victim, bcast, connected>>

(***************************************************************************)
(* The USB accept task and the broadcast transport.                        *)
(***************************************************************************)

\* attach_usb_stream: drop the n clients that waited too long (without
\* dec_sessions and without client_left), then give the stream to the oldest
\* waiting client, else to any client that lacks one, else queue it.
AttachUsbStream(st, n) ==
    LET expired == Elements(SubSeq(pending_usb_clients, 1, n))
        waiting == SubSeq(pending_usb_clients, n + 1, Len(pending_usb_clients))
        left == clients \ expired
        lacking == {c \in left : handle[c].transport = None}
    IN
    /\ TRANSPORT_MODE = "usb"
    /\ st \notin accepted_streams
    /\ n \in 0..Len(pending_usb_clients)
    /\ accepted_streams' = accepted_streams \cup {st}
    /\ clients' = left
    /\ IF waiting # <<>>
       THEN /\ pending_usb_clients' = Tail(waiting)
            /\ handle' = IF Head(waiting) \in left
                         THEN WithTransport(handle, Head(waiting), st)
                         ELSE handle
            /\ UNCHANGED pending_usb_streams
       ELSE /\ pending_usb_clients' = waiting
            /\ IF lacking # {}
               THEN /\ \E c \in lacking : handle' = WithTransport(handle, c, st)
                    /\ UNCHANGED pending_usb_streams
               ELSE /\ pending_usb_streams' = Append(pending_usb_streams, st)
                    /\ UNCHANGED handle
    /\ UNCHANGED <<active_sessions, current_audio_mode, sessionVars>>

\* (a fault: the client queues for a stream but keeps the one it has)
MarkLostKeepingStream(c) ==
    /\ UNCHANGED handle
    /\ pending_usb_clients' =
           IF c \notin clients \/ c \in Elements(pending_usb_clients)
           THEN pending_usb_clients ELSE Append(pending_usb_clients, c)

\* mark_usb_transport_lost: whatever stream the client has now is dropped.
MarkUsbTransportLost(c) ==
    IF c \in clients
    THEN /\ handle' = WithTransport(handle, c, None)
         /\ pending_usb_clients' =
                IF c \in Elements(pending_usb_clients) THEN pending_usb_clients
                ELSE Append(pending_usb_clients, c)
    ELSE UNCHANGED <<handle, pending_usb_clients>>

UsbSendFails(c) ==
    /\ TRANSPORT_MODE = "usb"
    /\ MarkUsbTransportLost(c)
    /\ UNCHANGED <<clients, pending_usb_streams, accepted_streams,
                   active_sessions, current_audio_mode, sessionVars>>

WifiSendFails(c) ==
    /\ TRANSPORT_MODE = "wifi"
    /\ victim[Transport] = None
    /\ RemoveClient(Transport, c)
    /\ UNCHANGED <<pending_usb_streams, accepted_streams, active_sessions,
                   current_audio_mode, pc, request, bcast, connected>>

\* take_broadcast_clients: the snapshot, and the flags it consumes.
Reachable == {c \in clients : handle[c].transport # None}

TakeBroadcastClients ==
    /\ handle' = [s \in Sessions |->
           IF s \in Reachable
           THEN [handle[s] EXCEPT !.pending = {}] ELSE handle[s]]
    /\ UNCHANGED <<clients, usbVars, active_sessions, current_audio_mode, sessionVars>>

-----------------------------------------------------------------------------
SessionStep(s) ==
    \/ HandshakeFails(s)
    \/ \E h \in Hellos : ReceiveHello(s, h)
    \/ \E R \in SUBSET clients : RegisterClient(s, R)
    \/ SendCollected(s)
    \/ \E r \in Requests : SetAudioMode(s, r)
    \/ SetClientMode(s)
    \/ SessionEnds(s)
    \/ SessionReadError(s)

TransportStep ==
    \/ \E c \in Sessions : WifiSendFails(c) \/ UsbSendFails(c)
    \/ TakeBroadcastClients

UsbAcceptStep ==
    \E st \in Streams, n \in 0..Cardinality(Sessions) : AttachUsbStream(st, n)

Next ==
    \/ \E s \in Sessions : SessionStep(s)
    \/ \E t \in Tasks : Depart(t)
    \/ TransportStep
    \/ UsbAcceptStep

Spec == Init /\ [][Next]_regVars

(***************************************************************************)
(* Properties.                                                             *)
(***************************************************************************)

\* Type invariant of the registry and of the handler tasks.
TypeOK ==
    /\ clients \subseteq Sessions
    /\ handle \in [Sessions -> ClientHandle]
    /\ pending_usb_clients \in Seq(Sessions)
    /\ pending_usb_streams \in Seq(Streams)
    /\ accepted_streams \subseteq Streams
    /\ active_sessions \in Int
    /\ current_audio_mode \in AudioModes
    /\ pc \in [Sessions -> Phases]
    /\ request \in [Sessions -> Requests \cup {None}]
    /\ \A s \in Sessions : pc[s] = "applying" => request[s] \in Requests
    /\ victim \in [Tasks -> Sessions \cup {None}]
    /\ bcast \in [Sessions -> Seq(Events)]
    /\ connected \in [Sessions -> Nat]

\* The registry never holds more than MAX_CLIENTS clients, although handlers
\* register concurrently and replacing frees a slot before the capacity test
\* (register_client).
Capacity == Cardinality(clients) <= MAX_CLIENTS

\* Two registered clients never have the same client_key: whatever other rule
\* of register_client could have replaced somebody else, the old session of a
\* reconnecting device is the one that goes.
UniqueKeys ==
    \A c, d \in clients : handle[c].key = handle[d].key => c = d

\* pending_usb_clients holds, once each, exactly the registered USB clients
\* that have no stream.  The fallback search of attach_usb_stream over the map
\* and its lookup failure are therefore dead code, and no client waits without
\* being in the queue.
UsbQueueExact ==
    /\ \A i, j \in 1..Len(pending_usb_clients) :
           pending_usb_clients[i] = pending_usb_clients[j] => i = j
    /\ Elements(pending_usb_clients) =
           {c \in clients : TRANSPORT_MODE = "usb" /\ handle[c].transport = None}

\* A forwarded TCP stream carries the frames of at most one session and is
\* never both in use and still queued, across registration, attachment, loss,
\* replacement and expiry.
StreamOwnership ==
    /\ \A s, u \in Sessions :
           handle[s].transport = handle[u].transport /\ handle[s].transport \in Streams
               => s = u
    /\ \A s \in Sessions, i \in 1..Len(pending_usb_streams) :
           handle[s].transport # pending_usb_streams[i]
    /\ \A i, j \in 1..Len(pending_usb_streams) :
           pending_usb_streams[i] = pending_usb_streams[j] => i = j

\* The tasks that removed a client and have not yet called dec_sessions.
Departing == {t \in Tasks : victim[t] # None}

\* What the handler tasks rely on: a session that has not registered, or was
\* rejected, is not in the map; only a task that is announcing or leaving owes
\* a dec_sessions.
HandlerPhases ==
    /\ \A s \in clients : pc[s] \notin {"idle", "negotiated", "rejected"}
    /\ \A s \in Sessions : victim[s] # None => pc[s] \in {"announcing", "leaving"}

\* The session counter covers every registered client and every removal still
\* to be counted: the unsigned active_sessions never wraps below zero, although
\* inc_sessions runs under the lock and dec_sessions after it, and although a
\* session may be removed by its handler, a newer session, the transport and
\* the expiry.
SessionCountNeverShort ==
    active_sessions >= Cardinality(clients) + Cardinality(Departing)

\* On Wi-Fi the session counter is exact as soon as no removal is half done.
SessionCountExactOnWifi ==
    TRANSPORT_MODE = "wifi" =>
        active_sessions = Cardinality(clients) + Cardinality(Departing)

\* A session on the legacy data plane always has codec pcm16: the pair
\* (legacy_las1, pcm24) makes encode_packets_by_data_plane return no packet at
\* all, which would leave the client silent.
LegacyCarriesPcm16 ==
    \A s \in Sessions : handle[s].data_plane = "legacy_las1" => handle[s].codec = "pcm16"

\* The inductive invariant behind the theorems of ClientRegistryProofs.
RegistryInv ==
    /\ TypeOK
    /\ HandlerPhases
    /\ Capacity
    /\ UniqueKeys
    /\ SessionCountNeverShort
    /\ SessionCountExactOnWifi
    /\ LegacyCarriesPcm16

\* A rejected registration evicts nobody, although register_client removes the
\* client it would replace before it tests the capacity; and it is only the
\* answer to a device that has no session in a full registry.
RejectionIsClean ==
    [][\A s \in Sessions :
          pc[s] # "rejected" /\ pc'[s] = "rejected" =>
              /\ clients' = clients
              /\ SameKey(s) = {}
              /\ Cardinality(clients) = MAX_CLIENTS]_regVars
=============================================================================
