------------------------ MODULE ClientRegistryProofs ------------------------
(***************************************************************************)
(* Theorems about ClientRegistry for every set of sessions, keys, devices  *)
(* and streams, every capacity and every configuration; and that its       *)
(* handlers keep the connection contract (SessionContract).                *)
(***************************************************************************)
EXTENDS SessionContract, TLAPS, FiniteSetTheorems, SequenceTheorems

(***************************************************************************)
(* Facts about the operators of the registry.                              *)
(***************************************************************************)

\* Purging a client from a queue gives a queue of the same kind.
LEMMA WithoutType ==
    ASSUME NEW S, NEW q \in Seq(S), NEW c
    PROVE  Without(q, c) \in Seq(S)
<1>1. CASE \E i \in 1..Len(q) : q[i] = c
  <2> DEFINE k == CHOOSE i \in 1..Len(q) : q[i] = c
  <2>1. k \in 1..Len(q)
    BY <1>1
  <2>2. Without(q, c) = SubSeq(q, 1, k - 1) \o SubSeq(q, k + 1, Len(q))
    BY <1>1 DEF Without
  <2> HIDE DEF k
  <2>3. /\ SubSeq(q, 1, k - 1) \in Seq(S)
        /\ SubSeq(q, k + 1, Len(q)) \in Seq(S)
    BY <2>1
  <2> QED BY <2>2, <2>3
<1>2. CASE ~ \E i \in 1..Len(q) : q[i] = c
  BY <1>2 DEF Without
<1> QED BY <1>1, <1>2

\* A set of sessions is finite and its size is a natural number.
LEMMA SessionSets ==
    ASSUME NEW C \in SUBSET Sessions
    PROVE  IsFiniteSet(C) /\ Cardinality(C) \in Nat
BY SessionsFinite, FS_Subset, FS_CardinalityType

\* register_client replaces nobody or one registered client.
LEMMA ReplacedShape ==
    ASSUME NEW s, NEW R \in Replaced(s)
    PROVE  \/ R = {} /\ OneOf(R) = None
           \/ \E c \in Replaceable(s) : R = {c} /\ OneOf(R) = c
<1>1. CASE Replaceable(s) = {}
  BY <1>1 DEF Replaced, OneOf
<1>2. CASE Replaceable(s) # {}
  <2>1. PICK c \in Replaceable(s) : R = {c}
    BY <1>2 DEF Replaced
  <2>2. (CHOOSE x \in {c} : TRUE) = c
    OBVIOUS
  <2> QED BY <2>1, <2>2 DEF OneOf
<1> QED BY <1>1, <1>2

\* Only registered clients are replaced.
LEMMA ReplaceableRegistered ==
    ASSUME NEW s
    PROVE  Replaceable(s) \subseteq clients
BY DEF Replaceable, SameKey, AttachedUsb, SameDevice

\* Dropping transports keeps the handles well typed.
LEMMA RemovedHandlesType ==
    ASSUME TypeOK, NEW R
    PROVE  RemovedHandles(R) \in [Sessions -> ClientHandle]
<1>1. ASSUME NEW h \in ClientHandle
      PROVE  [h EXCEPT !.transport = None] \in ClientHandle
  BY DEF ClientHandle
<1> QED BY <1>1 DEF RemovedHandles, TypeOK

\* So does giving one session a transport.
LEMMA GivenTransportType ==
    ASSUME NEW h \in [Sessions -> ClientHandle], NEW s \in Sessions,
           NEW tr \in Streams \cup {Wifi, None}
    PROVE  WithTransport(h, s, tr) \in [Sessions -> ClientHandle]
<1>1. [h[s] EXCEPT !.transport = tr] \in ClientHandle
  BY DEF ClientHandle
<1> QED BY <1>1 DEF WithTransport

\* So does a mode change: set_client_mode yields a codec of the right kind.
LEMMA WithModeType ==
    ASSUME NEW h \in ClientHandle, NEW r \in Requests
    PROVE  WithMode(h, r) \in ClientHandle
<1>1. r \in [mode : AudioModes, codec : Codecs \cup {None}]
  BY RequestsTyped
<1> DEFINE c == IF r.codec = None THEN h.codec ELSE ResolvedCodec(r.codec, h.data_plane)
           f == h.pending \cup {"mode_sync"}
                  \cup (IF r.codec = None THEN {} ELSE {"first_packet"})
<1>2. c \in Codecs
  BY <1>1 DEF ClientHandle, ResolvedCodec, Codecs
<1>3. f \in SUBSET {"first_packet", "mode_sync"}
  BY DEF ClientHandle
<1>4. WithMode(h, r) = [h EXCEPT !.mode = r.mode, !.codec = c,
                                 !.pending = f]
  BY DEF WithMode
<1> HIDE DEF c, f
<1> QED BY <1>1, <1>2, <1>3, <1>4 DEF ClientHandle

\* The control events a task builds are events.
LEMMA EventTypes ==
    ASSUME TypeOK, NEW C \in SUBSET Sessions, NEW s \in Sessions
    PROVE  /\ ClientList(C) \in Events
           /\ ClientJoined(C, s) \in Events
           /\ ClientLeft(C) \in Events
<1>1. V2Clients(C) \in SUBSET Sessions
  BY DEF V2Clients
<1>2. Cardinality(V2Clients(C)) \in Nat
  BY <1>1, SessionSets
<1> QED BY <1>1, <1>2 DEF ClientList, ClientJoined, ClientLeft, Events

\* A phone's count stays a natural number whatever event it hears.
LEMMA BroadcastType ==
    ASSUME TypeOK, NEW e \in Events, Broadcast(e)
    PROVE  connected' \in [Sessions -> Nat]
<1>1. \A n \in Nat : Hear(n, e) \in Nat
  BY DEF Hear, Events
<1> QED BY <1>1 DEF Broadcast, TypeOK

-----------------------------------------------------------------------------
(* Type correctness.                                                       *)

\* A freshly started server is well typed.
LEMMA InitTypeOK == Init => TypeOK
BY ModesTyped DEF Init, TypeOK, NoHandle, ClientHandle, DataPlanes, Codecs,
   Capabilities, Phases

\* register_client keeps the types, whichever client it replaces and wherever
\* the new client's transport comes from.
LEMMA RegisterTypeOK ==
    ASSUME TypeOK, NEW s \in Sessions, NEW R \in SUBSET clients, RegisterClient(s, R)
    PROVE  TypeOK'
<1> DEFINE left == clients \ R
           q == Without(pending_usb_clients, OneOf(R))
<1>1. /\ left \in SUBSET Sessions
      /\ q \in Seq(Sessions)
      /\ RemovedHandles(R) \in [Sessions -> ClientHandle]
  BY WithoutType, RemovedHandlesType DEF TypeOK
<1>2. OneOf(R) \in Sessions \cup {None}
  BY ReplacedShape, ReplaceableRegistered DEF RegisterClient, TypeOK
<1>3. /\ pc' \in [Sessions -> Phases] /\ clients' \subseteq Sessions
      /\ \A u \in Sessions : pc'[u] = "applying" => pc[u] = "applying"
  BY <1>1 DEF RegisterClient, TypeOK, Phases
<1>4. CASE Full(left)
  BY <1>1, <1>3, <1>4 DEF RegisterClient, TypeOK
<1>5. CASE ~Full(left)
  <2>1. GetTransport(s, R, q)
    BY <1>5 DEF RegisterClient
  <2>2. /\ handle' \in [Sessions -> ClientHandle]
        /\ pending_usb_clients' \in Seq(Sessions)
        /\ pending_usb_streams' \in Seq(Streams)
    <3> DEFINE old == RemovedHandles(R)
    <3>1. CASE TRANSPORT_MODE = "wifi"
      <4>1. /\ handle' = WithTransport(old, s, Wifi)
            /\ pending_usb_clients' = q
            /\ pending_usb_streams' = pending_usb_streams
        BY <2>1, <3>1 DEF GetTransport
      <4>2. handle' \in [Sessions -> ClientHandle]
        BY <1>1, <4>1, GivenTransportType
      <4> QED BY <1>1, <4>1, <4>2 DEF TypeOK
    <3>2. CASE TRANSPORT_MODE # "wifi" /\ pending_usb_streams # <<>>
      <4>1. /\ handle' = WithTransport(old, s, Head(pending_usb_streams))
            /\ pending_usb_clients' = q
            /\ pending_usb_streams' = Tail(pending_usb_streams)
        BY <2>1, <3>2 DEF GetTransport
      <4>2. /\ Head(pending_usb_streams) \in Streams
            /\ Tail(pending_usb_streams) \in Seq(Streams)
        BY <3>2 DEF TypeOK
      <4>3. handle' \in [Sessions -> ClientHandle]
        BY <1>1, <4>1, <4>2, GivenTransportType
      <4> QED BY <1>1, <4>1, <4>2, <4>3
    <3>3. CASE TRANSPORT_MODE # "wifi" /\ pending_usb_streams = <<>>
      <4>1. /\ handle' = old
            /\ pending_usb_clients' = Append(q, s)
            /\ pending_usb_streams' = pending_usb_streams
        BY <2>1, <3>3 DEF GetTransport
      <4>2. Append(q, s) \in Seq(Sessions)
        BY <1>1
      <4> QED BY <1>1, <4>1, <4>2 DEF TypeOK
    <3> QED BY <3>1, <3>2, <3>3
  <2>3. left \cup {s} \in SUBSET Sessions
    BY <1>1
  <2>4. bcast' \in [Sessions -> Seq(Events)]
    <3>1. /\ ClientList(left \cup {s}) \in Events
          /\ ClientJoined(left \cup {s}, s) \in Events
      BY <2>3, EventTypes
    <3>2. <<ClientList(left \cup {s}), ClientJoined(left \cup {s}, s)>> \in Seq(Events)
      BY <3>1
    <3>3. bcast' = [bcast EXCEPT ![s] =
              <<ClientList(left \cup {s}), ClientJoined(left \cup {s}, s)>>]
      BY <1>5 DEF RegisterClient
    <3> QED BY <3>2, <3>3 DEF TypeOK
  <2>5. /\ victim' \in [Tasks -> Sessions \cup {None}]
        /\ active_sessions' \in Int
    <3>1. /\ victim' = [victim EXCEPT ![s] = OneOf(R)]
          /\ active_sessions' = active_sessions + 1
      BY <1>5 DEF RegisterClient
    <3> HIDE DEF left, q
    <3>2. victim' \in [Tasks -> Sessions \cup {None}]
      BY <1>2, <3>1 DEF TypeOK
    <3> QED BY <3>1, <3>2 DEF TypeOK
  <2>6. UNCHANGED <<accepted_streams, current_audio_mode, request, connected>>
    BY DEF RegisterClient
  <2> QED BY <1>3, <2>2, <2>4, <2>5, <2>6 DEF TypeOK
<1> QED BY <1>4, <1>5

\* So does remove_client, up to the unlock.
LEMMA RemoveTypeOK ==
    ASSUME TypeOK, NEW t \in Tasks, NEW c \in Sessions, RemoveClient(t, c)
    PROVE  /\ clients' \subseteq Sessions
           /\ handle' \in [Sessions -> ClientHandle]
           /\ pending_usb_clients' \in Seq(Sessions)
           /\ victim' \in [Tasks -> Sessions \cup {None}]
<1>1. Without(pending_usb_clients, c) \in Seq(Sessions)
  BY WithoutType DEF TypeOK
<1>2. RemovedHandles({c}) \in [Sessions -> ClientHandle]
  BY RemovedHandlesType
<1> QED BY <1>1, <1>2 DEF RemoveClient, TypeOK

\* Everything a session's own task does keeps the types.
LEMMA SessionStepTypeOK ==
    ASSUME TypeOK, NEW s \in Sessions, SessionStep(s)
    PROVE  TypeOK'
<1>1. CASE HandshakeFails(s) \/ SessionReadError(s)
  BY <1>1 DEF HandshakeFails, SessionReadError, TypeOK, Phases, usbVars
<1>2. CASE \E h \in Hellos : ReceiveHello(s, h)
  <2>1. PICK h \in Hellos : ReceiveHello(s, h)
    BY <1>2
  <2>2. h \in Hello
    BY HellosTyped
  <2>3. NegotiatedPlane(h) \in DataPlanes /\ NegotiatedCodec(h) \in Codecs
    BY ConfigTyped DEF NegotiatedPlane, NegotiatedCodec, DataPlanes, Codecs
  <2>4. [key |-> h.key, device |-> h.device, v2 |-> h.v2, caps |-> h.caps,
         transport |-> None, data_plane |-> NegotiatedPlane(h),
         codec |-> NegotiatedCodec(h), mode |-> current_audio_mode,
         pending |-> {"first_packet"}] \in ClientHandle
    BY <2>2, <2>3 DEF Hello, ClientHandle, TypeOK
  <2>5. handle' \in [Sessions -> ClientHandle]
    BY <2>1, <2>4 DEF ReceiveHello, TypeOK
  <2>6. pc' \in [Sessions -> Phases]
    BY <2>1 DEF ReceiveHello, TypeOK, Phases
  <2> QED BY <2>1, <2>5, <2>6 DEF ReceiveHello, TypeOK, usbVars
<1>3. CASE \E R \in SUBSET clients : RegisterClient(s, R)
  BY <1>3, RegisterTypeOK
<1>4. CASE SendCollected(s)
  <2>1. CASE bcast[s] = <<>>
    BY <1>4, <2>1 DEF SendCollected, TypeOK, Phases, usbVars
  <2>2. CASE bcast[s] # <<>>
    <3>1. bcast[s] \in Seq(Events)
      BY DEF TypeOK
    <3>2. Head(bcast[s]) \in Events /\ Tail(bcast[s]) \in Seq(Events)
      BY <2>2, <3>1
    <3>3. Broadcast(Head(bcast[s]))
      BY <1>4, <2>2 DEF SendCollected
    <3>4. connected' \in [Sessions -> Nat]
      BY <3>2, <3>3, BroadcastType
    <3>5. bcast' = [bcast EXCEPT ![s] = Tail(bcast[s])]
      BY <1>4, <2>2 DEF SendCollected
    <3>6. bcast' \in [Sessions -> Seq(Events)]
      BY <3>2, <3>5 DEF TypeOK
    <3> QED BY <1>4, <2>2, <3>4, <3>6 DEF SendCollected, TypeOK, usbVars
  <2> QED BY <2>1, <2>2
<1>5. CASE \E r \in Requests : SetAudioMode(s, r)
  BY <1>5, RequestsTyped DEF SetAudioMode, TypeOK, Phases, usbVars
<1>6. CASE SetClientMode(s)
  <2>1. CASE s \in clients
    <3>1. handle' = [handle EXCEPT ![s] = WithMode(handle[s], request[s])]
      BY <1>6, <2>1 DEF SetClientMode
    <3>2. WithMode(handle[s], request[s]) \in ClientHandle
      BY <1>6, WithModeType DEF SetClientMode, TypeOK
    <3>3. handle' \in [Sessions -> ClientHandle]
      BY <3>1, <3>2 DEF TypeOK
    <3>4. <<ClientList(clients)>> \in Seq(Events)
      <4>1. ClientList(clients) \in Events
        BY EventTypes DEF TypeOK
      <4> QED BY <4>1
    <3>5. bcast' \in [Sessions -> Seq(Events)]
      BY <1>6, <2>1, <3>4 DEF SetClientMode, TypeOK
    <3> QED BY <1>6, <2>1, <3>3, <3>5 DEF SetClientMode, TypeOK, Phases, usbVars
  <2>2. CASE s \notin clients
    BY <1>6, <2>2 DEF SetClientMode, TypeOK, Phases, usbVars
  <2> QED BY <2>1, <2>2
<1>7. CASE SessionEnds(s)
  <2>1. RemoveClient(s, s) /\ s \in Tasks
    BY <1>7 DEF SessionEnds, Tasks
  <2> QED BY <1>7, <2>1, RemoveTypeOK DEF SessionEnds, TypeOK, Phases
<1> QED BY <1>1, <1>2, <1>3, <1>4, <1>5, <1>6, <1>7 DEF SessionStep

\* attach_usb_stream keeps the types.
LEMMA AttachTypeOK ==
    ASSUME TypeOK, NEW st \in Streams, NEW n \in Nat, AttachUsbStream(st, n)
    PROVE  TypeOK'
<1> DEFINE q == pending_usb_clients
           waiting == SubSeq(q, n + 1, Len(q))
           left == clients \ Elements(SubSeq(q, 1, n))
<1>0. /\ handle \in [Sessions -> ClientHandle]
      /\ \A c \in Sessions : WithTransport(handle, c, st) \in [Sessions -> ClientHandle]
  BY GivenTransportType DEF TypeOK
<1>1. waiting \in Seq(Sessions)
  BY DEF TypeOK
<1>2. clients' \subseteq Sessions
  BY DEF AttachUsbStream, TypeOK
<1>3. CASE waiting # <<>>
  <2>1. Head(waiting) \in Sessions /\ Tail(waiting) \in Seq(Sessions)
    BY <1>1, <1>3
  <2>2. /\ pending_usb_clients' = Tail(waiting)
        /\ pending_usb_streams' = pending_usb_streams
        /\ \/ handle' = WithTransport(handle, Head(waiting), st)
           \/ handle' = handle
    BY <1>3 DEF AttachUsbStream
  <2>3. handle' \in [Sessions -> ClientHandle]
    BY <1>0, <2>1, <2>2
  <2> QED BY <1>2, <2>1, <2>2, <2>3 DEF AttachUsbStream, TypeOK, sessionVars
<1>4. CASE waiting = <<>>
  <2>1. /\ pending_usb_clients' = waiting
        /\ \/ /\ \E c \in left : handle' = WithTransport(handle, c, st)
              /\ pending_usb_streams' = pending_usb_streams
           \/ /\ pending_usb_streams' = Append(pending_usb_streams, st)
              /\ handle' = handle
    BY <1>4 DEF AttachUsbStream
  <2>2. handle' \in [Sessions -> ClientHandle]
    BY <1>0, <2>1 DEF TypeOK
  <2>3. pending_usb_streams' \in Seq(Streams)
    <3>1. Append(pending_usb_streams, st) \in Seq(Streams)
      BY DEF TypeOK
    <3> QED BY <2>1, <3>1 DEF TypeOK
  <2> QED BY <1>1, <1>2, <2>1, <2>2, <2>3 DEF AttachUsbStream, TypeOK, sessionVars
<1> QED BY <1>3, <1>4

\* Every step keeps the types.
LEMMA NextTypeOK == TypeOK /\ [Next]_regVars => TypeOK'
<1> SUFFICES ASSUME TypeOK, [Next]_regVars
             PROVE  TypeOK'
  OBVIOUS
<1>1. CASE \E s \in Sessions : SessionStep(s)
  BY <1>1, SessionStepTypeOK
<1>2. CASE \E t \in Tasks : Depart(t)
  <2>1. PICK t \in Tasks : Depart(t)
    BY <1>2
  <2>2. ClientLeft(clients) \in Events
    <3>1. V2Clients(clients) \in SUBSET Sessions
      BY DEF V2Clients, TypeOK
    <3> QED BY <3>1 DEF ClientLeft, Events
  <2>3. connected' \in [Sessions -> Nat]
    BY <2>1, <2>2, BroadcastType DEF Depart
  <2>4. /\ pc' \in [Sessions -> Phases]
        /\ \A u \in Sessions : pc'[u] = "applying" => pc[u] = "applying"
    BY <2>1 DEF Depart, TypeOK, Phases
  <2> QED BY <2>1, <2>3, <2>4 DEF Depart, TypeOK, usbVars
<1>3. CASE TransportStep
  <2>1. CASE \E c \in Sessions : WifiSendFails(c)
    <3>1. PICK c \in Sessions : WifiSendFails(c)
      BY <2>1
    <3>2. RemoveClient(Transport, c) /\ Transport \in Tasks
      BY <3>1 DEF WifiSendFails, Tasks
    <3> QED BY <3>1, <3>2, RemoveTypeOK DEF WifiSendFails, TypeOK
  <2>2. CASE \E c \in Sessions : UsbSendFails(c)
    <3>1. PICK c \in Sessions : UsbSendFails(c)
      BY <2>2
    <3>2. /\ \/ handle' = handle
             \/ handle' = WithTransport(handle, c, None)
          /\ \/ pending_usb_clients' = pending_usb_clients
             \/ pending_usb_clients' = Append(pending_usb_clients, c)
      BY <3>1 DEF UsbSendFails, MarkUsbTransportLost
    <3>a. handle \in [Sessions -> ClientHandle] /\ pending_usb_clients \in Seq(Sessions)
      BY DEF TypeOK
    <3>b. WithTransport(handle, c, None) \in [Sessions -> ClientHandle]
      BY <3>a, GivenTransportType
    <3>3. handle' \in [Sessions -> ClientHandle]
      BY <3>2, <3>a, <3>b
    <3>4. pending_usb_clients' \in Seq(Sessions)
      BY <3>2, <3>a
    <3> QED BY <3>1, <3>3, <3>4 DEF UsbSendFails, TypeOK, sessionVars
  <2>3. CASE TakeBroadcastClients
    <3>1. ASSUME NEW h \in ClientHandle
          PROVE  [h EXCEPT !.pending = {}] \in ClientHandle
      BY DEF ClientHandle
    <3>2. handle' \in [Sessions -> ClientHandle]
      BY <2>3, <3>1 DEF TakeBroadcastClients, TypeOK
    <3> QED BY <2>3, <3>2 DEF TakeBroadcastClients, TypeOK, sessionVars, usbVars
  <2> QED BY <1>3, <2>1, <2>2, <2>3 DEF TransportStep
<1>4. CASE UsbAcceptStep
  <2>1. Cardinality(Sessions) \in Nat
    BY SessionSets
  <2>2. 0..Cardinality(Sessions) \subseteq Nat
    BY <2>1
  <2> QED BY <1>4, <2>2, AttachTypeOK DEF UsbAcceptStep
<1>5. CASE UNCHANGED regVars
  BY <1>5 DEF regVars, usbVars, sessionVars, TypeOK
<1> QED BY <1>1, <1>2, <1>3, <1>4, <1>5 DEF Next

\* Every variable keeps its type in every execution of the control plane.
THEOREM TypeCorrect == Spec => []TypeOK
BY InitTypeOK, NextTypeOK, PTL DEF Spec

-----------------------------------------------------------------------------
(* The safety invariants.  Each action is described by what it does to the *)
(* map, the keys and the sessions' accounts.                               *)

\* A step that leaves every session's key and negotiated path alone.
PathKept == \A s \in Sessions : /\ handle'[s].key = handle[s].key
                                /\ handle'[s].data_plane = handle[s].data_plane
                                /\ handle'[s].codec = handle[s].codec

\* Removing a client and giving it a transport change neither its key nor its
\* path.
LEMMA PathOfHandles ==
    ASSUME TypeOK, NEW R, NEW c \in Sessions, NEW tr,
           NEW hs \in [Sessions -> ClientHandle]
    PROVE  /\ \A s \in Sessions : /\ RemovedHandles(R)[s].key = handle[s].key
                                  /\ RemovedHandles(R)[s].data_plane = handle[s].data_plane
                                  /\ RemovedHandles(R)[s].codec = handle[s].codec
           /\ \A s \in Sessions : /\ WithTransport(hs, c, tr)[s].key = hs[s].key
                                  /\ WithTransport(hs, c, tr)[s].data_plane = hs[s].data_plane
                                  /\ WithTransport(hs, c, tr)[s].codec = hs[s].codec
<1>1. ASSUME NEW h \in ClientHandle, NEW x
      PROVE  /\ [h EXCEPT !.transport = x].key = h.key
             /\ [h EXCEPT !.transport = x].data_plane = h.data_plane
             /\ [h EXCEPT !.transport = x].codec = h.codec
  BY DEF ClientHandle
<1>2. \A s \in Sessions : /\ RemovedHandles(R)[s].key = handle[s].key
                         /\ RemovedHandles(R)[s].data_plane = handle[s].data_plane
                         /\ RemovedHandles(R)[s].codec = handle[s].codec
  BY <1>1 DEF RemovedHandles, TypeOK
<1>3. \A s \in Sessions : /\ WithTransport(hs, c, tr)[s].key = hs[s].key
                         /\ WithTransport(hs, c, tr)[s].data_plane = hs[s].data_plane
                         /\ WithTransport(hs, c, tr)[s].codec = hs[s].codec
  BY <1>1 DEF WithTransport
<1> QED BY <1>2, <1>3

\* A step that keeps the paths keeps LegacyCarriesPcm16, and UniqueKeys too
\* when nobody joins.
LEMMA PathKeptInv ==
    ASSUME RegistryInv, PathKept, clients' \subseteq clients
    PROVE  LegacyCarriesPcm16' /\ UniqueKeys'
<1>1. clients \subseteq Sessions
  BY DEF RegistryInv, TypeOK
<1>2. LegacyCarriesPcm16'
  BY DEF RegistryInv, PathKept, LegacyCarriesPcm16
<1>3. ASSUME NEW c \in clients', NEW d \in clients', handle'[c].key = handle'[d].key
      PROVE  c = d
  <2>1. c \in clients /\ d \in clients /\ c \in Sessions /\ d \in Sessions
    BY <1>1
  <2>2. handle[c].key = handle[d].key
    BY <1>3, <2>1 DEF PathKept
  <2> QED BY <2>1, <2>2 DEF RegistryInv, UniqueKeys
<1> QED BY <1>2, <1>3 DEF UniqueKeys

\* A finite set of tasks, one of which starts or stops owing a dec_sessions.
LEMMA DepartingSets ==
    ASSUME NEW D \in SUBSET Tasks
    PROVE  IsFiniteSet(D) /\ Cardinality(D) \in Nat
<1>1. IsFiniteSet(Tasks)
  BY SessionsFinite, FS_AddElement DEF Tasks
<1> QED BY <1>1, FS_Subset, FS_CardinalityType

\* A task that takes on a dec_sessions adds one to those that owe one.
LEMMA VictimSet ==
    ASSUME TypeOK, NEW t \in Tasks, NEW v \in Sessions, victim[t] = None,
           victim' = [victim EXCEPT ![t] = v]
    PROVE  Cardinality(Departing') = Cardinality(Departing) + 1
<1>1. v # None
  BY MarkersDistinct
<1>2. Departing' = Departing \cup {t} /\ t \notin Departing
  BY <1>1 DEF Departing, TypeOK
<1>3. IsFiniteSet(Departing)
  BY DepartingSets DEF Departing
<1> QED BY <1>2, <1>3, FS_AddElement

\* A task that has called dec_sessions owes one less.
LEMMA VictimCleared ==
    ASSUME TypeOK, NEW t \in Tasks, victim[t] # None,
           victim' = [victim EXCEPT ![t] = None]
    PROVE  Cardinality(Departing') = Cardinality(Departing) - 1
<1>1. Departing' = Departing \ {t} /\ t \in Departing
  BY DEF Departing, TypeOK
<1>2. IsFiniteSet(Departing)
  BY DepartingSets DEF Departing
<1> QED BY <1>1, <1>2, FS_RemoveElement

\* A removal moves one unit from the map to the sessions still to count down.
LEMMA RemoveAccount ==
    ASSUME RegistryInv, NEW t \in Tasks, NEW c \in Sessions,
           victim[t] = None, RemoveClient(t, c), active_sessions' = active_sessions
    PROVE  /\ Cardinality(clients') <= MAX_CLIENTS
           /\ SessionCountNeverShort'
           /\ SessionCountExactOnWifi'
<1>0. /\ IsFiniteSet(clients) /\ Cardinality(clients) \in Nat
      /\ Cardinality(Departing) \in Nat
      /\ active_sessions \in Int
  BY SessionSets, DepartingSets DEF RegistryInv, TypeOK, Departing
<1>1. CASE c \in clients
  <2>1. clients' = clients \ {c} /\ victim' = [victim EXCEPT ![t] = c]
    BY <1>1 DEF RemoveClient
  <2>2. Cardinality(clients') = Cardinality(clients) - 1
    BY <1>0, <1>1, <2>1, FS_RemoveElement
  <2>3. Cardinality(Departing') = Cardinality(Departing) + 1
    BY <2>1, VictimSet DEF RegistryInv
  <2> QED BY <1>0, <2>2, <2>3, MaxClientsPositive
          DEF RegistryInv, Capacity, SessionCountNeverShort, SessionCountExactOnWifi
<1>2. CASE c \notin clients
  BY <1>2 DEF RemoveClient, RegistryInv, Capacity, SessionCountNeverShort,
     SessionCountExactOnWifi, Departing
<1> QED BY <1>1, <1>2

\* What registering does to the counts, the keys and the map.
LEMMA RegisterAccount ==
    ASSUME RegistryInv, NEW s \in Sessions, NEW R \in SUBSET clients, RegisterClient(s, R)
    PROVE  /\ Capacity' /\ UniqueKeys' /\ PathKept
           /\ SessionCountNeverShort' /\ SessionCountExactOnWifi'
           /\ Full(clients \ R) => R = {} /\ SameKey(s) = {}
<1> DEFINE left == clients \ R
           q == Without(pending_usb_clients, OneOf(R))
<1>a. TypeOK /\ s \notin clients /\ victim[s] = None
  BY DEF RegistryInv, HandlerPhases, RegisterClient
<1>b. /\ IsFiniteSet(clients) /\ Cardinality(clients) \in Nat
      /\ Cardinality(clients) <= MAX_CLIENTS
      /\ Cardinality(Departing) \in Nat
      /\ active_sessions \in Int
  BY SessionSets, DepartingSets DEF RegistryInv, TypeOK, Departing, Capacity
<1>c. \/ R = {} /\ OneOf(R) = None /\ Replaceable(s) = {}
      \/ \E c \in Replaceable(s) : R = {c} /\ OneOf(R) = c
  <2>1. R \in Replaced(s)
    BY DEF RegisterClient
  <2> QED BY <2>1, ReplacedShape DEF Replaced
<1>d. PathKept
  <2>1. RemovedHandles(R) \in [Sessions -> ClientHandle]
    BY <1>a, RemovedHandlesType
  <2>2. \/ handle' = RemovedHandles(R)
        \/ \E x : handle' = WithTransport(RemovedHandles(R), s, x)
    BY DEF RegisterClient, GetTransport
  <2> QED BY <1>a, <2>1, <2>2, PathOfHandles DEF PathKept
\* The one session with this key, if there is one, is the one replaced.
<1>e. \A c \in left : handle[c].key # handle[s].key
  <2>1. CASE SameKey(s) = {}
    BY <2>1 DEF SameKey
  <2>2. CASE SameKey(s) # {}
    <3>1. Replaceable(s) = SameKey(s)
      BY <2>2 DEF Replaceable
    <3>2. PICK c \in SameKey(s) : R = {c}
      BY <1>c, <2>2, <3>1
    <3>3. \A d \in SameKey(s) : d = c
      BY <3>2 DEF SameKey, RegistryInv, UniqueKeys
    <3> QED BY <3>2, <3>3 DEF SameKey
  <2> QED BY <2>1, <2>2
<1>1. CASE R = {}
  <2>1. left = clients /\ SameKey(s) = {}
    BY <1>1, <1>e DEF SameKey
  <2>2. CASE Full(left)
    <3>1. UNCHANGED <<active_sessions, victim>> /\ clients' = clients
      BY <2>1, <2>2 DEF RegisterClient
    <3>2. UniqueKeys'
      BY <1>a, <1>d, <3>1 DEF PathKept, UniqueKeys, RegistryInv, TypeOK
    <3> QED BY <1>1, <1>d, <2>1, <3>1, <3>2 DEF Capacity, RegistryInv, SessionCountNeverShort,
               SessionCountExactOnWifi, Departing
  <2>3. CASE ~Full(left)
    <3>1. /\ clients' = clients \cup {s}
          /\ active_sessions' = active_sessions + 1
          /\ victim' = [victim EXCEPT ![s] = None]
      BY <1>1, <1>c, <2>1, <2>3 DEF RegisterClient
    <3>2. Departing' = Departing
      BY <1>a, <3>1 DEF Departing, TypeOK
    <3>3. Cardinality(clients') = Cardinality(clients) + 1
      BY <1>a, <1>b, <3>1, FS_AddElement
    <3>4. Cardinality(clients) < MAX_CLIENTS
      BY <1>b, <2>1, <2>3, MaxClientsPositive DEF Full
    <3>5. Capacity'
      BY <1>b, <3>3, <3>4, MaxClientsPositive DEF Capacity
    <3>6. UniqueKeys'
      BY <1>a, <1>d, <1>e, <2>1, <3>1 DEF PathKept, UniqueKeys, RegistryInv, TypeOK
    <3>7. SessionCountNeverShort' /\ SessionCountExactOnWifi'
      BY <1>b, <3>1, <3>2, <3>3
         DEF RegistryInv, SessionCountNeverShort, SessionCountExactOnWifi
    <3> QED BY <1>1, <1>d, <2>1, <3>5, <3>6, <3>7
  <2> QED BY <2>2, <2>3
<1>2. CASE R # {}
  <2>1. PICK c \in clients : R = {c} /\ OneOf(R) = c
    BY <1>2, <1>c, ReplaceableRegistered
  <2>2. Cardinality(left) = Cardinality(clients) - 1 /\ IsFiniteSet(left)
    BY <1>b, <2>1, FS_RemoveElement
  <2>3. ~Full(left)
    BY <1>b, <2>2, MaxClientsPositive DEF Full
  <2>4. /\ clients' = left \cup {s}
        /\ active_sessions' = active_sessions + 1
        /\ victim' = [victim EXCEPT ![s] = c]
    BY <2>1, <2>3 DEF RegisterClient
  <2>5. c \in Sessions /\ s \in Tasks
    BY <1>a DEF TypeOK, Tasks
  <2>6. Cardinality(Departing') = Cardinality(Departing) + 1
    BY <1>a, <2>4, <2>5, VictimSet
  <2>7. Cardinality(clients') = Cardinality(left) + 1
    BY <1>a, <2>2, <2>4, FS_AddElement
  <2>8. Capacity'
    BY <1>b, <2>2, <2>7 DEF Capacity
  <2>9. UniqueKeys'
    BY <1>a, <1>d, <1>e, <2>4 DEF PathKept, UniqueKeys, RegistryInv, TypeOK
  <2>10. SessionCountNeverShort' /\ SessionCountExactOnWifi'
    BY <1>b, <2>2, <2>4, <2>6, <2>7
       DEF RegistryInv, SessionCountNeverShort, SessionCountExactOnWifi
  <2> QED BY <1>d, <2>3, <2>8, <2>9, <2>10
<1> QED BY <1>1, <1>2

\* The inductive invariant holds initially: nobody is registered or counted.
LEMMA InitInv == Init => RegistryInv
<1> SUFFICES ASSUME Init PROVE RegistryInv
  OBVIOUS
<1>1. TypeOK
  BY InitTypeOK
<1>2. Departing = {}
  BY DEF Init, Departing, Tasks
<1>3. Cardinality({}) = 0
  BY FS_EmptySet
<1>4. HandlerPhases /\ UniqueKeys /\ LegacyCarriesPcm16
  BY DEF Init, HandlerPhases, UniqueKeys, LegacyCarriesPcm16, NoHandle, Tasks
<1>5. Capacity /\ SessionCountNeverShort /\ SessionCountExactOnWifi
  BY <1>2, <1>3, MaxClientsPositive
     DEF Init, Capacity, SessionCountNeverShort, SessionCountExactOnWifi
<1> QED BY <1>1, <1>4, <1>5 DEF RegistryInv

\* remove_client by a task that owes nothing keeps the invariant, apart from
\* what the task itself does next.
LEMMA RemoveInv ==
    ASSUME RegistryInv, NEW t \in Tasks, NEW c \in Sessions, victim[t] = None,
           RemoveClient(t, c), active_sessions' = active_sessions
    PROVE  /\ Capacity' /\ UniqueKeys' /\ LegacyCarriesPcm16'
           /\ SessionCountNeverShort' /\ SessionCountExactOnWifi'
<1>1. PathKept /\ clients' \subseteq clients
  <2>1. \/ handle' = handle
        \/ handle' = RemovedHandles({c})
    BY DEF RemoveClient
  <2>2. clients' \subseteq clients
    BY DEF RemoveClient
  <2>3. TypeOK /\ handle \in [Sessions -> ClientHandle]
    BY DEF RegistryInv, TypeOK
  <2>4. CASE handle' = handle
    BY <2>2, <2>4 DEF PathKept
  <2>5. CASE handle' = RemovedHandles({c})
    BY <2>2, <2>3, <2>5, PathOfHandles DEF PathKept
  <2> QED BY <2>1, <2>4, <2>5
<1> QED BY <1>1, PathKeptInv, RemoveAccount DEF Capacity

\* Every step of a session's own task keeps the invariant.
LEMMA SessionStepInv ==
    ASSUME RegistryInv, NEW s \in Sessions, SessionStep(s)
    PROVE  RegistryInv'
<1>0. TypeOK /\ TypeOK'
  BY SessionStepTypeOK DEF RegistryInv
<1>a. s \in Tasks
  BY DEF Tasks
<1>1. CASE HandshakeFails(s) \/ SendCollected(s) \/ SessionReadError(s)
           \/ \E r \in Requests : SetAudioMode(s, r)
  <2>1. UNCHANGED <<clients, handle, active_sessions, victim>>
    BY <1>1 DEF HandshakeFails, SendCollected, SessionReadError, SetAudioMode
  <2>2. HandlerPhases'
    BY <1>0, <1>1, <2>1 DEF HandshakeFails, SendCollected, SessionReadError,
       SetAudioMode, HandlerPhases, RegistryInv, TypeOK
  <2> QED BY <1>0, <2>1, <2>2 DEF RegistryInv, Capacity, UniqueKeys, Departing,
             SessionCountNeverShort, SessionCountExactOnWifi, LegacyCarriesPcm16
<1>2. CASE \E h \in Hellos : ReceiveHello(s, h)
  <2>1. PICK h \in Hellos : ReceiveHello(s, h)
    BY <1>2
  <2>2. UNCHANGED <<clients, active_sessions, victim>> /\ s \notin clients
    BY <2>1 DEF ReceiveHello, RegistryInv, HandlerPhases
  <2>3. \A u \in clients : handle'[u] = handle[u] /\ u \in Sessions
    BY <1>0, <2>1, <2>2 DEF ReceiveHello, TypeOK
  <2>4. UniqueKeys'
    BY <2>2, <2>3 DEF UniqueKeys, RegistryInv
  <2>5. LegacyCarriesPcm16'
    <3>1. NegotiatedPlane(h) = "legacy_las1" => NegotiatedCodec(h) = "pcm16"
      BY DEF NegotiatedPlane, NegotiatedCodec
    <3>2. /\ handle'[s].data_plane = NegotiatedPlane(h)
          /\ handle'[s].codec = NegotiatedCodec(h)
          /\ \A u \in Sessions \ {s} : handle'[u] = handle[u]
      BY <1>0, <2>1 DEF ReceiveHello, TypeOK
    <3> QED BY <3>1, <3>2 DEF LegacyCarriesPcm16, RegistryInv
  <2>6. HandlerPhases'
    BY <1>0, <2>1, <2>2 DEF ReceiveHello, HandlerPhases, RegistryInv, TypeOK
  <2> QED BY <1>0, <2>2, <2>4, <2>5, <2>6 DEF RegistryInv, Capacity, Departing,
             SessionCountNeverShort, SessionCountExactOnWifi
<1>3. CASE \E R \in SUBSET clients : RegisterClient(s, R)
  <2>1. PICK R \in SUBSET clients : RegisterClient(s, R)
    BY <1>3
  <2>2. LegacyCarriesPcm16'
    BY <1>0, <2>1, RegisterAccount DEF PathKept, LegacyCarriesPcm16, RegistryInv
  <2>3. HandlerPhases'
    <3>1. \/ pc' = [pc EXCEPT ![s] = "rejected"] /\ clients' \subseteq clients
                                                /\ victim' = victim
          \/ /\ pc' = [pc EXCEPT ![s] = "announcing"]
             /\ clients' \subseteq clients \cup {s}
             /\ victim' = [victim EXCEPT ![s] = OneOf(R)]
      BY <2>1 DEF RegisterClient
    <3>2. pc[s] = "negotiated" /\ s \notin clients /\ victim[s] = None
      BY <2>1 DEF RegisterClient, RegistryInv, HandlerPhases
    <3> QED BY <1>0, <1>a, <3>1, <3>2 DEF HandlerPhases, RegistryInv, TypeOK, Tasks
  <2> QED BY <1>0, <2>1, <2>2, <2>3, RegisterAccount DEF RegistryInv
<1>4. CASE SetClientMode(s)
  <2>1. UNCHANGED <<clients, active_sessions, victim>>
    BY <1>4 DEF SetClientMode
  <2>2. HandlerPhases'
    <3>1. /\ pc[s] = "applying"
          /\ \/ pc' = [pc EXCEPT ![s] = "notifying"]
             \/ pc' = [pc EXCEPT ![s] = "streaming"]
      BY <1>4 DEF SetClientMode
    <3>2. /\ pc'[s] \in {"notifying", "streaming"}
          /\ \A u \in Sessions \ {s} : pc'[u] = pc[u]
      BY <1>0, <3>1 DEF TypeOK
    <3>3. victim[s] = None /\ clients \subseteq Sessions
      BY <1>0, <3>1 DEF HandlerPhases, RegistryInv, TypeOK
    <3> QED BY <2>1, <3>2, <3>3 DEF HandlerPhases, RegistryInv
  <2>3. UniqueKeys' /\ LegacyCarriesPcm16'
    <3>1. CASE handle' = handle
      BY <2>1, <3>1 DEF UniqueKeys, LegacyCarriesPcm16, RegistryInv
    <3>2. CASE handle' = [handle EXCEPT ![s] = WithMode(handle[s], request[s])]
      <4>1. \A h \in ClientHandle, r \in Requests :
               /\ WithMode(h, r).key = h.key
               /\ WithMode(h, r).data_plane = h.data_plane
               /\ WithMode(h, r).codec = IF r.codec = None THEN h.codec
                                         ELSE ResolvedCodec(r.codec, h.data_plane)
        BY DEF WithMode, ClientHandle
      <4>2. handle[s] \in ClientHandle /\ request[s] \in Requests
        BY <1>0, <1>4 DEF SetClientMode, TypeOK
      <4>3. /\ handle'[s].key = handle[s].key
            /\ handle'[s].data_plane = handle[s].data_plane
            /\ \/ handle'[s].codec = handle[s].codec
               \/ handle[s].data_plane # "legacy_las1"
               \/ handle'[s].codec = "pcm16"
            /\ \A u \in Sessions \ {s} : handle'[u] = handle[u]
        BY <1>0, <3>2, <4>1, <4>2 DEF TypeOK, ResolvedCodec
      <4>4. LegacyCarriesPcm16'
        BY <4>3 DEF LegacyCarriesPcm16, RegistryInv
      <4>5. \A u \in clients : handle'[u].key = handle[u].key
        BY <1>0, <4>3 DEF TypeOK
      <4>6. UniqueKeys'
        BY <2>1, <4>5 DEF UniqueKeys, RegistryInv
      <4> QED BY <4>4, <4>6
    <3> QED BY <1>4, <3>1, <3>2 DEF SetClientMode
  <2> QED BY <1>0, <2>1, <2>2, <2>3 DEF RegistryInv, Capacity, Departing,
             SessionCountNeverShort, SessionCountExactOnWifi
<1>5. CASE SessionEnds(s)
  <2>1. victim[s] = None
    BY <1>5 DEF SessionEnds, RegistryInv, HandlerPhases
  <2>2. /\ Capacity' /\ UniqueKeys' /\ LegacyCarriesPcm16'
        /\ SessionCountNeverShort' /\ SessionCountExactOnWifi'
    BY <1>5, <1>a, <2>1, RemoveInv DEF SessionEnds
  <2>3. HandlerPhases'
    BY <1>0, <1>5, <1>a DEF SessionEnds, RemoveClient, HandlerPhases, RegistryInv,
       TypeOK, Tasks
  <2> QED BY <1>0, <2>2, <2>3 DEF RegistryInv
<1> QED BY <1>1, <1>2, <1>3, <1>4, <1>5 DEF SessionStep

\* The transport tasks, the USB accept task and the end of a removal keep the
\* invariant: expiry makes active_sessions too large, never too small.
LEMMA NextInv == RegistryInv /\ [Next]_regVars => RegistryInv'
<1> SUFFICES ASSUME RegistryInv, [Next]_regVars
             PROVE  RegistryInv'
  OBVIOUS
<1>0. TypeOK /\ TypeOK'
  BY NextTypeOK DEF RegistryInv
<1>a. /\ handle \in [Sessions -> ClientHandle]
      /\ IsFiniteSet(clients) /\ Cardinality(clients) \in Nat
      /\ Cardinality(Departing) \in Nat
      /\ active_sessions \in Int
  BY <1>0, SessionSets, DepartingSets DEF TypeOK, Departing
<1>1. CASE \E s \in Sessions : SessionStep(s)
  BY <1>1, SessionStepInv
<1>2. CASE \E t \in Tasks : Depart(t)
  <2>1. PICK t \in Tasks : Depart(t)
    BY <1>2
  <2>2. /\ UNCHANGED <<clients, handle>>
        /\ active_sessions' = active_sessions - 1
        /\ victim[t] # None /\ victim' = [victim EXCEPT ![t] = None]
    BY <2>1 DEF Depart
  <2>3. Cardinality(Departing') = Cardinality(Departing) - 1
    BY <1>0, <2>2, VictimCleared
  <2>4. HandlerPhases'
    BY <1>0, <2>1, <2>2 DEF Depart, HandlerPhases, RegistryInv, TypeOK, Tasks
  <2>5. SessionCountNeverShort' /\ SessionCountExactOnWifi'
    BY <1>a, <2>2, <2>3 DEF RegistryInv, SessionCountNeverShort, SessionCountExactOnWifi
  <2> QED BY <1>0, <2>2, <2>4, <2>5 DEF RegistryInv, Capacity, UniqueKeys, LegacyCarriesPcm16
<1>3. CASE \E c \in Sessions : WifiSendFails(c)
  <2>1. PICK c \in Sessions : WifiSendFails(c)
    BY <1>3
  <2>2. Transport \in Tasks
    BY DEF Tasks
  <2>3. /\ Capacity' /\ UniqueKeys' /\ LegacyCarriesPcm16'
        /\ SessionCountNeverShort' /\ SessionCountExactOnWifi'
    BY <2>1, <2>2, RemoveInv DEF WifiSendFails
  <2>4. HandlerPhases'
    BY <1>0, <2>1, MarkersDistinct DEF WifiSendFails, RemoveClient, HandlerPhases,
       RegistryInv, TypeOK, Tasks
  <2> QED BY <1>0, <2>3, <2>4 DEF RegistryInv
<1>4. CASE (\E c \in Sessions : UsbSendFails(c)) \/ TakeBroadcastClients
  <2>1. UNCHANGED <<clients, active_sessions, pc, victim>>
    BY <1>4 DEF UsbSendFails, TakeBroadcastClients, sessionVars
  <2>2. PathKept
    <3>1. CASE \E c \in Sessions : UsbSendFails(c)
      <4>1. PICK c \in Sessions : handle' \in {handle, WithTransport(handle, c, None)}
        BY <3>1 DEF UsbSendFails, MarkUsbTransportLost
      <4> QED BY <1>0, <1>a, <4>1, PathOfHandles DEF PathKept
    <3>2. CASE TakeBroadcastClients
      <4>1. ASSUME NEW h \in ClientHandle
            PROVE  LET g == [h EXCEPT !.pending = {}]
                   IN  g.key = h.key /\ g.data_plane = h.data_plane /\ g.codec = h.codec
        BY DEF ClientHandle
      <4> QED BY <1>a, <3>2, <4>1 DEF TakeBroadcastClients, PathKept
    <3> QED BY <1>4, <3>1, <3>2
  <2>3. UniqueKeys' /\ LegacyCarriesPcm16'
    BY <2>1, <2>2, PathKeptInv
  <2> QED BY <1>0, <2>1, <2>3 DEF RegistryInv, HandlerPhases, Capacity, Departing,
             SessionCountNeverShort, SessionCountExactOnWifi
<1>5. CASE UsbAcceptStep
  <2>1. PICK st \in Streams, n \in 0..Cardinality(Sessions) : AttachUsbStream(st, n)
    BY <1>5 DEF UsbAcceptStep
  <2>2. /\ clients' \subseteq clients /\ TRANSPORT_MODE = "usb"
        /\ UNCHANGED <<active_sessions, pc, victim>>
    BY <2>1 DEF AttachUsbStream, sessionVars
  <2>3. PathKept
    <3>1. \/ handle' = handle
          \/ \E c \in Sessions : handle' = WithTransport(handle, c, st)
      BY <1>0, <2>1 DEF AttachUsbStream, TypeOK
    <3> QED BY <1>0, <1>a, <3>1, PathOfHandles DEF PathKept
  <2>4. UniqueKeys' /\ LegacyCarriesPcm16'
    BY <2>2, <2>3, PathKeptInv
  <2>5. Cardinality(clients') <= Cardinality(clients) /\ Cardinality(clients') \in Nat
    BY <1>a, <2>2, FS_Subset, FS_CardinalityType
  <2>6. Capacity' /\ SessionCountNeverShort' /\ SessionCountExactOnWifi'
    BY <1>a, <2>2, <2>5, MaxClientsPositive DEF RegistryInv, Capacity, Departing,
       SessionCountNeverShort, SessionCountExactOnWifi
  <2>7. HandlerPhases'
    BY <2>2 DEF RegistryInv, HandlerPhases
  <2> QED BY <1>0, <2>4, <2>6, <2>7 DEF RegistryInv
<1>6. CASE UNCHANGED regVars
  BY <1>0, <1>6 DEF regVars, sessionVars, RegistryInv, HandlerPhases, Capacity, UniqueKeys,
     Departing, SessionCountNeverShort, SessionCountExactOnWifi, LegacyCarriesPcm16
<1> QED BY <1>1, <1>2, <1>3, <1>4, <1>5, <1>6 DEF Next, TransportStep

\* The registry in every execution: bounded, one session per client_key, a
\* session counter that never wraps (and is exact on Wi-Fi), and no session
\* on a path that carries no packet.
THEOREM RegistrySafe ==
    Spec => [](/\ Capacity
               /\ UniqueKeys
               /\ SessionCountNeverShort
               /\ SessionCountExactOnWifi
               /\ LegacyCarriesPcm16)
<1>1. RegistryInv => /\ Capacity /\ UniqueKeys
                     /\ SessionCountNeverShort /\ SessionCountExactOnWifi
                     /\ LegacyCarriesPcm16
  BY DEF RegistryInv
<1> QED BY <1>1, InitInv, NextInv, PTL DEF Spec

\* A reconnecting device never ends up with two registered sessions.
THEOREM OneSessionPerKey == Spec => []UniqueKeys
<1>1. RegistryInv => UniqueKeys
  BY DEF RegistryInv
<1> QED BY <1>1, InitInv, NextInv, PTL DEF Spec

\* The unsigned session counter covers the map and every removal that has not
\* been counted yet: no dec_sessions can wrap it.
THEOREM SessionCountCovers == Spec => []SessionCountNeverShort
<1>1. RegistryInv => SessionCountNeverShort
  BY DEF RegistryInv
<1> QED BY <1>1, InitInv, NextInv, PTL DEF Spec

\* On Wi-Fi it is that sum exactly: no removal is counted twice or not at all.
THEOREM SessionCountExact == Spec => []SessionCountExactOnWifi
<1>1. RegistryInv => SessionCountExactOnWifi
  BY DEF RegistryInv
<1> QED BY <1>1, InitInv, NextInv, PTL DEF Spec

\* A registration that is turned away evicted nobody, and answered a device
\* without a session in a registry that was full.
THEOREM CleanRejection == Spec => RejectionIsClean
<1> DEFINE Clean == \A s \in Sessions :
                       pc[s] # "rejected" /\ pc'[s] = "rejected" =>
                           /\ clients' = clients
                           /\ SameKey(s) = {}
                           /\ Cardinality(clients) = MAX_CLIENTS
<1>1. ASSUME RegistryInv, [Next]_regVars
      PROVE  [Clean]_regVars
  <2> SUFFICES ASSUME NEW s \in Sessions, Next, pc[s] # "rejected", pc'[s] = "rejected"
               PROVE  /\ clients' = clients
                      /\ SameKey(s) = {}
                      /\ Cardinality(clients) = MAX_CLIENTS
    BY <1>1
  <2>0. pc \in [Sessions -> Phases]
    BY <1>1 DEF RegistryInv, TypeOK
  <2>1. \E R \in SUBSET clients : RegisterClient(s, R) /\ pc' = [pc EXCEPT ![s] = "rejected"]
    <3>1. CASE \E u \in Sessions : SessionStep(u)
      <4>1. PICK u \in Sessions : SessionStep(u)
        BY <3>1
      <4>2. \A R \in SUBSET clients : RegisterClient(u, R) =>
               pc' \in {[pc EXCEPT ![u] = "rejected"], [pc EXCEPT ![u] = "announcing"]}
        BY DEF RegisterClient
      <4>3. PICK R \in SUBSET clients : RegisterClient(u, R)
        BY <2>0, <4>1 DEF SessionStep, HandshakeFails, ReceiveHello, SendCollected,
           SetAudioMode, SetClientMode, SessionEnds, SessionReadError
      <4> QED BY <2>0, <4>2, <4>3
    <3>2. CASE \E t \in Tasks : Depart(t)
      BY <2>0, <3>2 DEF Depart
    <3>3. CASE TransportStep \/ UsbAcceptStep
      BY <3>3 DEF TransportStep, UsbAcceptStep, WifiSendFails, UsbSendFails,
         TakeBroadcastClients, AttachUsbStream, sessionVars
    <3> QED BY <3>1, <3>2, <3>3 DEF Next
  <2>2. PICK R \in SUBSET clients : RegisterClient(s, R) /\ pc' = [pc EXCEPT ![s] = "rejected"]
    BY <2>1
  <2>3. Full(clients \ R) /\ clients' = clients \ R
    BY <2>0, <2>2 DEF RegisterClient
  <2>4. R = {} /\ SameKey(s) = {}
    BY <1>1, <2>2, <2>3, RegisterAccount
  <2>5. Cardinality(clients) \in Nat
    BY <1>1, SessionSets DEF RegistryInv, TypeOK
  <2>6. clients \ R = clients
    BY <2>4
  <2> QED BY <1>1, <2>3, <2>4, <2>5, <2>6, MaxClientsPositive
          DEF Full, RegistryInv, Capacity
<1> QED BY <1>1, InitInv, NextInv, PTL DEF Spec, RejectionIsClean

-----------------------------------------------------------------------------
(* The USB queues.                                                         *)

\* A queue that holds nothing twice.
Distinct(q) == \A i, j \in 1..Len(q) : q[i] = q[j] => i = j

\* retain on such a queue.
LEMMA WithoutElements ==
    ASSUME NEW S, NEW q \in Seq(S), Distinct(q), NEW c
    PROVE  Distinct(Without(q, c)) /\ Elements(Without(q, c)) = Elements(q) \ {c}
<1>1. CASE \E i \in 1..Len(q) : q[i] = c
  <2> DEFINE k == CHOOSE i \in 1..Len(q) : q[i] = c
             w == SubSeq(q, 1, k - 1) \o SubSeq(q, k + 1, Len(q))
  <2>1. k \in 1..Len(q) /\ q[k] = c
    BY <1>1
  <2>2. Without(q, c) = w
    BY <1>1 DEF Without
  <2> HIDE DEF k
  <2>a. ASSUME NEW m, m = SubSeq(q, 1, k - 1)
        PROVE  m \in Seq(S) /\ Len(m) = k - 1 /\ \A i \in 1..(k - 1) : m[i] = q[i]
    BY <2>1, <2>a
  <2>b. ASSUME NEW m, m = SubSeq(q, k + 1, Len(q))
        PROVE  /\ m \in Seq(S) /\ Len(m) = Len(q) - k
               /\ \A i \in 1..(Len(q) - k) : m[i] = q[k + i]
    BY <2>1, <2>b
  <2>c. ASSUME NEW m \in Seq(S), NEW o \in Seq(S), m = SubSeq(q, 1, k - 1),
               o = SubSeq(q, k + 1, Len(q))
        PROVE  /\ Len(m \o o) = Len(q) - 1
               /\ \A i \in 1..(Len(q) - 1) : (m \o o)[i] = IF i < k THEN q[i] ELSE q[i + 1]
    <3>1. /\ Len(m) = k - 1 /\ \A i \in 1..(k - 1) : m[i] = q[i]
          /\ Len(o) = Len(q) - k /\ \A i \in 1..(Len(q) - k) : o[i] = q[k + i]
      BY <2>a, <2>b, <2>c
    <3>2. Len(m \o o) = Len(m) + Len(o) /\ Len(q) \in Nat
      OBVIOUS
    <3>3. \A i \in 1..(Len(m) + Len(o)) :
             (m \o o)[i] = IF i <= Len(m) THEN m[i] ELSE o[i - Len(m)]
      OBVIOUS
    <3>4. ASSUME NEW i \in 1..(Len(q) - 1)
          PROVE  (m \o o)[i] = IF i < k THEN q[i] ELSE q[i + 1]
      <4>1. CASE i < k
        <5>1. i \in 1..(Len(m) + Len(o)) /\ i <= Len(m) /\ i \in 1..(k - 1)
          BY <2>1, <3>1, <3>2, <4>1
        <5> QED BY <3>1, <3>3, <4>1, <5>1
      <4>2. CASE ~(i < k)
        <5>1. /\ i \in 1..(Len(m) + Len(o)) /\ ~(i <= Len(m))
              /\ i - Len(m) \in 1..(Len(q) - k) /\ k + (i - Len(m)) = i + 1
          BY <2>1, <3>1, <3>2, <4>2
        <5> QED BY <3>1, <3>3, <4>2, <5>1
      <4> QED BY <4>1, <4>2
    <3>5. Len(m) + Len(o) = Len(q) - 1
      BY <2>1, <3>1, <3>2
    <3> QED BY <3>2, <3>4, <3>5
  <2>3. /\ Len(w) = Len(q) - 1 /\ Len(q) \in Nat
        /\ \A i \in 1..(Len(q) - 1) : w[i] = IF i < k THEN q[i] ELSE q[i + 1]
    <3>0. SubSeq(q, 1, k - 1) \in Seq(S) /\ SubSeq(q, k + 1, Len(q)) \in Seq(S)
      BY <2>1
    <3>1. PICK m, o : m = SubSeq(q, 1, k - 1) /\ o = SubSeq(q, k + 1, Len(q))
      BY Zenon
    <3>2. m \in Seq(S) /\ o \in Seq(S) /\ Len(q) \in Nat
      BY <3>0, <3>1
    <3>3. /\ Len(m \o o) = Len(q) - 1
          /\ \A i \in 1..(Len(q) - 1) : (m \o o)[i] = IF i < k THEN q[i] ELSE q[i + 1]
      BY <2>c, <3>1, <3>2
    <3> QED BY <3>1, <3>2, <3>3
  <2>4. \A i \in 1..Len(w) : w[i] = IF i < k THEN q[i] ELSE q[i + 1]
    BY <2>3
  <2> HIDE DEF w
  <2>5. Distinct(w)
    <3> SUFFICES ASSUME NEW i \in 1..Len(w), NEW j \in 1..Len(w), w[i] = w[j] PROVE i = j
      BY DEF Distinct
    <3> DEFINE f(x) == IF x < k THEN x ELSE x + 1
    <3>1. /\ f(i) \in 1..Len(q) /\ f(j) \in 1..Len(q)
          /\ w[i] = q[f(i)] /\ w[j] = q[f(j)]
      BY <2>1, <2>3, <2>4
    <3>2. f(i) = f(j)
      BY <3>1 DEF Distinct
    <3> QED BY <2>1, <2>3, <3>2
  <2>6. Elements(w) \subseteq Elements(q) \ {c}
    <3> SUFFICES ASSUME NEW i \in 1..Len(w) PROVE w[i] \in Elements(q) /\ w[i] # c
      BY DEF Elements
    <3>1. CASE i < k
      <4>1. w[i] = q[i] /\ i \in 1..Len(q) /\ i # k
        BY <2>1, <2>3, <2>4, <3>1
      <4> QED BY <2>1, <4>1 DEF Elements, Distinct
    <3>2. CASE ~(i < k)
      <4>1. w[i] = q[i + 1] /\ i + 1 \in 1..Len(q) /\ i + 1 # k
        BY <2>1, <2>3, <2>4, <3>2
      <4> QED BY <2>1, <4>1 DEF Elements, Distinct
    <3> QED BY <3>1, <3>2
  <2>7. Elements(q) \ {c} \subseteq Elements(w)
    <3> SUFFICES ASSUME NEW i \in 1..Len(q), q[i] # c PROVE q[i] \in Elements(w)
      BY DEF Elements
    <3>1. CASE i < k
      <4>1. i \in 1..Len(w) /\ w[i] = q[i]
        BY <2>1, <2>3, <2>4, <3>1
      <4> QED BY <4>1 DEF Elements
    <3>2. CASE i > k
      <4>1. i - 1 \in 1..Len(w) /\ ~(i - 1 < k) /\ (i - 1) + 1 = i
        BY <2>1, <2>3, <3>2
      <4>2. w[i - 1] = q[i]
        BY <2>4, <4>1
      <4> QED BY <4>1, <4>2 DEF Elements
    <3>3. i # k
      BY <2>1
    <3> QED BY <2>1, <3>1, <3>2, <3>3
  <2> QED BY <2>2, <2>5, <2>6, <2>7
<1>2. CASE ~ \E i \in 1..Len(q) : q[i] = c
  BY <1>2 DEF Without, Elements
<1> QED BY <1>1, <1>2

\* push_back of something new.
LEMMA AppendElements ==
    ASSUME NEW S, NEW q \in Seq(S), Distinct(q), NEW c \in S, c \notin Elements(q)
    PROVE  Distinct(Append(q, c)) /\ Elements(Append(q, c)) = Elements(q) \cup {c}
<1> DEFINE a == Append(q, c)
<1>1. Len(a) = Len(q) + 1 /\ Len(q) \in Nat
  OBVIOUS
<1>2. \A i \in 1..Len(a) : a[i] = IF i <= Len(q) THEN q[i] ELSE c
  OBVIOUS
<1> HIDE DEF a
<1>3. Distinct(a)
  <2> SUFFICES ASSUME NEW i \in 1..Len(a), NEW j \in 1..Len(a), a[i] = a[j] PROVE i = j
    BY DEF Distinct
  <2>1. \A x \in 1..Len(q) : q[x] # c
    BY DEF Elements
  <2>2. \A x \in 1..Len(a) : x \in 1..Len(q) \/ x = Len(q) + 1
    BY <1>1
  <2> QED BY <1>1, <1>2, <2>1, <2>2 DEF Distinct
<1>4. Elements(a) = Elements(q) \cup {c}
  <2>1. \A i \in 1..Len(q) : i \in 1..Len(a) /\ a[i] = q[i]
    BY <1>1, <1>2
  <2>2. Len(q) + 1 \in 1..Len(a) /\ a[Len(q) + 1] = c
    BY <1>1, <1>2
  <2>3. \A i \in 1..Len(a) : a[i] \in Elements(q) \cup {c}
    BY <1>1, <1>2 DEF Elements
  <2> QED BY <2>1, <2>2, <2>3 DEF Elements
<1> QED BY <1>3, <1>4 DEF a

\* A queue from place n on: what the first n places do not hold.
LEMMA RestElements ==
    ASSUME NEW S, NEW q \in Seq(S), Distinct(q), NEW n \in 0..Len(q)
    PROVE  LET rest == SubSeq(q, n + 1, Len(q)) IN
           /\ rest \in Seq(S)
           /\ Distinct(rest)
           /\ Elements(rest) = Elements(q) \ Elements(SubSeq(q, 1, n))
<1> DEFINE rest == SubSeq(q, n + 1, Len(q))
           first == SubSeq(q, 1, n)
<1>1. rest \in Seq(S) /\ Len(rest) = Len(q) - n /\ Len(q) \in Nat
  OBVIOUS
<1>2. \A i \in 1..Len(rest) : rest[i] = q[n + i]
  OBVIOUS
<1>3. Len(first) = n /\ \A i \in 1..n : first[i] = q[i]
  OBVIOUS
<1> HIDE DEF rest, first
<1>4. Distinct(rest)
  <2> SUFFICES ASSUME NEW i \in 1..Len(rest), NEW j \in 1..Len(rest), rest[i] = rest[j] PROVE i = j
    BY DEF Distinct
  <2>1. n + i \in 1..Len(q) /\ n + j \in 1..Len(q) /\ q[n + i] = q[n + j]
    BY <1>1, <1>2
  <2>2. n + i = n + j
    BY <2>1 DEF Distinct
  <2> QED BY <1>1, <2>2
<1>5. Elements(rest) \subseteq Elements(q) \ Elements(first)
  <2> SUFFICES ASSUME NEW i \in 1..Len(rest)
               PROVE  rest[i] \in Elements(q) /\ rest[i] \notin Elements(first)
    BY DEF Elements
  <2>1. n + i \in 1..Len(q) /\ rest[i] = q[n + i]
    BY <1>1, <1>2
  <2>2. \A j \in 1..n : j \in 1..Len(q) /\ j # n + i
    BY <1>1
  <2>3. \A j \in 1..n : first[j] # rest[i]
    BY <1>3, <2>1, <2>2 DEF Distinct
  <2> QED BY <1>3, <2>1, <2>3 DEF Elements
<1>6. Elements(q) \ Elements(first) \subseteq Elements(rest)
  <2> SUFFICES ASSUME NEW i \in 1..Len(q), q[i] \notin Elements(first) PROVE q[i] \in Elements(rest)
    BY DEF Elements
  <2>1. ~(i <= n)
    <3> SUFFICES ASSUME i <= n PROVE FALSE
      OBVIOUS
    <3>1. i \in 1..n
      BY <1>1
    <3> QED BY <1>3, <3>1 DEF Elements
  <2>2. i - n \in 1..Len(rest) /\ n + (i - n) = i
    BY <1>1, <2>1
  <2>3. rest[i - n] = q[i]
    BY <1>2, <2>2
  <2> QED BY <2>2, <2>3 DEF Elements
<1> QED BY <1>1, <1>4, <1>5, <1>6 DEF rest, first

\* pop_front.
LEMMA TailElements ==
    ASSUME NEW S, NEW q \in Seq(S), Distinct(q), q # <<>>
    PROVE  /\ Tail(q) \in Seq(S) /\ Head(q) \in S /\ Head(q) \in Elements(q)
           /\ Distinct(Tail(q)) /\ Elements(Tail(q)) = Elements(q) \ {Head(q)}
<1>1. Len(q) \in Nat /\ Len(q) >= 1
  BY EmptySeq
<1>2. Head(q) = q[1] /\ 1 \in 1..Len(q) /\ 1 \in 0..Len(q)
  BY <1>1
<1>3. ASSUME NEW m, m = Tail(q)
      PROVE  /\ m \in Seq(S) /\ Len(m) = Len(q) - 1
             /\ \A i \in 1..(Len(q) - 1) : m[i] = q[i + 1]
  BY <1>1, <1>3
<1>4. PICK m : m = Tail(q)
  OBVIOUS
<1>5. /\ m \in Seq(S) /\ Len(m) = Len(q) - 1
      /\ \A i \in 1..Len(m) : i + 1 \in 1..Len(q) /\ m[i] = q[i + 1]
  BY <1>1, <1>3, <1>4
<1>6. Distinct(m)
  <2> SUFFICES ASSUME NEW i \in 1..Len(m), NEW j \in 1..Len(m), m[i] = m[j] PROVE i = j
    BY DEF Distinct
  <2>1. i + 1 = j + 1
    BY <1>5 DEF Distinct
  <2> QED BY <1>1, <1>5, <2>1
<1>7. ASSUME NEW i \in 1..Len(m) PROVE m[i] \in Elements(q) /\ m[i] # q[1]
  <2>1. i + 1 \in 1..Len(q) /\ m[i] = q[i + 1] /\ i + 1 # 1
    BY <1>1, <1>5
  <2> QED BY <1>2, <2>1 DEF Distinct, Elements
<1>8. ASSUME NEW i \in 1..Len(q), q[i] # q[1] PROVE q[i] \in Elements(m)
  <2>1. i - 1 \in 1..Len(m) /\ (i - 1) + 1 = i
    BY <1>1, <1>5, <1>8
  <2>2. m[i - 1] = q[i]
    BY <1>5, <2>1
  <2> QED BY <2>1, <2>2 DEF Elements
<1>9. Elements(m) = Elements(q) \ {q[1]}
  BY <1>7, <1>8 DEF Elements
<1>10. q[1] \in S /\ q[1] \in Elements(q)
  BY <1>2 DEF Elements
<1> QED BY <1>2, <1>4, <1>5, <1>6, <1>9, <1>10

\* The transport of every session, and what the queues are to it: the inductive
\* invariant of the USB side, for a map C, transports T, the two queues and the
\* streams accepted so far.
Targets == Streams \cup {Wifi, None}
TransportsIn(hs) == [s \in Sessions |-> hs[s].transport]
Transports == TransportsIn(handle)

Waiting(C, T) == {c \in C : TRANSPORT_MODE = "usb" /\ T[c] = None}

UsbTypes(C, T, cq, sq, acc) ==
    /\ C \subseteq Sessions
    /\ T \in [Sessions -> Targets]
    /\ cq \in Seq(Sessions)
    /\ sq \in Seq(Streams)
    /\ acc \subseteq Streams

UsbGood(C, T, cq, sq, acc) ==
    /\ UsbTypes(C, T, cq, sq, acc)
    /\ Distinct(cq) /\ Elements(cq) = Waiting(C, T)
    /\ Distinct(sq) /\ Elements(sq) \subseteq acc
    /\ \A s \in Sessions : T[s] \in Streams => T[s] \in acc /\ T[s] \notin Elements(sq)
    /\ \A s, u \in Sessions : T[s] = T[u] /\ T[s] \in Streams => s = u
    /\ \A s \in Sessions \ C : T[s] = None

UsbInv == UsbGood(clients, Transports, pending_usb_clients, pending_usb_streams,
                  accepted_streams)

\* A client goes: its transport is dropped and it no longer waits.
LEMMA UsbLeave ==
    ASSUME NEW C, NEW T, NEW cq, NEW sq, NEW acc, UsbGood(C, T, cq, sq, acc),
           NEW c \in C
    PROVE  UsbGood(C \ {c}, [T EXCEPT ![c] = None], Without(cq, c), sq, acc)
<1> DEFINE D == C \ {c}
           U == [T EXCEPT ![c] = None]
           w == Without(cq, c)
<1>1. UsbTypes(C, T, cq, sq, acc) /\ c \in Sessions
  BY DEF UsbGood, UsbTypes
<1>2. /\ D \subseteq Sessions /\ U \in [Sessions -> Targets]
      /\ U[c] = None /\ \A s \in Sessions : s # c => U[s] = T[s]
  BY <1>1 DEF UsbTypes, Targets
<1>3. w \in Seq(Sessions) /\ Distinct(w) /\ Elements(w) = Elements(cq) \ {c}
  BY <1>1, WithoutType, WithoutElements DEF UsbGood, UsbTypes
<1>4. Waiting(D, U) = Waiting(C, T) \ {c}
  BY <1>1, <1>2 DEF Waiting, UsbTypes
<1> HIDE DEF D, U, w
<1>5. Elements(w) = Waiting(D, U)
  BY <1>3, <1>4 DEF UsbGood
<1>6. \A s \in Sessions : U[s] \in Streams => s # c
  BY <1>2, MarkersDistinct
<1>7. /\ \A s \in Sessions : U[s] \in Streams => U[s] \in acc /\ U[s] \notin Elements(sq)
      /\ \A s, u \in Sessions : U[s] = U[u] /\ U[s] \in Streams => s = u
  BY <1>2, <1>6 DEF UsbGood
<1>8. \A s \in Sessions \ D : U[s] = None
  BY <1>2 DEF D, UsbGood
<1>9. UsbTypes(D, U, w, sq, acc)
  BY <1>1, <1>2, <1>3 DEF UsbTypes
<1> QED BY <1>3, <1>5, <1>7, <1>8, <1>9 DEF UsbGood, D, U, w

\* A client joins on Wi-Fi.
LEMMA UsbJoinWifi ==
    ASSUME NEW C, NEW T, NEW cq, NEW sq, NEW acc, UsbGood(C, T, cq, sq, acc),
           NEW c \in Sessions, TRANSPORT_MODE = "wifi"
    PROVE  UsbGood(C \cup {c}, [T EXCEPT ![c] = Wifi], cq, sq, acc)
<1> DEFINE D == C \cup {c}
           U == [T EXCEPT ![c] = Wifi]
<1>1. UsbTypes(C, T, cq, sq, acc)
  BY DEF UsbGood
<1>2. /\ D \subseteq Sessions /\ U \in [Sessions -> Targets]
      /\ U[c] = Wifi /\ \A s \in Sessions : s # c => U[s] = T[s]
  BY <1>1 DEF UsbTypes, Targets
<1>4. Waiting(D, U) = {} /\ Waiting(C, T) = {}
  BY DEF Waiting
<1> HIDE DEF D, U
<1>5. Elements(cq) = Waiting(D, U)
  BY <1>4 DEF UsbGood
<1>6. \A s \in Sessions : U[s] \in Streams => s # c
  BY <1>2, MarkersDistinct
<1>7. /\ \A s \in Sessions : U[s] \in Streams => U[s] \in acc /\ U[s] \notin Elements(sq)
      /\ \A s, u \in Sessions : U[s] = U[u] /\ U[s] \in Streams => s = u
  BY <1>2, <1>6 DEF UsbGood
<1>8. \A s \in Sessions \ D : U[s] = None
  BY <1>2 DEF D, UsbGood
<1>9. UsbTypes(D, U, cq, sq, acc)
  BY <1>1, <1>2 DEF UsbTypes
<1> QED BY <1>5, <1>7, <1>8, <1>9 DEF UsbGood, D, U

\* A session without a stream is given one nobody else has, and waits no more:
\* a session that joins while a stream is queued, or the oldest waiting client
\* when a stream arrives.
LEMMA UsbGive ==
    ASSUME NEW C, NEW T, NEW cq, NEW sq, NEW acc, UsbGood(C, T, cq, sq, acc),
           NEW c \in Sessions, T[c] = None,
           NEW st \in Streams, \A s \in Sessions : T[s] # st,
           NEW cr \in Seq(Sessions), Distinct(cr), Elements(cr) = Elements(cq) \ {c},
           NEW sr \in Seq(Streams), Distinct(sr), Elements(sr) = Elements(sq) \ {st}
    PROVE  UsbGood(C \cup {c}, [T EXCEPT ![c] = st], cr, sr, acc \cup {st})
<1> DEFINE D == C \cup {c}
           U == [T EXCEPT ![c] = st]
           acd == acc \cup {st}
<1>1. UsbTypes(C, T, cq, sq, acc)
  BY DEF UsbGood
<1>2. /\ D \subseteq Sessions /\ U \in [Sessions -> Targets] /\ acd \subseteq Streams
      /\ U[c] = st /\ \A s \in Sessions : s # c => U[s] = T[s]
  BY <1>1 DEF UsbTypes, Targets
<1>3. st # None
  BY MarkersDistinct
<1>4. Waiting(D, U) = Waiting(C, T) \ {c}
  BY <1>1, <1>2, <1>3 DEF Waiting, UsbTypes
<1> HIDE DEF D, U
<1>5. Elements(cr) = Waiting(D, U)
  BY <1>4 DEF UsbGood
<1>6. \A s \in Sessions : U[s] \in Streams => U[s] \in acd /\ U[s] \notin Elements(sr)
  <2> SUFFICES ASSUME NEW s \in Sessions, U[s] \in Streams
               PROVE  U[s] \in acd /\ U[s] \notin Elements(sr)
    OBVIOUS
  <2>1. CASE s = c
    BY <1>2, <2>1
  <2>2. CASE s # c
    BY <1>2, <2>2 DEF UsbGood
  <2> QED BY <2>1, <2>2
<1>7. \A s, u \in Sessions : U[s] = U[u] /\ U[s] \in Streams => s = u
  BY <1>2 DEF UsbGood
<1>8. \A s \in Sessions \ D : U[s] = None
  BY <1>2 DEF D, UsbGood
<1>9. UsbTypes(D, U, cr, sr, acd)
  BY <1>1, <1>2 DEF UsbTypes
<1>10. Elements(sr) \subseteq acd
  BY DEF UsbGood
<1> HIDE DEF acd
<1>11. UsbGood(D, U, cr, sr, acd)
  BY <1>5, <1>6, <1>7, <1>8, <1>9, <1>10 DEF UsbGood
<1> QED BY <1>11 DEF D, U, acd

\* A session joins, or a registered one loses its stream: it queues for one,
\* unless it already does.
LEMMA UsbQueue ==
    ASSUME NEW C, NEW T, NEW cq, NEW sq, NEW acc, UsbGood(C, T, cq, sq, acc),
           NEW c \in Sessions, TRANSPORT_MODE = "usb"
    PROVE  UsbGood(C \cup {c}, [T EXCEPT ![c] = None],
                   IF c \in Elements(cq) THEN cq ELSE Append(cq, c), sq, acc)
<1> DEFINE D == C \cup {c}
           U == [T EXCEPT ![c] = None]
           cr == IF c \in Elements(cq) THEN cq ELSE Append(cq, c)
<1>1. UsbTypes(C, T, cq, sq, acc)
  BY DEF UsbGood
<1>2. /\ D \subseteq Sessions /\ U \in [Sessions -> Targets]
      /\ U[c] = None /\ \A s \in Sessions : s # c => U[s] = T[s]
  BY <1>1 DEF UsbTypes, Targets
<1>3. cr \in Seq(Sessions) /\ Distinct(cr) /\ Elements(cr) = Elements(cq) \cup {c}
  <2>0. cq \in Seq(Sessions) /\ Distinct(cq)
    BY <1>1 DEF UsbGood, UsbTypes
  <2>1. CASE c \in Elements(cq)
    BY <2>0, <2>1
  <2>2. CASE c \notin Elements(cq)
    <3>1. Distinct(Append(cq, c)) /\ Elements(Append(cq, c)) = Elements(cq) \cup {c}
      BY <2>0, <2>2, AppendElements
    <3> QED BY <2>0, <2>2, <3>1
  <2> QED BY <2>1, <2>2
<1>4. Waiting(D, U) = Waiting(C, T) \cup {c}
  BY <1>1, <1>2 DEF Waiting, UsbTypes
<1> HIDE DEF D, U, cr
<1>5. Elements(cr) = Waiting(D, U)
  BY <1>3, <1>4 DEF UsbGood
<1>6. \A s \in Sessions : U[s] \in Streams => s # c
  BY <1>2, MarkersDistinct
<1>7. /\ \A s \in Sessions : U[s] \in Streams => U[s] \in acc /\ U[s] \notin Elements(sq)
      /\ \A s, u \in Sessions : U[s] = U[u] /\ U[s] \in Streams => s = u
  BY <1>2, <1>6 DEF UsbGood
<1>8. \A s \in Sessions \ D : U[s] = None
  BY <1>2 DEF D, UsbGood
<1>9. UsbTypes(D, U, cr, sq, acc)
  BY <1>1, <1>2, <1>3 DEF UsbTypes
<1> QED BY <1>3, <1>5, <1>7, <1>8, <1>9 DEF UsbGood, D, U, cr

\* The first n waiting clients expire.
LEMMA UsbExpire ==
    ASSUME NEW C, NEW T, NEW cq, NEW sq, NEW acc, UsbGood(C, T, cq, sq, acc),
           NEW n \in 0..Len(cq)
    PROVE  UsbGood(C \ Elements(SubSeq(cq, 1, n)), T, SubSeq(cq, n + 1, Len(cq)), sq, acc)
<1> DEFINE gone == Elements(SubSeq(cq, 1, n))
           rest == SubSeq(cq, n + 1, Len(cq))
<1>1. UsbTypes(C, T, cq, sq, acc)
  BY DEF UsbGood
<1>2. rest \in Seq(Sessions) /\ Distinct(rest) /\ Elements(rest) = Elements(cq) \ gone
  BY <1>1, RestElements DEF UsbGood, UsbTypes
<1>3. gone \subseteq Elements(cq)
  <2>1. Len(SubSeq(cq, 1, n)) = n /\ \A i \in 1..n : SubSeq(cq, 1, n)[i] = cq[i]
    BY <1>1 DEF UsbTypes
  <2>2. \A i \in 1..n : i \in 1..Len(cq)
    BY <1>1 DEF UsbTypes
  <2> QED BY <2>1, <2>2 DEF Elements
<1> HIDE DEF gone, rest
<1>4. \A s \in gone : T[s] = None
  BY <1>3 DEF UsbGood, Waiting
<1>5. Waiting(C \ gone, T) = Waiting(C, T) \ gone
  BY DEF Waiting
<1>6. UsbTypes(C \ gone, T, rest, sq, acc)
  BY <1>1, <1>2 DEF UsbTypes
<1>7. \A s \in Sessions \ (C \ gone) : T[s] = None
  BY <1>4 DEF UsbGood
<1> QED BY <1>2, <1>5, <1>6, <1>7 DEF UsbGood, gone, rest

\* A stream nobody waits for is queued.
LEMMA UsbStreamQueued ==
    ASSUME NEW C, NEW T, NEW cq, NEW sq, NEW acc, UsbGood(C, T, cq, sq, acc),
           NEW st \in Streams, st \notin acc
    PROVE  UsbGood(C, T, cq, Append(sq, st), acc \cup {st})
<1>1. UsbTypes(C, T, cq, sq, acc) /\ st \notin Elements(sq)
  BY DEF UsbGood
<1>2. Distinct(Append(sq, st)) /\ Elements(Append(sq, st)) = Elements(sq) \cup {st}
  BY <1>1, AppendElements DEF UsbGood, UsbTypes
<1>3. UsbTypes(C, T, cq, Append(sq, st), acc \cup {st})
  BY <1>1 DEF UsbTypes
<1>4. Elements(Append(sq, st)) \subseteq acc \cup {st}
  BY <1>2 DEF UsbGood
<1>5. \A s \in Sessions : T[s] \in Streams =>
         T[s] \in acc \cup {st} /\ T[s] \notin Elements(Append(sq, st))
  BY <1>2 DEF UsbGood
<1> QED BY <1>2, <1>3, <1>4, <1>5 DEF UsbGood

\* The transports after remove_client_locked and after a transport was given.
LEMMA TransportsOfHandles ==
    ASSUME NEW hs \in [Sessions -> ClientHandle], NEW c \in Sessions, NEW tr
    PROVE  TransportsIn(WithTransport(hs, c, tr)) = [TransportsIn(hs) EXCEPT ![c] = tr]
<1>1. ASSUME NEW h \in ClientHandle
      PROVE  [h EXCEPT !.transport = tr].transport = tr
  BY DEF ClientHandle
<1>2. \A s \in Sessions : WithTransport(hs, c, tr)[s].transport =
                             IF s = c THEN tr ELSE hs[s].transport
  BY <1>1 DEF WithTransport
<1> QED BY <1>2 DEF TransportsIn

LEMMA TransportsRemoved ==
    ASSUME TypeOK, NEW c \in Sessions
    PROVE  /\ TransportsIn(RemovedHandles({c})) = [Transports EXCEPT ![c] = None]
           /\ TransportsIn(RemovedHandles({})) = Transports
<1>1. ASSUME NEW h \in ClientHandle
      PROVE  [h EXCEPT !.transport = None].transport = None
  BY DEF ClientHandle
<1>2. \A s \in Sessions : RemovedHandles({c})[s].transport =
                             IF s = c THEN None ELSE handle[s].transport
  BY <1>1 DEF RemovedHandles, TypeOK
<1>3. \A s \in Sessions : RemovedHandles({})[s].transport = handle[s].transport
  BY DEF RemovedHandles, TypeOK
<1> QED BY <1>2, <1>3 DEF Transports, TransportsIn

\* The queues, the map and the transports of a running registry are well typed.
LEMMA UsbTyped ==
    ASSUME TypeOK
    PROVE  UsbTypes(clients, Transports, pending_usb_clients, pending_usb_streams,
                    accepted_streams)
<1>1. \A h \in ClientHandle : h.transport \in Targets
  BY DEF ClientHandle, Targets
<1> QED BY <1>1 DEF TypeOK, UsbTypes, Transports, TransportsIn

\* A step that changes neither the map nor a queue nor any transport.
LEMMA UsbKept ==
    ASSUME UsbInv, UNCHANGED <<clients, usbVars>>, Transports' = Transports
    PROVE  UsbInv'
BY DEF UsbInv, usbVars

\* remove_client.
LEMMA UsbRemove ==
    ASSUME TypeOK, UsbInv, NEW t, NEW c \in Sessions, RemoveClient(t, c),
           UNCHANGED <<pending_usb_streams, accepted_streams>>
    PROVE  UsbInv'
<1>1. CASE c \in clients
  <2>1. /\ clients' = clients \ {c}
        /\ pending_usb_clients' = Without(pending_usb_clients, c)
        /\ Transports' = TransportsIn(RemovedHandles({c}))
    BY <1>1 DEF RemoveClient, Transports, TransportsIn
  <2>2. Transports' = [Transports EXCEPT ![c] = None]
    BY <2>1, TransportsRemoved
  <2>3. UsbGood(clients \ {c}, [Transports EXCEPT ![c] = None],
                Without(pending_usb_clients, c), pending_usb_streams, accepted_streams)
    BY <1>1, UsbLeave DEF UsbInv
  <2> QED BY <2>1, <2>2, <2>3 DEF UsbInv
<1>2. CASE c \notin clients
  <2>1. UNCHANGED <<clients, usbVars>> /\ Transports' = Transports
    BY <1>2 DEF RemoveClient, usbVars, Transports, TransportsIn
  <2> QED BY <2>1, UsbKept
<1> QED BY <1>1, <1>2

\* register_client: the replaced client's stream is dropped, not handed on; the
\* new client takes the oldest queued stream or queues.
LEMMA UsbRegister ==
    ASSUME RegistryInv, UsbInv, NEW s \in Sessions, NEW R \in SUBSET clients,
           RegisterClient(s, R)
    PROVE  UsbInv'
<1> DEFINE left == clients \ R
           q == Without(pending_usb_clients, OneOf(R))
           old == RemovedHandles(R)
<1>0. TypeOK /\ s \notin clients
  BY DEF RegistryInv, HandlerPhases, RegisterClient
<1>1. UsbGood(left, TransportsIn(old), q, pending_usb_streams, accepted_streams)
  <2>0. R \in Replaced(s)
    BY DEF RegisterClient
  <2>1. CASE R = {} /\ OneOf(R) = None
    <3>1. /\ q \in Seq(Sessions) /\ Distinct(q)
          /\ Elements(q) = Elements(pending_usb_clients) \ {None}
      BY <1>0, <2>1, WithoutType, WithoutElements DEF TypeOK, UsbInv, UsbGood
    <3>2. None \notin Elements(pending_usb_clients)
      BY <1>0, MarkersDistinct DEF UsbInv, UsbGood, Waiting, TypeOK
    <3>3. left = clients /\ TransportsIn(old) = Transports
      BY <1>0, <2>1, TransportsRemoved
    <3> HIDE DEF q, left, old
    <3> QED BY <3>1, <3>2, <3>3 DEF UsbInv, UsbGood, UsbTypes
  <2>2. CASE \E c \in Replaceable(s) : R = {c} /\ OneOf(R) = c
    <3>1. PICK c \in clients : R = {c} /\ OneOf(R) = c
      BY <2>2, ReplaceableRegistered
    <3>2. c \in Sessions
      BY <1>0 DEF TypeOK
    <3>3. TransportsIn(old) = [Transports EXCEPT ![c] = None]
      BY <1>0, <3>1, <3>2, TransportsRemoved
    <3>4. UsbGood(clients \ {c}, [Transports EXCEPT ![c] = None],
                  Without(pending_usb_clients, c), pending_usb_streams, accepted_streams)
      BY UsbLeave DEF UsbInv
    <3> QED BY <3>1, <3>3, <3>4
  <2> QED BY <2>0, <2>1, <2>2, ReplacedShape
<1>2. accepted_streams' = accepted_streams
  BY DEF RegisterClient
<1>3. CASE Full(left)
  <2>1. /\ clients' = left /\ handle' = old /\ pending_usb_clients' = q
        /\ pending_usb_streams' = pending_usb_streams
    BY <1>3 DEF RegisterClient
  <2>2. Transports' = TransportsIn(old)
    BY <2>1 DEF Transports, TransportsIn
  <2> QED BY <1>1, <1>2, <2>1, <2>2 DEF UsbInv
<1>4. CASE ~Full(left)
  <2>1. clients' = left \cup {s} /\ GetTransport(s, R, q)
    BY <1>4 DEF RegisterClient
  <2>2. old \in [Sessions -> ClientHandle]
    BY <1>0, RemovedHandlesType
  <2> DEFINE T == TransportsIn(old)
  <2>3. T[s] = None /\ s \notin Elements(q)
    <3>1. s \notin left
      BY <1>0
    <3> HIDE DEF left, q, T
    <3> QED BY <1>1, <3>1 DEF UsbGood, Waiting, T
  <2>4. CASE TRANSPORT_MODE = "wifi"
    <3>1. /\ handle' = WithTransport(old, s, Wifi) /\ pending_usb_clients' = q
          /\ pending_usb_streams' = pending_usb_streams
      BY <2>1, <2>4 DEF GetTransport
    <3>2. Transports' = [T EXCEPT ![s] = Wifi]
      <4>1. Transports' = TransportsIn(WithTransport(old, s, Wifi))
        BY <3>1 DEF Transports, TransportsIn
      <4> QED BY <2>2, <4>1, TransportsOfHandles
    <3>3. UsbGood(left \cup {s}, [T EXCEPT ![s] = Wifi], q, pending_usb_streams,
                  accepted_streams)
      BY <1>1, <2>4, UsbJoinWifi
    <3> QED BY <1>2, <2>1, <3>1, <3>2, <3>3 DEF UsbInv
  <2>5. CASE TRANSPORT_MODE = "usb" /\ pending_usb_streams # <<>>
    <3> DEFINE st == Head(pending_usb_streams)
    <3>1. /\ handle' = WithTransport(old, s, st) /\ pending_usb_clients' = q
          /\ pending_usb_streams' = Tail(pending_usb_streams)
      BY <2>1, <2>5 DEF GetTransport
    <3>2. /\ Tail(pending_usb_streams) \in Seq(Streams) /\ st \in Streams
          /\ st \in Elements(pending_usb_streams)
          /\ Distinct(Tail(pending_usb_streams))
          /\ Elements(Tail(pending_usb_streams)) = Elements(pending_usb_streams) \ {st}
      BY <1>0, <2>5, TailElements DEF UsbInv, UsbGood, TypeOK
    <3>3. Transports' = [T EXCEPT ![s] = st]
      <4>1. Transports' = TransportsIn(WithTransport(old, s, st))
        BY <3>1 DEF Transports, TransportsIn
      <4> QED BY <2>2, <4>1, TransportsOfHandles
    <3> HIDE DEF st, T, left, q
    <3>4. \A u \in Sessions : T[u] # st
      BY <1>1, <3>2 DEF UsbGood, T
    <3>5. /\ q \in Seq(Sessions) /\ Distinct(q) /\ Elements(q) = Elements(q) \ {s}
      BY <1>1, <2>3 DEF UsbGood, UsbTypes
    <3>6. accepted_streams \cup {st} = accepted_streams
      BY <3>2 DEF UsbInv, UsbGood
    <3>7. UsbGood(left \cup {s}, [T EXCEPT ![s] = st], q, Tail(pending_usb_streams),
                  accepted_streams \cup {st})
      BY <1>1, <2>3, <3>2, <3>4, <3>5, UsbGive DEF T
    <3> QED BY <1>2, <2>1, <3>1, <3>3, <3>6, <3>7 DEF UsbInv, q, left
  <2>6. CASE TRANSPORT_MODE = "usb" /\ pending_usb_streams = <<>>
    <3>1. /\ handle' = old /\ pending_usb_clients' = Append(q, s)
          /\ pending_usb_streams' = pending_usb_streams
      BY <2>1, <2>6 DEF GetTransport
    <3>2. Transports' = T
      BY <3>1 DEF Transports, TransportsIn
    <3>3. UsbGood(left \cup {s}, [T EXCEPT ![s] = None],
                  IF s \in Elements(q) THEN q ELSE Append(q, s), pending_usb_streams,
                  accepted_streams)
      BY <1>1, <2>6, UsbQueue
    <3>4. [T EXCEPT ![s] = None] = T
      BY <2>3 DEF TransportsIn
    <3> QED BY <1>2, <2>1, <2>3, <3>1, <3>2, <3>3, <3>4 DEF UsbInv
  <2> QED BY <2>4, <2>5, <2>6, ConfigTyped
<1> QED BY <1>3, <1>4

\* mark_usb_transport_lost: the client queues once, whatever stream it had.
LEMMA UsbLost ==
    ASSUME TypeOK, UsbInv, NEW c \in Sessions, UsbSendFails(c)
    PROVE  UsbInv'
<1>0. UNCHANGED <<clients, pending_usb_streams, accepted_streams>> /\ TRANSPORT_MODE = "usb"
  BY DEF UsbSendFails
<1>1. CASE c \in clients
  <2> DEFINE cr == IF c \in Elements(pending_usb_clients) THEN pending_usb_clients
                   ELSE Append(pending_usb_clients, c)
  <2>1. handle' = WithTransport(handle, c, None) /\ pending_usb_clients' = cr
    BY <1>1 DEF UsbSendFails, MarkUsbTransportLost
  <2>2. Transports' = [Transports EXCEPT ![c] = None]
    <3>1. Transports' = TransportsIn(WithTransport(handle, c, None))
      BY <2>1 DEF Transports, TransportsIn
    <3>2. handle \in [Sessions -> ClientHandle]
      BY DEF TypeOK
    <3> QED BY <3>1, <3>2, TransportsOfHandles DEF Transports
  <2>3. UsbGood(clients \cup {c}, [Transports EXCEPT ![c] = None], cr,
                pending_usb_streams, accepted_streams)
    BY <1>0, UsbQueue DEF UsbInv
  <2>4. clients \cup {c} = clients
    BY <1>1
  <2> QED BY <1>0, <2>1, <2>2, <2>3, <2>4 DEF UsbInv
<1>2. CASE c \notin clients
  <2>1. UNCHANGED <<clients, usbVars>> /\ Transports' = Transports
    BY <1>0, <1>2 DEF UsbSendFails, MarkUsbTransportLost, usbVars, Transports, TransportsIn
  <2> QED BY <2>1, UsbKept
<1> QED BY <1>1, <1>2

\* attach_usb_stream: with the expired clients gone, the oldest waiting client
\* is registered and takes the stream; when nobody waits, nobody lacks one.
LEMMA UsbAttach ==
    ASSUME TypeOK, UsbInv, NEW st \in Streams, NEW n, AttachUsbStream(st, n)
    PROVE  UsbInv'
<1> DEFINE expired == Elements(SubSeq(pending_usb_clients, 1, n))
           waiting == SubSeq(pending_usb_clients, n + 1, Len(pending_usb_clients))
           left == clients \ expired
           lacking == {c \in left : handle[c].transport = None}
<1>1. /\ TRANSPORT_MODE = "usb" /\ st \notin accepted_streams
      /\ n \in 0..Len(pending_usb_clients)
      /\ accepted_streams' = accepted_streams \cup {st}
      /\ clients' = left
  BY DEF AttachUsbStream
<1>2. UsbGood(left, Transports, waiting, pending_usb_streams, accepted_streams)
  BY <1>1, UsbExpire DEF UsbInv
<1>3. \A s \in Sessions : Transports[s] # st
  BY <1>1 DEF UsbInv, UsbGood
<1>4. handle \in [Sessions -> ClientHandle] /\ left \subseteq Sessions
  BY DEF TypeOK
<1>5. CASE waiting # <<>>
  <2>1. /\ pending_usb_clients' = Tail(waiting)
        /\ pending_usb_streams' = pending_usb_streams
        /\ Head(waiting) \in left => handle' = WithTransport(handle, Head(waiting), st)
    BY <1>5 DEF AttachUsbStream
  <2> HIDE DEF waiting, left
  <2>2. waiting \in Seq(Sessions) /\ Distinct(waiting)
        /\ Elements(waiting) = Waiting(left, Transports)
    BY <1>2 DEF UsbGood, UsbTypes
  <2>3. /\ Tail(waiting) \in Seq(Sessions) /\ Head(waiting) \in Sessions
        /\ Head(waiting) \in Elements(waiting)
        /\ Distinct(Tail(waiting))
        /\ Elements(Tail(waiting)) = Elements(waiting) \ {Head(waiting)}
    BY <1>5, <2>2, TailElements
  <2>4. PICK c \in Sessions : c = Head(waiting)
    BY <2>3
  <2>5. c \in left /\ Transports[c] = None
    BY <2>2, <2>3, <2>4 DEF Waiting
  <2>6. Transports' = [Transports EXCEPT ![c] = st]
    <3>1. Transports' = TransportsIn(WithTransport(handle, c, st))
      BY <2>1, <2>4, <2>5 DEF Transports, TransportsIn
    <3> QED BY <1>4, <3>1, TransportsOfHandles DEF Transports
  <2>7. /\ pending_usb_streams \in Seq(Streams) /\ Distinct(pending_usb_streams)
        /\ Elements(pending_usb_streams) = Elements(pending_usb_streams) \ {st}
    BY <1>1 DEF TypeOK, UsbInv, UsbGood
  <2>8. UsbGood(left \cup {c}, [Transports EXCEPT ![c] = st], Tail(waiting),
                pending_usb_streams, accepted_streams \cup {st})
    BY <1>2, <1>3, <2>3, <2>4, <2>5, <2>7, UsbGive
  <2>9. left \cup {c} = left
    BY <2>5
  <2> QED BY <1>1, <2>1, <2>6, <2>8, <2>9 DEF UsbInv, left
<1>6. CASE waiting = <<>>
  <2>1. lacking = {}
    <3>1. Elements(<<>>) = {}
      BY DEF Elements
    <3>2. Waiting(left, Transports) = {}
      BY <1>2, <1>6, <3>1 DEF UsbGood
    <3> HIDE DEF left
    <3> QED BY <1>1, <1>4, <3>2 DEF Waiting, Transports, TransportsIn
  <2>2. /\ pending_usb_clients' = waiting
        /\ pending_usb_streams' = Append(pending_usb_streams, st)
        /\ handle' = handle
    BY <1>6, <2>1 DEF AttachUsbStream
  <2>3. Transports' = Transports
    BY <2>2 DEF Transports, TransportsIn
  <2>4. UsbGood(left, Transports, waiting, Append(pending_usb_streams, st),
                accepted_streams \cup {st})
    BY <1>1, <1>2, UsbStreamQueued
  <2> QED BY <1>1, <2>2, <2>3, <2>4 DEF UsbInv
<1> QED BY <1>5, <1>6

\* Nobody waits for a stream and none is queued when the server starts.
LEMMA InitUsb == Init => UsbInv
<1> SUFFICES ASSUME Init PROVE UsbInv
  OBVIOUS
<1>1. UsbTypes(clients, Transports, pending_usb_clients, pending_usb_streams,
               accepted_streams)
  BY InitTypeOK, UsbTyped
<1>2. Transports = [s \in Sessions |-> None]
  BY DEF Init, NoHandle, Transports, TransportsIn
<1>3. Distinct(<<>>) /\ Elements(<<>>) = {}
  BY DEF Distinct, Elements
<1>4. clients = {} /\ pending_usb_clients = <<>> /\ pending_usb_streams = <<>>
  BY DEF Init
<1>5. Waiting(clients, Transports) = {}
  BY <1>4 DEF Waiting
<1> QED BY <1>1, <1>2, <1>3, <1>4, <1>5, MarkersDistinct DEF UsbInv, UsbGood

\* Every step keeps the queues and the transports in agreement.
LEMMA NextUsb == RegistryInv /\ UsbInv /\ [Next]_regVars => UsbInv'
<1> SUFFICES ASSUME RegistryInv, UsbInv, [Next]_regVars
             PROVE  UsbInv'
  OBVIOUS
<1>0. TypeOK /\ handle \in [Sessions -> ClientHandle]
  BY DEF RegistryInv, TypeOK
<1>1. ASSUME NEW s \in Sessions, SessionStep(s)
      PROVE  UsbInv'
  <2>1. CASE HandshakeFails(s) \/ SendCollected(s) \/ SessionReadError(s)
             \/ \E r \in Requests : SetAudioMode(s, r)
    <3>1. UNCHANGED <<clients, usbVars, handle>>
      BY <2>1 DEF HandshakeFails, SendCollected, SessionReadError, SetAudioMode
    <3> QED BY <3>1, UsbKept DEF Transports, TransportsIn
  <2>2. CASE \E h \in Hellos : ReceiveHello(s, h)
    <3>1. PICK h \in Hellos : ReceiveHello(s, h)
      BY <2>2
    <3>2. UNCHANGED <<clients, usbVars>> /\ s \notin clients
      BY <3>1 DEF ReceiveHello, RegistryInv, HandlerPhases
    <3>3. handle'[s].transport = None /\ \A u \in Sessions \ {s} : handle'[u] = handle[u]
      BY <1>0, <3>1 DEF ReceiveHello
    <3>4. handle[s].transport = None
      BY <3>2 DEF UsbInv, UsbGood, Transports, TransportsIn
    <3>5. Transports' = Transports
      BY <3>3, <3>4 DEF Transports, TransportsIn
    <3> QED BY <3>2, <3>5, UsbKept
  <2>3. CASE \E R \in SUBSET clients : RegisterClient(s, R)
    BY <2>3, UsbRegister
  <2>4. CASE SetClientMode(s)
    <3>1. UNCHANGED <<clients, usbVars>>
      BY <2>4 DEF SetClientMode
    <3>2. ASSUME NEW h \in ClientHandle, NEW r PROVE WithMode(h, r).transport = h.transport
      BY DEF WithMode, ClientHandle
    <3>3. \A u \in Sessions : handle'[u].transport = handle[u].transport
      <4>1. \/ handle' = handle
            \/ handle' = [handle EXCEPT ![s] = WithMode(handle[s], request[s])]
        BY <2>4 DEF SetClientMode
      <4> QED BY <1>0, <3>2, <4>1
    <3>4. Transports' = Transports
      BY <3>3 DEF Transports, TransportsIn
    <3> QED BY <3>1, <3>4, UsbKept
  <2>5. CASE SessionEnds(s)
    BY <1>0, <2>5, UsbRemove DEF SessionEnds
  <2> QED BY <1>1, <2>1, <2>2, <2>3, <2>4, <2>5 DEF SessionStep
<1>2. CASE \E t \in Tasks : Depart(t)
  <2>1. UNCHANGED <<clients, usbVars, handle>>
    BY <1>2 DEF Depart
  <2> QED BY <2>1, UsbKept DEF Transports, TransportsIn
<1>3. CASE \E c \in Sessions : WifiSendFails(c)
  BY <1>0, <1>3, UsbRemove DEF WifiSendFails
<1>4. CASE \E c \in Sessions : UsbSendFails(c)
  BY <1>0, <1>4, UsbLost
<1>5. CASE TakeBroadcastClients
  <2>1. UNCHANGED <<clients, usbVars>>
    BY <1>5 DEF TakeBroadcastClients
  <2>2. ASSUME NEW h \in ClientHandle PROVE [h EXCEPT !.pending = {}].transport = h.transport
    BY DEF ClientHandle
  <2>3. \A u \in Sessions : handle'[u].transport = handle[u].transport
    BY <1>0, <1>5, <2>2 DEF TakeBroadcastClients
  <2>4. Transports' = Transports
    BY <2>3 DEF Transports, TransportsIn
  <2> QED BY <2>1, <2>4, UsbKept
<1>6. CASE UsbAcceptStep
  BY <1>0, <1>6, UsbAttach DEF UsbAcceptStep
<1>7. CASE UNCHANGED regVars
  <2>1. UNCHANGED <<clients, usbVars, handle>>
    BY <1>7 DEF regVars
  <2> QED BY <2>1, UsbKept DEF Transports, TransportsIn
<1> QED BY <1>1, <1>2, <1>3, <1>4, <1>5, <1>6, <1>7 DEF Next, TransportStep

\* The USB queue holds exactly the registered clients that lack a stream, once
\* each, in every execution: the fallback search of attach_usb_stream never
\* finds anybody and its lookup of the oldest waiting client never fails.
THEOREM UsbQueueAlwaysExact == Spec => []UsbQueueExact
<1>1. UsbInv => UsbQueueExact
  <2> SUFFICES ASSUME UsbInv PROVE UsbQueueExact
    OBVIOUS
  <2>1. \A c \in clients : Transports[c] = handle[c].transport
    BY DEF UsbInv, UsbGood, UsbTypes, Transports, TransportsIn
  <2>2. Waiting(clients, Transports) =
            {c \in clients : TRANSPORT_MODE = "usb" /\ handle[c].transport = None}
    BY <2>1 DEF Waiting
  <2> QED BY <2>2 DEF UsbInv, UsbGood, UsbQueueExact, Distinct
<1> QED BY <1>1, InitInv, NextInv, InitUsb, NextUsb, PTL DEF Spec

\* A forwarded stream belongs to one session at most and is never in use while
\* it is queued, whatever the accept task, the transport and the handlers do.
THEOREM StreamsOwnedOnce == Spec => []StreamOwnership
<1>1. UsbInv => StreamOwnership
  <2> SUFFICES ASSUME UsbInv PROVE StreamOwnership
    OBVIOUS
  <2>1. \A s \in Sessions : Transports[s] = handle[s].transport
    BY DEF Transports, TransportsIn
  <2>2. \A i \in 1..Len(pending_usb_streams) :
           /\ pending_usb_streams[i] \in Streams
           /\ pending_usb_streams[i] \in Elements(pending_usb_streams)
    BY DEF UsbInv, UsbGood, UsbTypes, Elements
  <2>3. \A s, u \in Sessions :
           handle[s].transport = handle[u].transport /\ handle[s].transport \in Streams
               => s = u
    BY <2>1 DEF UsbInv, UsbGood
  <2>4. \A s \in Sessions, i \in 1..Len(pending_usb_streams) :
           handle[s].transport # pending_usb_streams[i]
    BY <2>1, <2>2 DEF UsbInv, UsbGood
  <2> QED BY <2>3, <2>4 DEF UsbInv, UsbGood, StreamOwnership, Distinct
<1> QED BY <1>1, InitInv, NextInv, InitUsb, NextUsb, PTL DEF Spec


(***************************************************************************)
(* What the contract itself promises, for the machine of any session.      *)
(***************************************************************************)

\* What one call makes of a machine that keeps the contract.
LEMMA CallsKeepInv ==
    ASSUME NEW s \in Sessions, Contract(s)!ContractInv, Contract(s)!Next
    PROVE  Contract(s)!ContractInv'
<1> USE DEF Contract!ContractInv, Contract!Machine, Contract!States,
            Contract!RollbackStates
<1>1. ASSUME NEW next \in Contract(s)!States, Contract(s)!Transition(next)
      PROVE  Contract(s)!ContractInv'
  <2>1. CASE next \notin Contract(s)!Allowed[conn[s].state]
    BY <1>1, <2>1 DEF Contract!Transition, Contract!AfterTransition
  <2>2. CASE next \in Contract(s)!Allowed[conn[s].state]
    BY <1>1, <2>2 DEF Contract!Transition, Contract!AfterTransition
  <2> QED BY <2>1, <2>2
<1>2. ASSUME NEW next \in Contract(s)!States, NEW code \in FailureCodes,
             Contract(s)!Fail(next, code)
      PROVE  Contract(s)!ContractInv'
  <2>1. CASE next \notin {"Recovering", "Closed"} \cap Contract(s)!Allowed[conn[s].state]
    BY <1>2, <2>1 DEF Contract!Fail, Contract!AfterFailure
  <2>2. CASE next \in {"Recovering", "Closed"} \cap Contract(s)!Allowed[conn[s].state]
    BY <1>2, <2>2 DEF Contract!Fail, Contract!AfterFailure
  <2> QED BY <2>1, <2>2
<1>3. ASSUME Contract(s)!ForceRollback
      PROVE  Contract(s)!ContractInv'
  BY <1>3 DEF Contract!ForceRollback, Contract!AfterRollback
<1> QED BY <1>1, <1>2, <1>3 DEF Contract!Next

\* No sequence of transition, fail and force_rollback calls leaves a negotiated
\* or streaming connection half rolled back, or shows a failure code on a
\* connection that is neither recovering nor closed (ConnectionStateMachine).
THEOREM ContractSafe ==
    ASSUME NEW s \in Sessions
    PROVE  Contract(s)!Spec => []Contract(s)!ContractInv
<1>1. Contract(s)!Init => Contract(s)!ContractInv
  BY DEF Contract!Init, Contract!NewMachine, Contract!ContractInv, Contract!Machine,
     Contract!States, Contract!RollbackStates
<1>2. Contract(s)!ContractInv /\ [Contract(s)!Next]_(conn[s]) => Contract(s)!ContractInv'
  <2>1. ASSUME Contract(s)!ContractInv, Contract(s)!Next PROVE Contract(s)!ContractInv'
    BY <2>1, CallsKeepInv
  <2>2. ASSUME Contract(s)!ContractInv, UNCHANGED conn[s] PROVE Contract(s)!ContractInv'
    BY <2>2 DEF Contract!ContractInv
  <2> QED BY <2>1, <2>2
<1> QED BY <1>1, <1>2, PTL DEF Contract!Spec

\* Closed is final and a rollback is never undone, whatever is called
\* (is_allowed_transition, force_rollback).
THEOREM ContractFinal ==
    ASSUME NEW s \in Sessions
    PROVE  Contract(s)!Spec => Contract(s)!ContractStep
<1>1. Contract(s)!ContractInv /\ [Contract(s)!Next]_(conn[s]) =>
          [/\ conn[s].state = "Closed" => conn[s]' = conn[s]
           /\ conn[s].rollback_state # "MainPathActive" =>
                  (conn[s]').rollback_state # "MainPathActive"]_(conn[s])
  <2> SUFFICES ASSUME Contract(s)!ContractInv, Contract(s)!Next
               PROVE  /\ conn[s].state = "Closed" => conn[s]' = conn[s]
                      /\ conn[s].rollback_state # "MainPathActive" =>
                             (conn[s]').rollback_state # "MainPathActive"
    OBVIOUS
  <2> USE DEF Contract!ContractInv, Contract!Machine
  <2>1. ASSUME NEW next \in Contract(s)!States, Contract(s)!Transition(next)
        PROVE  /\ conn[s].state = "Closed" => conn[s]' = conn[s]
               /\ conn[s].rollback_state # "MainPathActive" =>
                      (conn[s]').rollback_state # "MainPathActive"
    BY <2>1 DEF Contract!Transition, Contract!AfterTransition, Contract!Allowed
  <2>2. ASSUME NEW next \in Contract(s)!States, NEW code \in FailureCodes,
               Contract(s)!Fail(next, code)
        PROVE  /\ conn[s].state = "Closed" => conn[s]' = conn[s]
               /\ conn[s].rollback_state # "MainPathActive" =>
                      (conn[s]').rollback_state # "MainPathActive"
    BY <2>2 DEF Contract!Fail, Contract!AfterFailure, Contract!Allowed
  <2>3. CASE Contract(s)!ForceRollback
    BY <2>3 DEF Contract!ForceRollback, Contract!AfterRollback
  <2> QED BY <2>1, <2>2, <2>3 DEF Contract!Next
<1>2. Contract(s)!Spec => []Contract(s)!ContractInv
  BY ContractSafe
<1> QED BY <1>1, <1>2, PTL DEF Contract!Spec, Contract!ContractStep

(***************************************************************************)
(* What the handlers do with it.                                           *)
(***************************************************************************)

\* A step of a handler with its machine is a step of the registry.
LEMMA ContractStepIsStep == [ContractNext]_contractVars => [Next]_regVars
BY DEF ContractNext, contractVars, AcceptConnection, HandshakeGivesUp, Negotiates,
   Registers, SendsCollected, ServesRequest, LeavesLoop, BreaksOff, Departs,
   Next, SessionStep

\* What the machine becomes on the transitions the handlers ask for.
LEMMA TransitionTo ==
    ASSUME NEW s \in Sessions, NEW m, NEW next,
           <<m.state, next>> \in
              {<<"Disconnected", "Handshaking">>, <<"Handshaking", "Negotiated">>,
               <<"Negotiated", "Streaming">>, <<"Streaming", "Closed">>},
           m.rollback_state = "MainPathActive"
    PROVE  Contract(s)!AfterTransition(m, next) =
               [state |-> next, rollback_state |-> "MainPathActive",
                failure_code |-> NoFailure]
<1>1. next \in Contract(s)!Allowed[m.state]
  BY DEF Contract!Allowed
<1> QED BY <1>1 DEF Contract!AfterTransition

\* What the machine becomes when a handler gives up.
LEMMA FailingTo ==
    ASSUME NEW s \in Sessions, NEW m \in HandlerMachine, NEW code \in FailureCodes,
           m.state \in {"Handshaking", "Negotiated"}
    PROVE  Contract(s)!AfterFailure(m, "Closed", code) =
               [state |-> "Closed", rollback_state |-> "MainPathActive",
                failure_code |-> code]
<1>1. "Closed" \in Contract(s)!Allowed[m.state]
  BY DEF Contract!Allowed
<1> QED BY <1>1 DEF Contract!AfterFailure, HandlerMachine

LEMMA ContractInitInv == ContractInit => ContractRegistryInv
<1> SUFFICES ASSUME ContractInit PROVE ContractRegistryInv
  OBVIOUS
<1>1. RegistryInv
  BY InitInv DEF ContractInit
<1>2. \A s \in Sessions : conn[s] = [state |-> "Disconnected",
          rollback_state |-> "MainPathActive", failure_code |-> NoFailure]
  BY DEF ContractInit, Contract!NewMachine
<1>3. /\ conn \in [Sessions -> HandlerMachine]
      /\ \A s \in Sessions : pc[s] = "idle"
      /\ clients = {}
  BY <1>2 DEF ContractInit, HandlerMachine, Init, Contract!NewMachine
<1> QED BY <1>1, <1>2, <1>3 DEF ContractRegistryInv, ConnectionFollowsHandler

\* The machine's part of the invariant, one session at a time.
LEMMA PerSession ==
    ASSUME RegistryInv', conn' \in [Sessions -> HandlerMachine],
           \A s \in Sessions :
              /\ pc'[s] = "idle" => conn'[s].state \in {"Disconnected", "Handshaking"}
              /\ pc'[s] \in {"negotiated", "announcing"} => conn'[s].state = "Negotiated"
              /\ pc'[s] \in {"streaming", "applying", "notifying", "leaving"}
                     => conn'[s].state = "Streaming"
              /\ pc'[s] = "rejected" => conn'[s].failure_code = "NegotiationMismatch"
              /\ pc'[s] = "closed" => conn'[s].state \in
                     {"Disconnected", "Handshaking", "Streaming", "Closed"}
              /\ conn'[s].failure_code # NoFailure => conn'[s].state = "Closed"
              /\ s \in clients' => conn'[s].failure_code = NoFailure
    PROVE  ContractRegistryInv'
BY DEF ContractRegistryInv, ConnectionFollowsHandler

\* Which clients and phases a registry step can change.
LEMMA StepFrame ==
    ASSUME TypeOK, NEW s \in Sessions
    PROVE  /\ HandshakeFails(s) => pc[s] = "idle" /\ clients' = clients
                                   /\ pc' = [pc EXCEPT ![s] = "closed"]
           /\ \A h \in Hellos : ReceiveHello(s, h) => pc[s] = "idle" /\ clients' = clients
                                   /\ pc' = [pc EXCEPT ![s] = "negotiated"]
           /\ \A R \in SUBSET clients : RegisterClient(s, R) =>
                  /\ pc[s] = "negotiated"
                  /\ \/ clients' \subseteq clients /\ pc' = [pc EXCEPT ![s] = "rejected"]
                     \/ clients' \subseteq clients \cup {s} /\ pc' = [pc EXCEPT ![s] = "announcing"]
           /\ SendCollected(s) =>
                  /\ pc[s] \in {"announcing", "notifying"} /\ clients' = clients
                  /\ pc' = pc \/ pc' = [pc EXCEPT ![s] = "streaming"]
           /\ \A r \in Requests : SetAudioMode(s, r) =>
                  pc[s] = "streaming" /\ clients' = clients /\ pc' = [pc EXCEPT ![s] = "applying"]
           /\ SetClientMode(s) =>
                  /\ pc[s] = "applying" /\ clients' = clients
                  /\ \/ pc' = [pc EXCEPT ![s] = "notifying"]
                     \/ pc' = [pc EXCEPT ![s] = "streaming"]
           /\ SessionEnds(s) =>
                  /\ pc[s] = "streaming" /\ clients' \subseteq clients
                  /\ \/ pc' = [pc EXCEPT ![s] = "leaving"]
                     \/ pc' = [pc EXCEPT ![s] = "closed"]
           /\ SessionReadError(s) => pc[s] = "streaming" /\ clients' = clients
                                   /\ pc' = [pc EXCEPT ![s] = "closed"]
<1>1. SessionEnds(s) =>
                  /\ pc[s] = "streaming" /\ clients' \subseteq clients
                  /\ \/ pc' = [pc EXCEPT ![s] = "leaving"]
                     \/ pc' = [pc EXCEPT ![s] = "closed"]
  BY DEF SessionEnds, RemoveClient
<1>2. \A R \in SUBSET clients : RegisterClient(s, R) =>
                  /\ pc[s] = "negotiated"
                  /\ \/ clients' \subseteq clients /\ pc' = [pc EXCEPT ![s] = "rejected"]
                     \/ clients' \subseteq clients \cup {s} /\ pc' = [pc EXCEPT ![s] = "announcing"]
  BY DEF RegisterClient
<1> QED BY <1>1, <1>2 DEF HandshakeFails, ReceiveHello, SendCollected,
           SetAudioMode, SetClientMode, SessionReadError

\* A step of the handler of session s keeps the invariant.
LEMMA HandlerStepInv ==
    ASSUME ContractRegistryInv, RegistryInv', NEW s \in Sessions,
           \/ AcceptConnection(s) \/ HandshakeGivesUp(s) \/ Negotiates(s)
           \/ Registers(s) \/ SendsCollected(s) \/ ServesRequest(s)
           \/ LeavesLoop(s) \/ BreaksOff(s)
    PROVE  ContractRegistryInv'
<1>0. /\ pc \in [Sessions -> Phases] /\ conn \in [Sessions -> HandlerMachine] /\ TypeOK
      /\ s \in clients => pc[s] \notin {"idle", "negotiated", "rejected"}
      /\ clients \subseteq Sessions
  BY DEF ContractRegistryInv, RegistryInv, TypeOK, HandlerPhases
<1>a. \A m \in HandlerMachine : m.rollback_state = "MainPathActive"
  BY DEF HandlerMachine
<1>b. \A st \in {"Handshaking", "Negotiated", "Streaming", "Closed"},
         code \in FailureCodes \cup {NoFailure} :
           [state |-> st, rollback_state |-> "MainPathActive", failure_code |-> code]
               \in HandlerMachine
  BY DEF HandlerMachine
<1> USE DEF ContractRegistryInv, ConnectionFollowsHandler
<1>1. CASE AcceptConnection(s)
  <2>1. conn[s].state = "Disconnected"
    BY <1>1 DEF AcceptConnection, Contract!NewMachine
  <2>2. /\ conn' = [conn EXCEPT ![s] = [state |-> "Handshaking",
                   rollback_state |-> "MainPathActive", failure_code |-> NoFailure]]
        /\ pc' = pc /\ clients' = clients /\ pc[s] = "idle"
    <3>1. <<conn[s].state, "Handshaking">> \in
              {<<"Disconnected", "Handshaking">>, <<"Handshaking", "Negotiated">>,
               <<"Negotiated", "Streaming">>, <<"Streaming", "Closed">>}
      BY <2>1
    <3>2. conn[s].rollback_state = "MainPathActive"
      BY <1>0, <1>a
    <3>3. Contract(s)!AfterTransition(conn[s], "Handshaking") = [state |-> "Handshaking",
                   rollback_state |-> "MainPathActive", failure_code |-> NoFailure]
      BY <3>1, <3>2, TransitionTo
    <3> QED BY <1>1, <3>3 DEF AcceptConnection, ToState, regVars, sessionVars
  <2>3. conn' \in [Sessions -> HandlerMachine]
    BY <1>0, <1>b, <2>2
  <2> QED BY <1>0, <2>2, <2>3, PerSession
<1>2. CASE HandshakeGivesUp(s)
  <2>1. pc[s] = "idle" /\ clients' = clients /\ pc' = [pc EXCEPT ![s] = "closed"]
    BY <1>0, <1>2, StepFrame DEF HandshakeGivesUp
  <2>2. CASE UNCHANGED conn
    BY <1>0, <2>1, <2>2, PerSession
  <2>3. CASE conn[s].state = "Handshaking" /\ Failing(s, "HandshakeTimeout")
    <3>1. conn' = [conn EXCEPT ![s] = [state |-> "Closed",
                   rollback_state |-> "MainPathActive", failure_code |-> "HandshakeTimeout"]]
      BY <1>0, <2>3, CodesUsed, FailingTo DEF Failing
    <3>2. conn' \in [Sessions -> HandlerMachine]
      BY <1>0, <1>b, <3>1, CodesUsed
    <3> QED BY <1>0, <2>1, <3>1, <3>2, PerSession
  <2> QED BY <1>2, <2>2, <2>3 DEF HandshakeGivesUp
<1>3. CASE Negotiates(s)
  <2>1. pc[s] = "idle" /\ clients' = clients /\ pc' = [pc EXCEPT ![s] = "negotiated"]
    BY <1>0, <1>3, StepFrame DEF Negotiates
  <2>2. conn' = [conn EXCEPT ![s] = [state |-> "Negotiated",
                   rollback_state |-> "MainPathActive", failure_code |-> NoFailure]]
    <3>1. /\ conn[s].state = "Handshaking" /\ conn[s].rollback_state = "MainPathActive"
          /\ ToState(s, "Negotiated")
      BY <1>0, <1>3, <1>a DEF Negotiates
    <3>2. Contract(s)!AfterTransition(conn[s], "Negotiated") = [state |-> "Negotiated",
                   rollback_state |-> "MainPathActive", failure_code |-> NoFailure]
      BY <3>1, TransitionTo
    <3> QED BY <3>1, <3>2 DEF ToState
  <2>3. conn' \in [Sessions -> HandlerMachine]
    BY <1>0, <1>b, <2>2
  <2> QED BY <1>0, <2>1, <2>2, <2>3, PerSession
<1>4. CASE Registers(s)
  <2>1. /\ pc[s] = "negotiated"
        /\ \/ clients' \subseteq clients /\ pc' = [pc EXCEPT ![s] = "rejected"]
           \/ clients' \subseteq clients \cup {s} /\ pc' = [pc EXCEPT ![s] = "announcing"]
    BY <1>0, <1>4, StepFrame DEF Registers
  <2>2. CASE pc' = [pc EXCEPT ![s] = "announcing"]
    <3>1. conn' = conn
      BY <1>0, <1>4, <2>2 DEF Registers
    <3> QED BY <1>0, <2>1, <2>2, <3>1, PerSession
  <2>3. CASE pc' = [pc EXCEPT ![s] = "rejected"] /\ clients' \subseteq clients
    <3>1. conn' = [conn EXCEPT ![s] = [state |-> "Closed",
                   rollback_state |-> "MainPathActive", failure_code |-> "NegotiationMismatch"]]
      BY <1>0, <1>4, <2>1, <2>3, CodesUsed, FailingTo DEF Registers, Failing
    <3>2. conn' \in [Sessions -> HandlerMachine]
      BY <1>0, <1>b, <3>1, CodesUsed
    <3> QED BY <1>0, <2>1, <2>3, <3>1, <3>2, PerSession
  <2> QED BY <2>1, <2>2, <2>3
<1>5. CASE SendsCollected(s)
  <2>1. /\ pc[s] \in {"announcing", "notifying"} /\ clients' = clients
        /\ pc' = pc \/ pc' = [pc EXCEPT ![s] = "streaming"]
    BY <1>0, <1>5, StepFrame DEF SendsCollected
  <2>2. CASE pc[s] = "announcing" /\ pc'[s] = "streaming"
    <3>1. conn' = [conn EXCEPT ![s] = [state |-> "Streaming",
                   rollback_state |-> "MainPathActive", failure_code |-> NoFailure]]
      BY <1>0, <1>5, <1>a, <2>2, TransitionTo DEF SendsCollected, ToState
    <3>2. conn' \in [Sessions -> HandlerMachine]
      BY <1>0, <1>b, <3>1
    <3> QED BY <1>0, <2>1, <2>2, <3>1, <3>2, PerSession
  <2>3. CASE ~(pc[s] = "announcing" /\ pc'[s] = "streaming")
    <3>1. conn' = conn
      BY <1>5, <2>3 DEF SendsCollected
    <3> QED BY <1>0, <2>1, <2>3, <3>1, PerSession
  <2> QED BY <2>2, <2>3
<1>6. CASE ServesRequest(s)
  <2>1. /\ clients' = clients /\ conn' = conn
        /\ pc[s] \in {"streaming", "applying"}
        /\ \/ pc' = [pc EXCEPT ![s] = "applying"] \/ pc' = [pc EXCEPT ![s] = "notifying"]
           \/ pc' = [pc EXCEPT ![s] = "streaming"]
    BY <1>0, <1>6, StepFrame DEF ServesRequest
  <2> QED BY <1>0, <2>1, PerSession
<1>7. CASE LeavesLoop(s)
  <2>1. /\ pc[s] = "streaming" /\ clients' \subseteq clients
        /\ pc' = [pc EXCEPT ![s] = "leaving"] \/ pc' = [pc EXCEPT ![s] = "closed"]
    BY <1>0, <1>7, StepFrame DEF LeavesLoop
  <2>2. CASE pc'[s] = "closed"
    <3>1. conn' = [conn EXCEPT ![s] = [state |-> "Closed",
                   rollback_state |-> "MainPathActive", failure_code |-> NoFailure]]
      BY <1>0, <1>7, <1>a, <2>1, <2>2, TransitionTo DEF LeavesLoop, ToState
    <3>2. conn' \in [Sessions -> HandlerMachine]
      BY <1>0, <1>b, <3>1
    <3> QED BY <1>0, <2>1, <2>2, <3>1, <3>2, PerSession
  <2>3. CASE pc'[s] # "closed"
    <3>1. conn' = conn
      BY <1>7, <2>3 DEF LeavesLoop
    <3> QED BY <1>0, <2>1, <2>3, <3>1, PerSession
  <2> QED BY <2>2, <2>3
<1>8. CASE BreaksOff(s)
  <2>1. /\ pc[s] = "streaming" /\ clients' = clients
        /\ pc' = [pc EXCEPT ![s] = "closed"] /\ conn' = conn
    BY <1>0, <1>8, StepFrame DEF BreaksOff
  <2> QED BY <1>0, <2>1, PerSession
<1> QED BY <1>1, <1>2, <1>3, <1>4, <1>5, <1>6, <1>7, <1>8

LEMMA ContractNextInv ==
    ContractRegistryInv /\ [ContractNext]_contractVars => ContractRegistryInv'
<1> SUFFICES ASSUME ContractRegistryInv, [ContractNext]_contractVars
             PROVE  ContractRegistryInv'
  OBVIOUS
<1>0. /\ RegistryInv' /\ pc \in [Sessions -> Phases]
      /\ conn \in [Sessions -> HandlerMachine]
  BY NextInv, ContractStepIsStep DEF ContractRegistryInv, RegistryInv, TypeOK
<1>1. ASSUME NEW t \in Tasks, Departs(t)
      PROVE  ContractRegistryInv'
  <2> USE DEF ContractRegistryInv, ConnectionFollowsHandler
  <2>1. /\ clients' = clients
        /\ pc' = [s \in Sessions |-> IF s = t /\ pc[s] = "leaving" THEN "closed" ELSE pc[s]]
    BY <1>1 DEF Departs, Depart
  <2>2. CASE t \in Sessions /\ pc[t] = "leaving"
    <3>1. conn' = [conn EXCEPT ![t] = [state |-> "Closed",
                   rollback_state |-> "MainPathActive", failure_code |-> NoFailure]]
      <4>1. conn[t].state = "Streaming" /\ conn[t].rollback_state = "MainPathActive"
        BY <1>0, <2>2 DEF HandlerMachine
      <4> QED BY <1>0, <1>1, <2>2, <4>1, TransitionTo DEF Departs, ToState
    <3>2. conn' \in [Sessions -> HandlerMachine]
      BY <1>0, <3>1 DEF HandlerMachine
    <3> QED BY <1>0, <2>1, <2>2, <3>1, <3>2, PerSession
  <2>3. CASE ~(t \in Sessions /\ pc[t] = "leaving")
    <3>1. conn' = conn /\ \A s \in Sessions : pc'[s] = pc[s]
      BY <1>1, <2>1, <2>3 DEF Departs
    <3> QED BY <1>0, <2>1, <3>1, PerSession
  <2> QED BY <2>2, <2>3
<1>2. CASE (TransportStep \/ UsbAcceptStep) /\ UNCHANGED conn
  <2>1. pc' = pc /\ conn' = conn /\ clients' \subseteq clients
    BY <1>2 DEF TransportStep, UsbAcceptStep, WifiSendFails, UsbSendFails, RemoveClient,
       TakeBroadcastClients, AttachUsbStream, sessionVars
  <2> QED BY <1>0, <2>1, PerSession DEF ContractRegistryInv, ConnectionFollowsHandler
<1>3. CASE UNCHANGED contractVars
  <2>1. pc' = pc /\ conn' = conn /\ clients' = clients
    BY <1>3 DEF contractVars, regVars, sessionVars
  <2> QED BY <1>0, <2>1, PerSession DEF ContractRegistryInv, ConnectionFollowsHandler
<1> QED BY <1>0, <1>1, <1>2, <1>3, HandlerStepInv DEF ContractNext

\* In every execution the machine of a connection is where its handler is: no
\* transition handle_client asks for is refused, and no registered client has
\* a failed connection.
THEOREM HandlersFollowed == ContractSpec => []ConnectionFollowsHandler
<1>1. ContractRegistryInv => ConnectionFollowsHandler
  BY DEF ContractRegistryInv
<1> QED BY <1>1, ContractInitInv, ContractNextInv, PTL DEF ContractSpec

\* The steps of all tasks, seen from the machine of one connection, are calls
\* of the contract: what ContractSafe and ContractFinal promise holds of the
\* connections of the session server.
THEOREM HandlersKeepContract ==
    ASSUME NEW s \in Sessions
    PROVE  ContractSpec => Contract(s)!Spec
<1>1. ContractInit => Contract(s)!Init
  BY DEF ContractInit, Contract!Init, Contract!NewMachine
<1>2. ContractRegistryInv /\ [ContractNext]_contractVars
          => [Contract(s)!Next]_(conn[s])
  <2> SUFFICES ASSUME ContractRegistryInv, ContractNext, conn'[s] # conn[s]
               PROVE  Contract(s)!Next
    BY DEF contractVars
  <2>0. conn \in [Sessions -> HandlerMachine]
    BY DEF ContractRegistryInv
  <2>1. \A u \in Sessions, next \in Contract(s)!States :
            ToState(u, next) => u = s /\ Contract(s)!Transition(next)
    BY <2>0 DEF ToState, Contract!Transition
  <2>2. \A u \in Sessions, code \in FailureCodes :
            Failing(u, code) => u = s /\ Contract(s)!Fail("Closed", code)
    BY <2>0 DEF Failing, Contract!Fail
  <2>3. \/ \E u \in Sessions, next \in Contract(s)!States : ToState(u, next)
        \/ \E u \in Sessions, code \in FailureCodes : Failing(u, code)
    <3> USE CodesUsed DEF Contract!States
    <3>1. CASE \E u \in Sessions :
                   \/ AcceptConnection(u) \/ HandshakeGivesUp(u) \/ Negotiates(u)
                   \/ Registers(u) \/ SendsCollected(u) \/ ServesRequest(u)
                   \/ LeavesLoop(u) \/ BreaksOff(u)
      BY <3>1 DEF AcceptConnection, HandshakeGivesUp, Negotiates, Registers,
         SendsCollected, ServesRequest, LeavesLoop, BreaksOff
    <3>2. CASE \E t \in Tasks : Departs(t)
      BY <3>2 DEF Departs
    <3> QED BY <3>1, <3>2 DEF ContractNext
  <2>4. "Closed" \in Contract(s)!States
    BY DEF Contract!States
  <2> QED BY <2>1, <2>2, <2>3, <2>4 DEF Contract!Next
<1> QED BY <1>1, <1>2, ContractInitInv, ContractNextInv, PTL DEF ContractSpec, Contract!Spec
=============================================================================
