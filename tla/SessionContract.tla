--------------------------- MODULE SessionContract ---------------------------
(***************************************************************************)
(* The connection state machine each handler of ClientRegistry drives:     *)
(* conn_state of SessionServer::handle_client, beside the handler's steps. *)
(* A refused transition is only logged, and a handler that returns through *)
(* a "?" leaves its machine where it is.                                   *)
(***************************************************************************)
EXTENDS ClientRegistry

CONSTANTS FailureCodes, NoFailure

ASSUME CodesUsed == {"HandshakeTimeout", "NegotiationMismatch"} \subseteq FailureCodes

VARIABLE conn

Contract(s) == INSTANCE ConnectionContract WITH machine <- conn[s]

contractVars == <<regVars, conn>>

\* conn_state.transition and conn_state.fail, as the handler of s calls them.
ToState(s, next) ==
    conn' = [conn EXCEPT ![s] = Contract(s)!AfterTransition(@, next)]

Failing(s, code) ==
    conn' = [conn EXCEPT ![s] = Contract(s)!AfterFailure(@, "Closed", code)]

ContractInit ==
    /\ Init
    /\ conn = [s \in Sessions |-> Contract(s)!NewMachine]

\* The websocket is accepted: "disconnected -> handshaking is always valid".
AcceptConnection(s) ==
    /\ pc[s] = "idle"
    /\ conn[s] = Contract(s)!NewMachine
    /\ ToState(s, "Handshaking")
    /\ UNCHANGED regVars

\* Timeout and end of stream are recorded; a websocket error, a binary
\* message and a hello that does not parse are not.  An accept that fails
\* never makes a machine.
HandshakeGivesUp(s) ==
    /\ HandshakeFails(s)
    /\ \/ conn[s].state = "Handshaking" /\ Failing(s, "HandshakeTimeout")
       \/ UNCHANGED conn

Negotiates(s) ==
    /\ conn[s].state = "Handshaking"
    /\ \E h \in Hellos : ReceiveHello(s, h)
    /\ ToState(s, "Negotiated")

\* (a fault: the rejected handler streams on)
RegistersAnyway(s) ==
    /\ \E R \in SUBSET clients : RegisterClient(s, R)
    /\ IF pc'[s] = "rejected" THEN ToState(s, "Streaming") ELSE UNCHANGED conn

Registers(s) ==
    /\ \E R \in SUBSET clients : RegisterClient(s, R)
    /\ IF pc'[s] = "rejected" THEN Failing(s, "NegotiationMismatch")
                              ELSE UNCHANGED conn

\* The first visit of the message loop comes after the welcome.
SendsCollected(s) ==
    /\ SendCollected(s)
    /\ IF pc[s] = "announcing" /\ pc'[s] = "streaming"
       THEN ToState(s, "Streaming") ELSE UNCHANGED conn

ServesRequest(s) ==
    /\ (\E r \in Requests : SetAudioMode(s, r)) \/ SetClientMode(s)
    /\ UNCHANGED conn

\* The loop is left: Closed, after remove_client has returned.
LeavesLoop(s) ==
    /\ SessionEnds(s)
    /\ IF pc'[s] = "closed" THEN ToState(s, "Closed") ELSE UNCHANGED conn

Departs(t) ==
    /\ Depart(t)
    /\ IF t \in Sessions /\ pc[t] = "leaving" THEN ToState(t, "Closed")
                                              ELSE UNCHANGED conn

BreaksOff(s) == SessionReadError(s) /\ UNCHANGED conn

ContractNext ==
    \/ \E s \in Sessions :
           \/ AcceptConnection(s) \/ HandshakeGivesUp(s) \/ Negotiates(s)
           \/ Registers(s) \/ SendsCollected(s) \/ ServesRequest(s)
           \/ LeavesLoop(s) \/ BreaksOff(s)
    \/ \E t \in Tasks : Departs(t)
    \/ (TransportStep \/ UsbAcceptStep) /\ UNCHANGED conn

ContractSpec == ContractInit /\ [][ContractNext]_contractVars

\* No transition a handler asks for is ever refused (a refusal is only
\* logged): the machine says Streaming from the welcome until the client is
\* out of the registry and all its peers were told, and a registered client
\* never has a failed connection.  A handler that ends on a read error, or on
\* any other "?", leaves its machine where it was.
ConnectionFollowsHandler ==
    \A s \in Sessions :
        LET c == conn[s].state IN
        /\ pc[s] \in {"negotiated", "announcing"} => c = "Negotiated"
        /\ pc[s] \in {"streaming", "applying", "notifying", "leaving"} => c = "Streaming"
        /\ pc[s] = "rejected" => conn[s].failure_code = "NegotiationMismatch"
        /\ pc[s] = "closed" => c \in {"Disconnected", "Handshaking", "Streaming", "Closed"}
        /\ s \in clients => conn[s].failure_code = NoFailure

\* The machines handlers have: no handler reconfigures, recovers or rolls back.
HandlerMachine ==
    [state : {"Disconnected", "Handshaking", "Negotiated", "Streaming", "Closed"},
     rollback_state : {"MainPathActive"},
     failure_code : FailureCodes \cup {NoFailure}]

\* The inductive invariant behind the theorems of ClientRegistryProofs about it.
ContractRegistryInv ==
    /\ RegistryInv
    /\ conn \in [Sessions -> HandlerMachine]
    /\ \A s \in Sessions :
           /\ pc[s] = "idle" => conn[s].state \in {"Disconnected", "Handshaking"}
           /\ conn[s].failure_code # NoFailure => conn[s].state = "Closed"
    /\ ConnectionFollowsHandler
=============================================================================
