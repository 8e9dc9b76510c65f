------------------------- MODULE ConnectionContract -------------------------
(***************************************************************************)
(* ConnectionStateMachine of lan_audio_domain: the contract every          *)
(* connection of the system promises to keep.  Its owner may call          *)
(* transition, fail and force_rollback in any order; a call the contract   *)
(* does not allow returns an error and changes nothing.                    *)
(***************************************************************************)
CONSTANTS FailureCodes, NoFailure

VARIABLE machine

States == {"Disconnected", "Handshaking", "Negotiated", "Streaming",
           "Reconfiguring", "Recovering", "Closed"}

RollbackStates == {"MainPathActive", "ReconfiguringToLegacyLas1Pcm16",
                   "ForcedLegacyLas1Pcm16"}

Machine == [state : States, rollback_state : RollbackStates,
            failure_code : FailureCodes \cup {NoFailure}]

\* is_allowed_transition, as the set of states each state may be followed by.
Allowed ==
    [Disconnected  |-> {"Handshaking", "Closed"},
     Handshaking   |-> {"Negotiated", "Recovering", "Closed"},
     Negotiated    |-> {"Streaming", "Reconfiguring", "Recovering", "Closed"},
     Streaming     |-> {"Reconfiguring", "Recovering", "Closed"},
     Reconfiguring |-> {"Negotiated", "Streaming", "Recovering", "Closed"},
     Recovering    |-> {"Handshaking", "Negotiated", "Streaming", "Closed"},
     Closed        |-> {}]

\* ConnectionStateMachine::default
NewMachine == [state |-> "Disconnected", rollback_state |-> "MainPathActive",
               failure_code |-> NoFailure]

\* transition: a machine that was falling back has fallen back as soon as it
\* is negotiated again.
AfterTransition(m, next) ==
    IF next \notin Allowed[m.state] THEN m
    ELSE [state |-> next,
          rollback_state |->
              IF /\ m.rollback_state = "ReconfiguringToLegacyLas1Pcm16"
                 /\ next \in {"Negotiated", "Streaming"}
              THEN "ForcedLegacyLas1Pcm16" ELSE m.rollback_state,
          failure_code |-> NoFailure]

\* fail
AfterFailure(m, next, code) ==
    IF next \notin {"Recovering", "Closed"} \cap Allowed[m.state] THEN m
    ELSE [m EXCEPT !.state = next, !.failure_code = code]

\* force_rollback: from every state but Closed, whatever Allowed says.
AfterRollback(m) ==
    IF m.state = "Closed" THEN m
    ELSE [state |-> "Handshaking", failure_code |-> NoFailure,
          rollback_state |-> "ReconfiguringToLegacyLas1Pcm16"]

Init == machine = NewMachine

Transition(next) == machine' = AfterTransition(machine, next)
Fail(next, code) == machine' = AfterFailure(machine, next, code)
ForceRollback == machine' = AfterRollback(machine)

Next == \/ \E next \in States : Transition(next)
        \/ \E next \in States, code \in FailureCodes : Fail(next, code)
        \/ ForceRollback

Spec == Init /\ [][Next]_machine

\* Whatever its owner calls: a negotiated or streaming connection is not in
\* the middle of a rollback, and a failure code is only ever seen on a
\* connection that is recovering or closed.
ContractInv ==
    /\ machine \in Machine
    /\ machine.state \in {"Negotiated", "Streaming"} =>
           machine.rollback_state # "ReconfiguringToLegacyLas1Pcm16"
    /\ machine.failure_code # NoFailure =>
           machine.state \in {"Recovering", "Closed"}

\* Closed is final, and a connection that was told to leave the main path
\* never returns to it.
ContractStep ==
    [][/\ machine.state = "Closed" => machine' = machine
       /\ machine.rollback_state # "MainPathActive" =>
              machine'.rollback_state # "MainPathActive"]_machine
=============================================================================
