------------------------ MODULE ReverseChannelProofs ------------------------
(***************************************************************************)
(* Theorems about ReverseChannel for every number of connections, frames   *)
(* and commands, and every pair of buffer sizes of which the phone's fits  *)
(* into the server's.                                                      *)
(***************************************************************************)
EXTENDS ReverseChannel, SequenceTheorems, TLAPS

Lengths == 1..PHONE_FRAME
Serving == {"opening", "header", "payload"}

\* Every variable has its type; a command in a handler's hands or on its way
\* to the phone has been issued.
ReverseTypes ==
    /\ listening \subseteq {"audio", "control"}
    /\ stopped \in BOOLEAN /\ mic_active \in BOOLEAN /\ said_active \in BOOLEAN
    /\ issued \in 0..MAX_COMMANDS
    /\ pending_volume_command \in 0..issued
    /\ volume \in 0..issued
    /\ mic \in [Mics -> {"none", "ended"} \cup Serving]
    /\ bytes \in [Mics -> Seq(Lengths \cup {DATA})]
    /\ frames \in [Mics -> Nat] /\ announced \in [Mics -> BOOLEAN]
    /\ ctl \in [Controls -> {"none", "flush", "writing", "loop", "ended"}]
    /\ taken \in [Controls -> 0..issued]
    /\ to_phone \in [Controls -> Seq(1..issued)]
    /\ phone \in Controls \cup {0}

\* Lengths and payloads alternate.
Alternates(s) == \A i \in 1..(Len(s) - 1) : s[i] = DATA <=> s[i + 1] # DATA

\* What is left of the stream at each place of a handler, and what the phone
\* will write next: a payload when the last thing it wrote, read by now or not,
\* is a length.
StreamAt(m) ==
    /\ Alternates(bytes[m])
    /\ mic[m] \notin Serving => bytes[m] = <<>>
    /\ mic[m] \in {"opening", "header"} /\ bytes[m] # <<>> => bytes[m][1] # DATA
    /\ mic[m] = "payload" /\ bytes[m] # <<>> => bytes[m][1] = DATA
    /\ bytes[m] = <<>> => (announced[m] <=> mic[m] = "payload")
    /\ bytes[m] # <<>> => (announced[m] <=> bytes[m][Len(bytes[m])] # DATA)

Framing == \A m \in Mics : StreamAt(m)

\* A command leaves the state once and is written at most once.
HandlerCommand(c) ==
    /\ ctl[c] \in {"none", "flush", "writing"} => to_phone[c] = <<>>
    /\ taken[c] # 0 <=> ctl[c] = "writing"
    /\ Len(to_phone[c]) <= 1

\* On its way from the state to the phone that is connected, a command is newer
\* than what the phone has applied and older than what is pending.
Between(n) == volume < n /\ (pending_volume_command # 0 => n < pending_volume_command)

CommandOrder ==
    /\ \A c \in Controls : HandlerCommand(c)
    /\ pending_volume_command # 0 => volume < pending_volume_command
    /\ phone # 0 => /\ ctl[phone] # "none"
                    /\ taken[phone] # 0 => Between(taken[phone])
                    /\ to_phone[phone] # <<>> => Between(to_phone[phone][1])

\* The inductive invariant.
ReverseInv == ReverseTypes /\ Framing /\ MicFlagCleared /\ CommandOrder

-----------------------------------------------------------------------------
(* The stream of a microphone connection.                                  *)

LEMMA LengthsAreNoData == DATA \notin Lengths
BY BoundsTyped DEF DATA, Lengths

\* Each of the phone's two writes keeps what is in the stream and keeps it
\* alternating.
LEMMA ItemAppended ==
    ASSUME NEW s \in Seq(Lengths \cup {DATA}), NEW x \in Lengths \cup {DATA}, Alternates(s),
           s # <<>> => (s[Len(s)] = DATA <=> x # DATA)
    PROVE  LET t == Append(s, x) IN
           /\ t \in Seq(Lengths \cup {DATA})
           /\ t # <<>>
           /\ Alternates(t)
           /\ t[1] = IF s = <<>> THEN x ELSE s[1]
           /\ t[Len(t)] = x
<1> DEFINE t == Append(s, x)
<1>1. t \in Seq(Lengths \cup {DATA}) /\ Len(t) = Len(s) + 1 /\ Len(s) \in Nat
  OBVIOUS
<1>2. (\A i \in 1..Len(s) : t[i] = s[i]) /\ t[Len(s) + 1] = x
  OBVIOUS
<1>3. s # <<>> <=> Len(s) >= 1
  BY <1>1, EmptySeq
<1> HIDE DEF t
<1>5. ASSUME NEW i \in 1..(Len(t) - 1) PROVE t[i] = DATA <=> t[i + 1] # DATA
  <2>1. CASE i < Len(s)
    BY <1>1, <1>2, <2>1 DEF Alternates
  <2>2. CASE i = Len(s)
    BY <1>1, <1>2, <1>3, <2>2
  <2> QED BY <1>1, <2>1, <2>2
<1>6. Alternates(t)
  BY <1>5 DEF Alternates
<1>7. t[1] = IF s = <<>> THEN x ELSE s[1]
  BY <1>1, <1>2, <1>3
<1>8. t # <<>> /\ t[Len(t)] = x
  BY <1>1, <1>2
<1> QED BY <1>1, <1>6, <1>7, <1>8 DEF t

\* Reading one item of an alternating stream leaves one that starts with the
\* other kind and ends as before.
LEMMA ItemRead ==
    ASSUME NEW s \in Seq(Lengths \cup {DATA}), Alternates(s), s # <<>>
    PROVE  /\ Tail(s) \in Seq(Lengths \cup {DATA})
           /\ Alternates(Tail(s))
           /\ Tail(s) # <<>> => (Tail(s)[1] = DATA <=> s[1] # DATA)
           /\ Tail(s) # <<>> => Tail(s)[Len(Tail(s))] = s[Len(s)]
           /\ Tail(s) = <<>> => s[Len(s)] = s[1]
           /\ Head(s) = s[1]
<1> DEFINE t == Tail(s)
<1>1. t \in Seq(Lengths \cup {DATA}) /\ Len(t) = Len(s) - 1 /\ Len(s) \in Nat \ {0}
  OBVIOUS
<1>2. \A i \in 1..Len(t) : t[i] = s[i + 1]
  OBVIOUS
<1>3. t = <<>> <=> Len(t) = 0
  BY <1>1, EmptySeq
<1>4. Head(s) = s[1]
  OBVIOUS
<1> HIDE DEF t
<1>5. Alternates(t)
  <2>1. ASSUME NEW i \in 1..(Len(t) - 1) PROVE t[i] = DATA <=> t[i + 1] # DATA
    BY <1>1, <1>2, <2>1 DEF Alternates
  <2> QED BY <2>1 DEF Alternates
<1>6. t # <<>> => (t[1] = DATA <=> s[1] # DATA)
  BY <1>1, <1>2, <1>3 DEF Alternates
<1>7. t # <<>> => t[Len(t)] = s[Len(s)]
  BY <1>1, <1>2, <1>3
<1>8. t = <<>> => s[Len(s)] = s[1]
  BY <1>1, <1>3
<1> QED BY <1>1, <1>4, <1>5, <1>6, <1>7, <1>8 DEF t

\* A step that changes the stream of connection m only.
LEMMA OtherStreams ==
    ASSUME ReverseTypes, Framing, NEW m \in Mics, StreamAt(m)',
           \A k \in Mics \ {m} : /\ mic'[k] = mic[k] /\ bytes'[k] = bytes[k]
                                 /\ announced'[k] = announced[k]
    PROVE  Framing'
BY DEF Framing, StreamAt

LEMMA FramingStep ==
    ASSUME ReverseInv, NEW m \in Mics, MicStep(m)
    PROVE  Framing' /\ bytes' \in [Mics -> Seq(Lengths \cup {DATA})]
<1> USE DEF ReverseInv, ReverseTypes
<1>0. StreamAt(m)
  BY DEF Framing
<1>a. Alternates(<<>>)
  BY DEF Alternates
<1>1. CASE AcceptMic(m)
  <2>1. StreamAt(m)'
    BY <1>0, <1>1 DEF AcceptMic, StreamAt, Serving
  <2> QED BY <1>1, <2>1, OtherStreams DEF AcceptMic
<1>2. CASE OpenPipe(m)
  <2>1. StreamAt(m)'
    BY <1>0, <1>2 DEF OpenPipe, StreamAt, Serving
  <2> QED BY <1>2, <2>1, OtherStreams DEF OpenPipe
<1>b. ASSUME NEW x \in Lengths \cup {DATA}, bytes' = [bytes EXCEPT ![m] = Append(@, x)],
             announced' = [announced EXCEPT ![m] = (x # DATA)], mic' = mic, mic[m] \in Serving,
             announced[m] <=> x = DATA
      PROVE  Framing' /\ bytes' \in [Mics -> Seq(Lengths \cup {DATA})]
  <2> DEFINE t == Append(bytes[m], x)
  <2>1. /\ t \in Seq(Lengths \cup {DATA})
        /\ t # <<>>
        /\ Alternates(t)
        /\ t[1] = IF bytes[m] = <<>> THEN x ELSE bytes[m][1]
        /\ t[Len(t)] = x
    <3>1. bytes[m] # <<>> => (bytes[m][Len(bytes[m])] = DATA <=> x # DATA)
      BY <1>0, <1>b DEF StreamAt
    <3>2. bytes[m] \in Seq(Lengths \cup {DATA}) /\ Alternates(bytes[m])
      BY <1>0 DEF StreamAt
    <3> QED BY <3>1, <3>2, ItemAppended, ZenonT(30)
  <2>2. bytes' = [bytes EXCEPT ![m] = t]
    BY <1>b
  <2> HIDE DEF t
  <2>3. bytes'[m] = t /\ announced'[m] = (x # DATA) /\ mic'[m] = mic[m]
    BY <1>b, <2>2
  <2>4. mic[m] \in {"opening", "header"} => t[1] # DATA
    BY <1>0, <1>b, <2>1 DEF StreamAt
  <2>5. mic[m] = "payload" => t[1] = DATA
    BY <1>0, <1>b, <2>1 DEF StreamAt
  <2>6. StreamAt(m)'
    BY <1>b, <2>1, <2>3, <2>4, <2>5 DEF StreamAt
  <2> QED BY <1>b, <2>1, <2>2, <2>6, OtherStreams
<1>3. ASSUME NEW n \in Lengths, PhoneSendsLength(m, n)
      PROVE  Framing' /\ bytes' \in [Mics -> Seq(Lengths \cup {DATA})]
  <2>1. n # DATA /\ n \in Lengths \cup {DATA}
    BY LengthsAreNoData
  <2>2. announced' = [announced EXCEPT ![m] = (n # DATA)] /\ (announced[m] <=> n = DATA)
    BY <1>3, <2>1 DEF PhoneSendsLength
  <2> QED BY <1>3, <1>b, <2>1, <2>2 DEF PhoneSendsLength, Serving
<1>7. CASE PhoneSendsPayload(m)
  <2>1. /\ bytes' = [bytes EXCEPT ![m] = Append(@, DATA)] /\ mic' = mic /\ mic[m] \in Serving
        /\ announced[m]
        /\ announced' = [announced EXCEPT ![m] = (DATA # DATA)]
    BY <1>7 DEF PhoneSendsPayload, Serving
  <2> QED BY <1>b, <2>1
<1>4. CASE ReadHeader(m)
  <2> DEFINE t == Tail(bytes[m])
  <2>1. /\ bytes' = [bytes EXCEPT ![m] = t] /\ mic[m] = "header" /\ bytes[m] # <<>>
        /\ announced' = announced
    BY <1>4 DEF ReadHeader
  <2>2. /\ t \in Seq(Lengths \cup {DATA})
        /\ Alternates(t)
        /\ t # <<>> => (t[1] = DATA <=> bytes[m][1] # DATA)
        /\ t # <<>> => t[Len(t)] = bytes[m][Len(bytes[m])]
        /\ t = <<>> => bytes[m][Len(bytes[m])] = bytes[m][1]
        /\ Head(bytes[m]) = bytes[m][1]
    BY <1>0, <2>1, ItemRead DEF StreamAt
  <2>3. bytes[m][1] # DATA /\ bytes[m][1] \in Lengths
    BY <1>0, <2>1 DEF StreamAt
  <2>4. ValidLength(Head(bytes[m]))
    BY <2>2, <2>3, FrameFits, BoundsTyped DEF ValidLength, Lengths
  <2>5. mic' = [mic EXCEPT ![m] = "payload"]
    BY <1>4, <2>2, <2>3, <2>4 DEF ReadHeader
  <2> HIDE DEF t
  <2>6. StreamAt(m)'
    <3>1. bytes'[m] = t /\ mic'[m] = "payload" /\ announced'[m] = announced[m]
      BY <2>1, <2>5
    <3>2. announced[m] <=> bytes[m][Len(bytes[m])] # DATA
      BY <1>0, <2>1 DEF StreamAt
    <3> QED BY <2>2, <2>3, <3>1, <3>2 DEF StreamAt, Serving
  <2> QED BY <2>1, <2>2, <2>5, <2>6, OtherStreams
<1>5. CASE ReadPayload(m)
  <2> DEFINE t == Tail(bytes[m])
  <2>1. /\ bytes' = [bytes EXCEPT ![m] = t] /\ mic[m] = "payload" /\ bytes[m] # <<>>
        /\ mic' = [mic EXCEPT ![m] = "header"] /\ announced' = announced
    BY <1>5 DEF ReadPayload
  <2>2. bytes[m][1] = DATA
    BY <1>0, <2>1 DEF StreamAt
  <2>3. /\ t \in Seq(Lengths \cup {DATA})
        /\ Alternates(t)
        /\ t # <<>> => t[1] # DATA
        /\ t # <<>> => t[Len(t)] = bytes[m][Len(bytes[m])]
        /\ t = <<>> => bytes[m][Len(bytes[m])] = bytes[m][1]
    BY <1>0, <2>1, <2>2, ItemRead DEF StreamAt
  <2> HIDE DEF t
  <2>4. StreamAt(m)'
    <3>1. bytes'[m] = t /\ mic'[m] = "header" /\ announced'[m] = announced[m]
      BY <2>1
    <3>2. announced[m] <=> bytes[m][Len(bytes[m])] # DATA
      BY <1>0, <2>1 DEF StreamAt
    <3> QED BY <2>2, <2>3, <3>1, <3>2 DEF StreamAt, Serving
  <2> QED BY <2>1, <2>3, <2>4, OtherStreams
<1>6. CASE MicTold(m) \/ MicBreaks(m)
  <2>1. /\ mic' = [mic EXCEPT ![m] = "ended"] /\ bytes' = [bytes EXCEPT ![m] = <<>>]
        /\ announced' = [announced EXCEPT ![m] = FALSE]
    BY <1>6 DEF MicTold, MicBreaks, MicEnds
  <2>2. StreamAt(m)'
    <3>1. bytes'[m] = <<>> /\ mic'[m] = "ended" /\ announced'[m] = FALSE
      BY <2>1
    <3> QED BY <1>a, <3>1 DEF StreamAt, Serving
  <2>3. Framing'
    BY <2>1, <2>2, OtherStreams
  <2>4. <<>> \in Seq(Lengths \cup {DATA})
    BY EmptySeq
  <2>5. bytes \in [Mics -> Seq(Lengths \cup {DATA})]
    OBVIOUS
  <2> QED BY <2>1, <2>3, <2>4, <2>5, Zenon
<1> QED BY <1>1, <1>2, <1>3, <1>4, <1>5, <1>6, <1>7 DEF MicStep, Lengths

-----------------------------------------------------------------------------
(* The steps of a microphone connection.                                   *)

LEMMA MicStepPreserves ==
    ASSUME ReverseInv, NEW m \in Mics, MicStep(m)
    PROVE  ReverseInv'
<1> USE DEF ReverseInv
<1>0. Framing' /\ bytes' \in [Mics -> Seq(Lengths \cup {DATA})]
  BY FramingStep
<1>1. CommandOrder' /\ UNCHANGED <<stopped, pending_volume_command, ctlVars, issued>>
  <2>1. UNCHANGED <<stopped, pending_volume_command, ctlVars, issued>>
    BY DEF MicStep, AcceptMic, OpenPipe, ReadHeader, ReadPayload, MicTold, MicBreaks, MicEnds,
           PhoneSendsLength, PhoneSendsPayload
  <2> QED BY <2>1 DEF CommandOrder, HandlerCommand, Between, ctlVars
<1>2. /\ mic' \in [Mics -> {"none", "ended"} \cup Serving]
      /\ frames' \in [Mics -> Nat] /\ announced' \in [Mics -> BOOLEAN]
      /\ listening' \subseteq {"audio", "control"}
      /\ mic_active' \in BOOLEAN /\ said_active' \in BOOLEAN
  <2> USE DEF ReverseTypes, Serving, sharedVars
  <2>1. CASE AcceptMic(m)
    BY <2>1 DEF AcceptMic, AfterAccept
  <2>2. CASE OpenPipe(m) \/ ReadHeader(m) \/ ReadPayload(m)
    <3>1. \E p \in Serving : mic' = [mic EXCEPT ![m] = p]
      BY <2>2 DEF OpenPipe, ReadHeader, ReadPayload
    <3>2. UNCHANGED <<listening, sharedVars, frames, announced>>
      BY <2>2 DEF OpenPipe, ReadHeader, ReadPayload
    <3> QED BY <3>1, <3>2
  <2>3. CASE MicTold(m) \/ MicBreaks(m)
    <3>1. /\ mic' = [mic EXCEPT ![m] = "ended"] /\ frames' = [frames EXCEPT ![m] = 0]
          /\ announced' = [announced EXCEPT ![m] = FALSE]
          /\ UNCHANGED listening
      BY <2>3 DEF MicTold, MicBreaks, MicEnds
    <3>2. mic_active' = FALSE /\ said_active' = FALSE
      BY <2>3 DEF MicTold, MicBreaks, MicEnds
    <3> QED BY <3>1, <3>2
  <2>4. ASSUME NEW n \in 1..PHONE_FRAME, PhoneSendsLength(m, n)
        PROVE  /\ mic' = mic /\ listening' = listening /\ UNCHANGED sharedVars
               /\ frames' \in [Mics -> Nat] /\ announced' \in [Mics -> BOOLEAN]
    BY <2>4 DEF PhoneSendsLength
  <2>5. CASE PhoneSendsPayload(m)
    BY <2>5 DEF PhoneSendsPayload
  <2> QED BY <2>1, <2>2, <2>3, <2>4, <2>5 DEF MicStep
<1>3. ReverseTypes'
  BY <1>0, <1>1, <1>2 DEF ReverseTypes, ctlVars
<1>4. MicFlagCleared'
  <2>1. CASE MicTold(m) \/ MicBreaks(m)
    BY <2>1 DEF MicFlagCleared, MicTold, MicBreaks, MicEnds
  <2>2. CASE AcceptMic(m)
    BY <2>2 DEF MicFlagCleared, AcceptMic, ReverseTypes
  <2>3. CASE UNCHANGED sharedVars /\ \A k \in Mics : mic[k] \in Serving => mic'[k] \in Serving
    BY <2>3 DEF MicFlagCleared, Serving, sharedVars
  <2>4. CASE OpenPipe(m) \/ ReadHeader(m) \/ ReadPayload(m)
    BY <2>3, <2>4 DEF OpenPipe, ReadHeader, ReadPayload, Serving, ReverseTypes
  <2>5. CASE PhoneSendsPayload(m) \/ \E n \in 1..PHONE_FRAME : PhoneSendsLength(m, n)
    BY <2>3, <2>5 DEF PhoneSendsLength, PhoneSendsPayload
  <2> QED BY <2>1, <2>2, <2>4, <2>5 DEF MicStep
<1> QED BY <1>0, <1>1, <1>3, <1>4

-----------------------------------------------------------------------------
(* The steps of a control connection.                                      *)

\* A sequence of one item.
LEMMA OneItem ==
    ASSUME NEW S, NEW s \in Seq(S), s # <<>>, Len(s) <= 1
    PROVE  Len(s) = 1 /\ Head(s) = s[1] /\ s[1] \in S /\ Tail(s) = <<>>
<1>0. Len(s) \in Nat /\ Len(s) # 0
  BY EmptySeq, LenProperties
<1>1. Len(s) = 1
  BY <1>0
<1>2. Tail(s) \in Seq(S) /\ Len(Tail(s)) = 0
  BY <1>1
<1>3. Tail(s) = <<>>
  BY <1>2, EmptySeq
<1> QED BY <1>1, <1>3

LEMMA ControlStepPreserves ==
    ASSUME ReverseInv, NEW c \in Controls, ControlStep(c)
    PROVE  ReverseInv' /\ volume' >= volume
<1> USE DEF ReverseInv
<1>0. 0 \notin Controls /\ issued \in Nat
  BY ConnectionsNumbered, BoundsTyped DEF ReverseTypes
<1>1. UNCHANGED <<stopped, micVars, issued>>
  BY DEF ControlStep, PhoneConnects, TakePending, WriteFails, WriteCommand, PhoneApplies,
         PhoneLeaves, ControlEnds, ReadMicActive, ctlVars
<1>2. Framing'
  BY <1>1 DEF Framing, StreamAt, micVars
<1>3. CASE PhoneConnects(c)
  <2> USE <1>3 DEF PhoneConnects, sharedVars
  <2>1. ReverseTypes'
    BY <1>1 DEF ReverseTypes, AfterAccept, micVars
  <2>2. CommandOrder'
    BY <1>0 DEF CommandOrder, HandlerCommand, ReverseTypes
  <2> QED BY <1>1, <1>2, <2>1, <2>2 DEF MicFlagCleared, micVars, ReverseTypes
<1>4. CASE TakePending(c)
  <2> USE <1>4 DEF TakePending, sharedVars
  <2>1. ReverseTypes'
    BY <1>1 DEF ReverseTypes, micVars
  <2>2. \A d \in Controls : HandlerCommand(d)'
    BY DEF CommandOrder, HandlerCommand, ReverseTypes
  <2>3. phone # 0 => /\ ctl'[phone] # "none"
                     /\ taken'[phone] # 0 => volume < taken'[phone]
                     /\ to_phone[phone] # <<>> => volume < to_phone[phone][1]
    BY <1>0 DEF CommandOrder, HandlerCommand, Between, ReverseTypes
  <2>4. CommandOrder'
    BY <2>2, <2>3 DEF CommandOrder, Between
  <2> QED BY <1>1, <1>2, <2>1, <2>4 DEF MicFlagCleared, micVars, ReverseTypes
<1>5. CASE WriteFails(c)
  <2> USE <1>5 DEF WriteFails, sharedVars
  <2>1. ReverseTypes'
    BY <1>0, <1>1 DEF ReverseTypes, micVars
  <2>2. CommandOrder'
    BY <1>0 DEF CommandOrder, HandlerCommand, Between, ReverseTypes
  <2> QED BY <1>1, <1>2, <2>1, <2>2 DEF MicFlagCleared, micVars, ReverseTypes
<1>6. CASE WriteCommand(c)
  <2> USE <1>6 DEF WriteCommand, sharedVars
  <2>0. taken[c] \in 1..issued /\ to_phone[c] = <<>>
    BY <1>0 DEF CommandOrder, HandlerCommand, ReverseTypes
  <2>1. to_phone' = [to_phone EXCEPT ![c] = <<taken[c]>>]
    BY <2>0
  <2>2. ReverseTypes'
    BY <1>0, <1>1, <2>0, <2>1 DEF ReverseTypes, micVars
  <2>3. \A d \in Controls : HandlerCommand(d)'
    BY <2>0, <2>1 DEF CommandOrder, HandlerCommand, ReverseTypes
  <2>4. phone # 0 => /\ ctl'[phone] # "none"
                     /\ taken'[phone] # 0 => Between(taken'[phone])
                     /\ to_phone'[phone] # <<>> => Between(to_phone'[phone][1])
    BY <1>0, <2>0, <2>1 DEF CommandOrder, ReverseTypes
  <2>5. CommandOrder'
    BY <2>3, <2>4 DEF CommandOrder, Between
  <2> QED BY <1>1, <1>2, <2>2, <2>5 DEF MicFlagCleared, micVars, ReverseTypes
<1>7. CASE PhoneApplies(c)
  <2> USE <1>7 DEF PhoneApplies, sharedVars
  <2>0. /\ phone = c /\ phone # 0
        /\ Len(to_phone[c]) = 1
        /\ Tail(to_phone[c]) = <<>>
        /\ Head(to_phone[c]) = to_phone[c][1]
        /\ to_phone[c][1] \in 1..issued
    <3>1. phone = c /\ phone # 0 /\ to_phone[c] # <<>> /\ Len(to_phone[c]) <= 1
      BY <1>0 DEF CommandOrder, HandlerCommand
    <3>2. to_phone[c] \in Seq(1..issued)
      BY DEF ReverseTypes
    <3> QED BY <3>1, <3>2, OneItem
  <2>1. volume' = to_phone[c][1] /\ to_phone' = [to_phone EXCEPT ![c] = <<>>]
    BY <2>0
  <2>2. volume < to_phone[c][1]
    BY <2>0 DEF CommandOrder, Between
  <2>3. ReverseTypes'
    BY <1>0, <1>1, <2>0, <2>1 DEF ReverseTypes, micVars
  <2>4. \A d \in Controls : HandlerCommand(d)'
    BY <2>0, <2>1 DEF CommandOrder, HandlerCommand, ReverseTypes
  <2>5. taken[c] = 0
    BY DEF CommandOrder, HandlerCommand
  <2>6. CommandOrder'
    BY <2>0, <2>1, <2>4, <2>5 DEF CommandOrder, Between, ReverseTypes
  <2> QED BY <1>0, <1>1, <1>2, <2>0, <2>1, <2>2, <2>3, <2>6 DEF MicFlagCleared, micVars, ReverseTypes
<1>8. CASE PhoneLeaves(c)
  <2> USE <1>8 DEF PhoneLeaves, sharedVars
  <2>1. ReverseTypes'
    BY <1>1 DEF ReverseTypes, micVars
  <2>2. CommandOrder'
    BY DEF CommandOrder, HandlerCommand, ReverseTypes
  <2> QED BY <1>1, <1>2, <2>1, <2>2 DEF MicFlagCleared, micVars, ReverseTypes
<1>9. CASE ControlEnds(c)
  <2> USE <1>9 DEF ControlEnds, sharedVars
  <2>1. ReverseTypes'
    BY <1>1 DEF ReverseTypes, micVars
  <2>2. CommandOrder'
    BY DEF CommandOrder, HandlerCommand, Between, ReverseTypes
  <2> QED BY <1>1, <1>2, <2>1, <2>2 DEF MicFlagCleared, micVars, ReverseTypes
<1>10. ASSUME NEW active \in BOOLEAN, ReadMicActive(c, active)
       PROVE  ReverseInv' /\ volume' >= volume
  <2> USE <1>10 DEF ReadMicActive, ctlVars
  <2>1. ReverseTypes'
    BY <1>1 DEF ReverseTypes, micVars
  <2>2. CommandOrder'
    BY DEF CommandOrder, HandlerCommand, Between
  <2> QED BY <1>1, <1>2, <2>1, <2>2 DEF MicFlagCleared, ReverseTypes
<1> QED BY <1>3, <1>4, <1>5, <1>6, <1>7, <1>8, <1>9, <1>10 DEF ControlStep

-----------------------------------------------------------------------------
(* The theorems.                                                           *)

LEMMA ReverseInit == Init => ReverseInv
<1> SUFFICES ASSUME Init PROVE ReverseInv
  OBVIOUS
<1>1. ReverseTypes
  <2>1. /\ bytes \in [Mics -> Seq(Lengths \cup {DATA})]
        /\ to_phone \in [Controls -> Seq(1..issued)]
    BY DEF Init
  <2>2. 0 \in 0..MAX_COMMANDS /\ 0 \in 0..issued /\ issued \in 0..MAX_COMMANDS
    BY BoundsTyped DEF Init
  <2>3. /\ mic \in [Mics -> {"none", "ended"} \cup Serving]
        /\ ctl \in [Controls -> {"none", "flush", "writing", "loop", "ended"}]
        /\ frames \in [Mics -> Nat] /\ announced \in [Mics -> BOOLEAN]
        /\ taken \in [Controls -> 0..issued]
    BY <2>2 DEF Init
  <2> QED BY <2>1, <2>2, <2>3 DEF Init, ReverseTypes
<1>2. Framing
  <2>1. Alternates(<<>>)
    BY DEF Alternates
  <2> QED BY <2>1 DEF Init, Framing, StreamAt, Serving
<1>3. CommandOrder
  BY DEF Init, CommandOrder, HandlerCommand
<1> QED BY <1>1, <1>2, <1>3 DEF Init, ReverseInv, MicFlagCleared

LEMMA ReverseStep ==
    ASSUME ReverseInv, [Next]_vars
    PROVE  ReverseInv' /\ (volume' >= volume)
<1>0. volume >= volume
  BY BoundsTyped DEF ReverseInv, ReverseTypes
<1>1. CASE Stop
  <2>1. ReverseTypes'
    BY <1>1 DEF ReverseInv, ReverseTypes, Stop, micVars, ctlVars
  <2>2. Framing' /\ CommandOrder' /\ MicFlagCleared'
    BY <1>1 DEF ReverseInv, Framing, StreamAt, CommandOrder, HandlerCommand, Between,
                MicFlagCleared, Stop, micVars, ctlVars
  <2> QED BY <1>0, <1>1, <2>1, <2>2 DEF ReverseInv, Stop, ctlVars
<1>2. CASE QueueVolume
  <2> USE <1>2 DEF ReverseInv, QueueVolume, micVars, ctlVars, sharedVars
  <2>0. issued \in Nat /\ issued' = issued + 1 /\ issued' \in 0..MAX_COMMANDS
    BY BoundsTyped DEF ReverseTypes
  <2>1. \A n \in 0..issued : n \in 0..issued' /\ n < issued'
    BY <2>0
  <2>2. to_phone \in [Controls -> Seq(1..issued')]
    <3>1. \A s \in Seq(1..issued) : s \in Seq(1..issued')
      BY <2>0
    <3> QED BY <3>1 DEF ReverseTypes
  <2>3. ReverseTypes'
    BY <2>0, <2>1, <2>2 DEF ReverseTypes
  <2>4. phone # 0 => /\ taken[phone] \in 0..issued
                     /\ to_phone[phone] # <<>> => to_phone[phone][1] \in 0..issued
    BY <2>0 DEF ReverseTypes
  <2>5. CommandOrder'
    BY <2>0, <2>1, <2>4 DEF CommandOrder, HandlerCommand, Between, ReverseTypes
  <2>6. Framing' /\ MicFlagCleared'
    BY DEF Framing, StreamAt, MicFlagCleared
  <2> QED BY <1>0, <2>3, <2>5, <2>6
<1>3. ASSUME NEW m \in Mics, MicStep(m) PROVE ReverseInv' /\ volume' >= volume
  <2>1. volume' = volume
    BY <1>3 DEF MicStep, AcceptMic, OpenPipe, ReadHeader, ReadPayload, MicTold, MicBreaks, MicEnds,
                PhoneSendsLength, PhoneSendsPayload, ctlVars
  <2> QED BY <1>0, <1>3, <2>1, MicStepPreserves
<1>4. ASSUME NEW c \in Controls, ControlStep(c) PROVE ReverseInv' /\ volume' >= volume
  BY <1>4, ControlStepPreserves
<1>5. CASE UNCHANGED vars
  BY <1>0, <1>5 DEF ReverseInv, ReverseTypes, Framing, StreamAt, CommandOrder, HandlerCommand, Between,
                    MicFlagCleared, vars, micVars, ctlVars, sharedVars
<1> QED BY <1>1, <1>2, <1>3, <1>4, <1>5 DEF Next

\* The invariant of the reverse channel (reverse_channel.rs: the handlers of both
\* listeners and ReverseChannelState).
THEOREM ReverseInvariant == Spec => []ReverseInv
BY ReverseInit, ReverseStep, PTL DEF Spec

\* handle_audio_client never takes a payload for a length, for any frame that
\* fits into the phone's buffer and any pause between its two writes.
THEOREM FramingNeverLost == Spec => []FramingKept
<1>1. ASSUME ReverseInv PROVE FramingKept
  <2> SUFFICES ASSUME NEW m \in Mics
               PROVE  /\ mic[m] = "header" /\ bytes[m] # <<>> => Head(bytes[m]) # DATA
                      /\ mic[m] = "payload" =>
                           IF bytes[m] = <<>> THEN announced[m] ELSE Head(bytes[m]) = DATA
    BY DEF FramingKept
  <2>1. bytes[m] # <<>> => Head(bytes[m]) = bytes[m][1]
    BY <1>1 DEF ReverseInv, ReverseTypes
  <2> QED BY <1>1, <2>1 DEF ReverseInv, Framing, StreamAt
<1> QED BY <1>1, ReverseInvariant, PTL

\* mic_active without a handler that serves a microphone is a control message's.
THEOREM MicFlagFollowsHandlers == Spec => []MicFlagCleared
BY ReverseInvariant, PTL DEF ReverseInv

\* The phone's volume never goes back to an older command, whatever the handlers
\* of connections it has left still hold (pending_volume_command.take()).
THEOREM VolumeNeverReverts == Spec => CommandsInOrder
BY ReverseInvariant, ReverseStep, PTL DEF Spec, CommandsInOrder
=============================================================================
