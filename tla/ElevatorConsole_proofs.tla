----------------------- MODULE ElevatorConsole_proofs -----------------------
(***************************************************************************)
(* Proofs about ElevatorConsole, for every number of floors and every      *)
(* length of a byte.                                                       *)
(***************************************************************************)
EXTENDS ElevatorConsole, TLAPS

\* What one clock edge does to a transmitter.
LEMMA Transmitter ==
  ASSUME NEW tx, NEW S, NEW start \in BOOLEAN, NEW data \in S,
         tx \in [left : 0 .. BYTE_CYCLES, done : BOOLEAN, byte : S]
  PROVE  LET new == UART_TX(tx, start, data)
         IN  /\ new \in [left : 0 .. BYTE_CYCLES, done : BOOLEAN, byte : S]
             /\ tx.left > 0 => new.left = tx.left - 1 /\ new.byte = tx.byte
             /\ tx.left = 0 /\ start => /\ new.left = BYTE_CYCLES
                                        /\ new.byte = data
             /\ tx.left = 0 => ~new.done
             /\ tx.left = 0 /\ ~start => /\ new.left = 0
                                         /\ new.byte = tx.byte
  <1>1. CASE tx.left > 0
    BY <1>1, NumbersAssumption DEF UART_TX, ACTIVE
  <1>2. CASE tx.left = 0 /\ start
    BY <1>2, NumbersAssumption DEF UART_TX, ACTIVE
  <1>3. CASE tx.left = 0 /\ ~start
    BY <1>3, NumbersAssumption DEF UART_TX, ACTIVE
  <1> QED BY <1>1, <1>2, <1>3

-----------------------------------------------------------------------------
(* Type correctness, action by action.                                     *)

Parsers == [state : States, floor : 0 .. WIDTH - 1]
Strobes == {"none", "error", "up", "down"}

LEMMA ParserType ==
  ASSUME TypeOK, NEW b \in Bytes \cup {NoByte}, CMD_PARSER(b)
  PROVE  /\ parser' \in Parsers /\ strobe' \in Strobes
         /\ FLOOR_ADDR' \in 0 .. WIDTH - 1
         /\ strobe' = "up" => FLOOR_ADDR' \in 1 .. MAX_FLOOR - 1
         /\ strobe' = "down" => FLOOR_ADDR' \in 2 .. MAX_FLOOR
  <1> USE NumbersAssumption
  <1>0. parser \in Parsers /\ FLOOR_REG \in 0 .. WIDTH - 1
    BY DEF TypeOK, Parsers, FLOOR_REG
  <1>1. CASE Goes(parser.state, FLOOR_REG, "none")
    BY <1>0, <1>1 DEF Goes, Parsers, Strobes, CMD_PARSER, TypeOK
  <1>2. CASE b \in Typed /\ Digit(b)
    <2>1. PICK d \in Digits : b = ASCII_0 + d
      BY <1>2 DEF Typed
    <2>2. b - ASCII_0 = d /\ d \in 0 .. WIDTH - 1
      BY <2>1 DEF ASCII_0
    <2>3. (FLOOR_REG * 10 + b - ASCII_0) % WIDTH \in 0 .. WIDTH - 1
      <3>1. FLOOR_REG * 10 + b - ASCII_0 \in Int
        BY <1>0, <2>1 DEF ASCII_0
      <3> QED BY <3>1
    <2>4. parser' \in Parsers /\ strobe' \in {"none", "error"}
      BY <1>2, <2>2, <2>3 DEF Digit, Goes, Parsers, States
    <2> QED BY <2>4 DEF CMD_PARSER, Strobes, TypeOK
  <1>3. CASE Letter(b)
    <2>1. parser' \in Parsers /\ strobe' = "none"
      BY <1>0, <1>3 DEF Letter, Goes, Parsers, States, Spelling
    <2> QED BY <2>1 DEF CMD_PARSER, Strobes, TypeOK
  <1>4. CASE Enter
    <2>1. parser' \in Parsers /\ strobe' \in Strobes
      BY <1>0, <1>4 DEF Enter, Goes, Parsers, States, Strobes
    <2>2. /\ strobe' = "up" => valid_up
          /\ strobe' = "down" => valid_down
      BY <1>4 DEF Enter, Goes
    <2> QED BY <1>0, <2>1, <2>2
            DEF CMD_PARSER, Strobes, TypeOK, valid_up, valid_down
  <1>5. CASE Goes("IDLE", FLOOR_REG, "error")
    BY <1>0, <1>5 DEF Goes, Parsers, States, Strobes, CMD_PARSER, TypeOK
  <1> QED BY <1>1, <1>2, <1>3, <1>4, <1>5 DEF CMD_PARSER

Replies == [latched : BOOLEAN, idx : 0 .. ERR_LAST, start : BOOLEAN,
            data : Nothing .. ERR_LAST]

LEMMA ReplyType ==
  ASSUME TypeOK, SendReply PROVE reply' \in Replies
  <1> USE NumbersAssumption
  <1>0. reply \in Replies
    BY DEF TypeOK, Replies
  <1>1. CASE AwaitError
    <2>1. (strobe = "error") \in BOOLEAN
      OBVIOUS
    <2> QED BY <1>0, <1>1, <2>1 DEF AwaitError, Replies
  <1>2. ASSUME NEW idx \in 0 .. ERR_LAST, NEW last \in BOOLEAN,
               SendNext(idx, last)
        PROVE  reply' \in Replies
    <2>1. /\ (~last) \in BOOLEAN
          /\ (~ACTIVE(U_TX_ERR) /\ ~QUIET_MODE) \in BOOLEAN
      OBVIOUS
    <2>2. reply.idx \in Nothing .. ERR_LAST
      BY <1>0 DEF Replies, Nothing
    <2> QED BY <1>2, <2>1, <2>2 DEF SendNext, Replies
  <1>3. Following \in 0 .. ERR_LAST
    BY <1>0 DEF Following, Replies
  <1>4. /\ (IF U_TX_ERR.done THEN Following ELSE reply.idx) \in 0 .. ERR_LAST
        /\ Over \in BOOLEAN
    <2>1. reply.idx \in 0 .. ERR_LAST
      BY <1>0 DEF Replies
    <2> QED BY <1>3, <2>1 DEF Over
  <1> QED BY <1>1, <1>2, <1>4 DEF SendReply

Frames == [state : {"IDLE", "SEND", "WAIT"}, idx : Nat,
           len : Lengths \cup {0}, start : BOOLEAN, data : Texts]

LEMMA FrameType ==
  ASSUME TypeOK, StartFrame \/ SendByte \/ WaitForByte
  PROVE  frame' \in Frames /\ frame'.idx \in 0 .. Last'
  <1> USE NumbersAssumption
  <1>0. frame \in Frames /\ frame.idx \in 0 .. Last /\ frame.idx \in Texts
    BY DEF TypeOK, Frames, Last, Texts
  <1>a. ASSUME NEW state \in {"IDLE", "SEND", "WAIT"}, NEW len \in Lengths \cup {0},
               NEW idx \in 0 .. PREFIX + len + 1, NEW start \in BOOLEAN,
               NEW data \in Texts,
               frame' = [state |-> state, idx |-> idx, len |-> len,
                         start |-> start, data |-> data]
        PROVE  frame' \in Frames /\ frame'.idx \in 0 .. Last'
    <2>1. idx \in Nat
      OBVIOUS
    <2>2. frame' \in Frames
      BY <1>a, <2>1 DEF Frames
    <2>3. frame'.idx = idx /\ frame'.len = len
      BY <1>a
    <2> QED BY <2>2, <2>3 DEF Last
  <1>b. /\ frame.len \in Lengths \cup {0} /\ frame.data \in Texts
        /\ Last \in Nat /\ Last = PREFIX + frame.len + 1 /\ 0 \in 0 .. Last
    <2>1. /\ frame.len \in Lengths \cup {0} /\ frame.data \in Texts
      BY <1>0 DEF Frames
    <2>2. frame.len \in Nat
      <3>1. Lengths \cup {0} \subseteq Nat
        OBVIOUS
      <3> HIDE NumbersAssumption
      <3> QED BY <2>1, <3>1, Zenon
    <2> QED BY <2>1, <2>2 DEF Last
  <1>1. CASE StartFrame
    <2>1. CASE frame' = [state |-> "IDLE", idx |-> frame.idx, len |-> frame.len,
                         start |-> FALSE, data |-> frame.data]
      <3>1. frame.idx \in 0 .. PREFIX + frame.len + 1
        BY <1>0, <1>b
      <3> QED BY <1>a, <1>b, <2>1, <3>1
    <2>2. ASSUME NEW len \in Lengths,
                 frame' = [state |-> "SEND", idx |-> 0, len |-> len,
                           start |-> FALSE, data |-> frame.data]
          PROVE  frame' \in Frames /\ frame'.idx \in 0 .. Last'
      <3>1. 0 \in 0 .. PREFIX + len + 1
        OBVIOUS
      <3> QED BY <1>a, <1>b, <2>2, <3>1
    <2> QED BY <1>1, <2>1, <2>2 DEF StartFrame
  <1>2. ASSUME NEW state \in {"IDLE", "SEND", "WAIT"},
               NEW idx \in 0 .. Last, NEW start \in BOOLEAN,
               NEW data \in Texts, Continue(state, idx, start, data)
        PROVE  frame' \in Frames /\ frame'.idx \in 0 .. Last'
    <2>1. CASE Yield
      BY <1>a, <1>b, <1>2, <2>1 DEF Continue
    <2>2. CASE ~Yield
      BY <1>a, <1>b, <1>2, <2>2 DEF Continue
    <2> QED BY <2>1, <2>2
  <1>3. CASE SendByte
    <2>1. (~ACTIVE(U_TX_INFO)) \in BOOLEAN
      OBVIOUS
    <2>2. (IF ACTIVE(U_TX_INFO) THEN "SEND" ELSE "WAIT")
            \in {"IDLE", "SEND", "WAIT"}
      OBVIOUS
    <2> QED BY <1>0, <1>2, <1>3, <2>1, <2>2 DEF SendByte
  <1>4. CASE WaitForByte
    <2>1. frame.idx # Last => frame.idx + 1 \in 0 .. Last
      BY <1>0, <1>b
    <2>2. 0 \in 0 .. Last /\ frame.data \in Texts
      BY <1>b
    <2>3. CASE ~U_TX_INFO.done
      BY <1>0, <1>2, <1>4, <2>2, <2>3 DEF WaitForByte
    <2>4. CASE U_TX_INFO.done /\ frame.idx = Last
      BY <1>2, <1>4, <2>2, <2>4 DEF WaitForByte
    <2>5. CASE U_TX_INFO.done /\ frame.idx # Last
      BY <1>2, <1>4, <2>1, <2>2, <2>5 DEF WaitForByte
    <2> QED BY <2>3, <2>4, <2>5
  <1> QED BY <1>1, <1>3, <1>4

-----------------------------------------------------------------------------

LEMMA TransmitType ==
  ASSUME TypeOK, Transmit
  PROVE  /\ U_TX_ERR' \in [left : 0 .. BYTE_CYCLES, done : BOOLEAN,
                           byte : Nothing .. ERR_LAST]
         /\ U_TX_INFO' \in [left : 0 .. BYTE_CYCLES, done : BOOLEAN,
                            byte : Texts]
         /\ hushed' \in BOOLEAN
  <1>1. /\ reply.start \in BOOLEAN /\ reply.data \in Nothing .. ERR_LAST
        /\ U_TX_ERR \in [left : 0 .. BYTE_CYCLES, done : BOOLEAN,
                         byte : Nothing .. ERR_LAST]
    BY DEF TypeOK
  <1>2. /\ frame.start \in BOOLEAN /\ frame.data \in Texts
        /\ U_TX_INFO \in [left : 0 .. BYTE_CYCLES, done : BOOLEAN,
                          byte : Texts]
    BY DEF TypeOK
  <1>3. U_TX_ERR' \in [left : 0 .. BYTE_CYCLES, done : BOOLEAN,
                       byte : Nothing .. ERR_LAST]
    BY <1>1, Transmitter DEF Transmit
  <1>4. U_TX_INFO' \in [left : 0 .. BYTE_CYCLES, done : BOOLEAN, byte : Texts]
    BY <1>2, Transmitter DEF Transmit
  <1>5. hushed' \in BOOLEAN
    BY Zenon DEF Transmit
  <1> QED BY <1>3, <1>4, <1>5

LEMMA CallType ==
  ASSUME TypeOK, RegisterCall
  PROVE  call' \in [floor : 0 .. CALL_WIDTH - 1, dir : {"none", "up", "down"}]
  <1>1. FLOOR_ADDR % CALL_WIDTH \in 0 .. CALL_WIDTH - 1
    BY NumbersAssumption DEF TypeOK
  <1> QED BY <1>1, NumbersAssumption DEF RegisterCall, NoCall

THEOREM TypeCorrect == Spec => []TypeOK
  <1>1. Init => TypeOK
    <2> SUFFICES ASSUME Init PROVE TypeOK
      OBVIOUS
    <2> USE NumbersAssumption
    <2>0. parser \in Parsers /\ strobe \in Strobes
      <3>1. "IDLE" \in States /\ 0 \in 0 .. WIDTH - 1
        BY DEF States
      <3> QED BY <3>1 DEF Init, Parsers, Strobes
    <2>1. FLOOR_ADDR \in 0 .. WIDTH - 1 /\ rxGap \in 0 .. RX_CYCLES - 1
      BY DEF Init
    <2>b. QUIET_MODE \in BOOLEAN /\ hushed \in BOOLEAN
      BY Zenon DEF Init
    <2>a. call \in [floor : 0 .. CALL_WIDTH - 1, dir : {"none", "up", "down"}]
      <3>1. 0 \in 0 .. CALL_WIDTH - 1
        OBVIOUS
      <3> QED BY <3>1 DEF Init, NoCall
    <2>2. reply \in Replies
      BY DEF Init, Replies, Nothing
    <2>3. frame \in [state : {"IDLE", "SEND", "WAIT"}, idx : 0 .. Last,
                     len : Lengths \cup {0}, start : BOOLEAN, data : Texts]
      BY DEF Init, Last, Texts, Nothing
    <2>4. /\ U_TX_ERR \in [left : 0 .. BYTE_CYCLES, done : BOOLEAN,
                           byte : Nothing .. ERR_LAST]
          /\ U_TX_INFO \in [left : 0 .. BYTE_CYCLES, done : BOOLEAN,
                            byte : Texts]
      BY DEF Init, Texts, Nothing
    <2> QED BY <2>0, <2>1, <2>a, <2>b, <2>2, <2>3, <2>4 DEF TypeOK, Parsers, Strobes, Replies
  <1>2. TypeOK /\ [Next]_vars => TypeOK'
    <2> SUFFICES ASSUME TypeOK, [Next]_vars PROVE TypeOK'
      OBVIOUS
    <2>1. CASE UNCHANGED vars
      BY <2>1 DEF vars, TypeOK, Last
    <2>2. ASSUME NEW b \in Bytes \cup {NoByte}, Clock(b) PROVE TypeOK'
      <3>0. CMD_PARSER(b) /\ RegisterCall /\ SendReply /\ Transmit
        BY <2>2 DEF Clock
      <3>1. /\ parser' \in Parsers /\ strobe' \in Strobes
            /\ FLOOR_ADDR' \in 0 .. WIDTH - 1
        BY <3>0, ParserType
      <3>2. call' \in [floor : 0 .. CALL_WIDTH - 1, dir : {"none", "up", "down"}]
        BY <3>0, CallType
      <3>3. reply' \in Replies
        BY <3>0, ReplyType
      <3>4. frame' \in Frames /\ frame'.idx \in 0 .. Last'
        BY <2>2, FrameType DEF Clock
      <3>5. frame' \in [state : {"IDLE", "SEND", "WAIT"}, idx : 0 .. Last',
                        len : Lengths \cup {0}, start : BOOLEAN, data : Texts]
        BY <3>4 DEF Frames
      <3>6. QUIET_MODE' \in BOOLEAN
        BY <2>2 DEF Clock, Toggle, TypeOK
      <3>7. rxGap' \in 0 .. RX_CYCLES - 1
        BY <2>2, NumbersAssumption DEF Clock, UART_RX, TypeOK
      <3> QED BY <3>0, <3>1, <3>2, <3>3, <3>5, <3>6, <3>7, TransmitType
              DEF TypeOK, Parsers, Strobes, Replies
    <2> QED BY <2>1, <2>2 DEF Next
  <1> QED BY <1>1, <1>2, PTL DEF Spec

-----------------------------------------------------------------------------
(* Calls.  The strobe and the floor that wait for the call register are    *)
(* already valid.                                                          *)

StrobeIsValid ==
  /\ strobe = "up" => FLOOR_ADDR \in 1 .. MAX_FLOOR - 1
  /\ strobe = "down" => FLOOR_ADDR \in 2 .. MAX_FLOOR

\* Whatever is typed, and whatever the number of floors, the controller gets
\* no call but one a hall button could make (CMD_PARSER.v:46-47).
THEOREM CallSafety == Spec => []CallsAreServed
  <1>1. Init => StrobeIsValid /\ CallsAreServed
    BY DEF Init, NoCall, StrobeIsValid, CallsAreServed
  <1>2. TypeOK /\ StrobeIsValid /\ CallsAreServed /\ [Next]_vars
          => (StrobeIsValid /\ CallsAreServed)'
    <2> SUFFICES ASSUME TypeOK, StrobeIsValid, CallsAreServed, [Next]_vars
                 PROVE  StrobeIsValid' /\ CallsAreServed'
      OBVIOUS
    <2>1. CASE UNCHANGED vars
      BY <2>1 DEF vars, StrobeIsValid, CallsAreServed
    <2>2. ASSUME NEW b \in Bytes \cup {NoByte}, Clock(b)
          PROVE  StrobeIsValid' /\ CallsAreServed'
      <3>1. StrobeIsValid'
        <4>1. CMD_PARSER(b)
          BY <2>2 DEF Clock
        <4> QED BY <4>1, ParserType DEF StrobeIsValid
      <3>2. CallsAreServed'
        <4>1. RegisterCall
          BY <2>2 DEF Clock
        <4>2. CASE strobe \in {"up", "down"}
          <5>1. FLOOR_ADDR \in 1 .. MAX_FLOOR
            BY <4>2, NumbersAssumption DEF StrobeIsValid
          <5>2. FLOOR_ADDR % CALL_WIDTH = FLOOR_ADDR
            BY <5>1, NumbersAssumption
          <5> QED BY <4>1, <4>2, <5>2
                  DEF RegisterCall, StrobeIsValid, CallsAreServed
        <4>3. CASE strobe \notin {"up", "down"}
          BY <4>1, <4>3 DEF RegisterCall, NoCall, CallsAreServed
        <4> QED BY <4>2, <4>3
      <3> QED BY <3>1, <3>2
    <2> QED BY <2>1, <2>2 DEF Next
  <1> QED BY <1>1, <1>2, TypeCorrect, PTL DEF Spec

-----------------------------------------------------------------------------
(* The shared pin.  A frame reaches S_SEND beside a reply only in the      *)
(* cycle in which the reply's byte begins, because before that cycle       *)
(* nothing spoke against it; so a status byte can begin up to two cycles   *)
(* after a reply's byte and no later.                                      *)

PinInv ==
  /\ ACTIVE(U_TX_ERR) /\ frame.state = "SEND" => U_TX_ERR.left = BYTE_CYCLES
  /\ ACTIVE(U_TX_ERR) /\ frame.start => U_TX_ERR.left >= BYTE_CYCLES - 1
  /\ StatusYields

LEMMA FrameAndPin ==
  ASSUME TypeOK, StartFrame \/ SendByte \/ WaitForByte
  PROVE  /\ frame'.state = "SEND" => ~ACTIVE(U_TX_ERR)
         /\ frame'.start /\ ACTIVE(U_TX_ERR) => frame.state = "SEND"
  <1>1. CASE StartFrame
    BY <1>1 DEF StartFrame, Yield, ANY_ERROR_ACTIVE
  <1>2. CASE SendByte
    BY <1>2 DEF SendByte, Continue, Yield, ANY_ERROR_ACTIVE
  <1>3. CASE WaitForByte
    BY <1>3 DEF WaitForByte, Continue, Yield, ANY_ERROR_ACTIVE
  <1> QED BY <1>1, <1>2, <1>3

\* However long a byte is, and whenever the second ends, an error strikes or
\* Enter is typed, no status byte outlasts a reply's byte on the pin by more
\* than two cycles of its stop bit (ELEVATOR_INTERFACE.v:243, 345).
THEOREM SharedPin == Spec => []StatusYields
  <1>1. Init => PinInv
    BY DEF Init, PinInv, StatusYields, ACTIVE
  <1>2. TypeOK /\ PinInv /\ [Next]_vars => PinInv'
    <2> SUFFICES ASSUME TypeOK, PinInv, [Next]_vars PROVE PinInv'
      OBVIOUS
    <2>1. CASE UNCHANGED vars
      BY <2>1 DEF vars, PinInv, StatusYields, ACTIVE
    <2>2. ASSUME NEW b \in Bytes \cup {NoByte}, Clock(b) PROVE PinInv'
      <3>1. /\ frame'.state = "SEND" => ~ACTIVE(U_TX_ERR)
            /\ frame'.start /\ ACTIVE(U_TX_ERR) => frame.state = "SEND"
        BY <2>2, FrameAndPin DEF Clock
      <3>2. /\ U_TX_ERR.left \in 0 .. BYTE_CYCLES
            /\ U_TX_INFO.left \in 0 .. BYTE_CYCLES
            /\ U_TX_ERR'.left \in 0 .. BYTE_CYCLES
            /\ U_TX_INFO'.left \in 0 .. BYTE_CYCLES
        BY <2>2, TransmitType DEF TypeOK, Clock
      <3>3. /\ U_TX_ERR.left > 0 => U_TX_ERR'.left = U_TX_ERR.left - 1
            /\ U_TX_ERR.left = 0 => U_TX_ERR'.left \in {0, BYTE_CYCLES}
        <4>1. /\ reply.start \in BOOLEAN /\ reply.data \in Nothing .. ERR_LAST
              /\ U_TX_ERR \in [left : 0 .. BYTE_CYCLES, done : BOOLEAN,
                               byte : Nothing .. ERR_LAST]
          BY DEF TypeOK
        <4> QED BY <2>2, <4>1, Transmitter DEF Clock, Transmit
      <3>4. /\ U_TX_INFO.left > 0 => U_TX_INFO'.left = U_TX_INFO.left - 1
            /\ U_TX_INFO.left = 0 /\ ~frame.start => U_TX_INFO'.left = 0
        <4>1. /\ frame.start \in BOOLEAN /\ frame.data \in Texts
              /\ U_TX_INFO \in [left : 0 .. BYTE_CYCLES, done : BOOLEAN,
                                byte : Texts]
          BY DEF TypeOK
        <4> QED BY <2>2, <4>1, Transmitter DEF Clock, Transmit
      <3> QED BY <3>1, <3>2, <3>3, <3>4, NumbersAssumption
              DEF PinInv, StatusYields, ACTIVE
    <2> QED BY <2>1, <2>2 DEF Next
  <1>3. PinInv => StatusYields
    BY DEF PinInv
  <1> QED BY <1>1, <1>2, <1>3, TypeCorrect, PTL DEF Spec

-----------------------------------------------------------------------------
(* The order of a frame's bytes.  A byte handed over finds the transmitter *)
(* free and is the frame's first or the next; a wait is for the byte of    *)
(* SEND_IDX, which is on its way or on the line.                           *)

OrderInv ==
  /\ frame.start => /\ U_TX_INFO.left = 0 /\ ~U_TX_INFO.done
                    /\ frame.data \in {0, U_TX_INFO.byte + 1}
  /\ frame.state = "SEND" =>
       /\ ~frame.start
       /\ \/ frame.idx = 0
          \/ U_TX_INFO.left = 0 /\ frame.idx = U_TX_INFO.byte + 1
  /\ frame.state = "WAIT" =>
       frame.idx = IF frame.start THEN frame.data ELSE U_TX_INFO.byte
  /\ U_TX_INFO.done => U_TX_INFO.left = 0

\* What a step does to the transmitter of the frames.
LEMMA InfoStep ==
  ASSUME TypeOK, Transmit
  PROVE  /\ U_TX_INFO.left > 0 => /\ U_TX_INFO'.left = U_TX_INFO.left - 1
                                  /\ U_TX_INFO'.byte = U_TX_INFO.byte
         /\ U_TX_INFO.left = 0 /\ frame.start =>
              U_TX_INFO'.left = BYTE_CYCLES /\ U_TX_INFO'.byte = frame.data
         /\ U_TX_INFO.left = 0 => ~U_TX_INFO'.done
         /\ U_TX_INFO.left = 0 /\ ~frame.start =>
              U_TX_INFO'.left = 0 /\ U_TX_INFO'.byte = U_TX_INFO.byte
         /\ U_TX_INFO'.done => U_TX_INFO'.left = 0
  <1>1. /\ frame.start \in BOOLEAN /\ frame.data \in Texts
        /\ U_TX_INFO \in [left : 0 .. BYTE_CYCLES, done : BOOLEAN,
                          byte : Texts]
    BY DEF TypeOK
  <1>2. U_TX_INFO' = UART_TX(U_TX_INFO, frame.start, frame.data)
    BY DEF Transmit
  <1>3. U_TX_INFO'.done => U_TX_INFO'.left = 0
    <2>1. CASE U_TX_INFO.left > 0
      <3>1. U_TX_INFO' = [left |-> U_TX_INFO.left - 1,
                          done |-> U_TX_INFO.left = 1,
                          byte |-> U_TX_INFO.byte]
        BY <1>2, <2>1 DEF UART_TX, ACTIVE
      <3>2. U_TX_INFO'.left = U_TX_INFO.left - 1
        BY <3>1
      <3>3. U_TX_INFO'.done => U_TX_INFO.left = 1
        BY <3>1, Zenon
      <3> QED BY <3>2, <3>3
    <2>2. CASE U_TX_INFO.left = 0
      BY <1>1, <1>2, <2>2, Transmitter
    <2> QED BY <1>1, <2>1, <2>2
  <1> QED BY <1>1, <1>2, <1>3, Transmitter

LEMMA OrderInvInductive ==
  ASSUME TypeOK, OrderInv, NEW b, Clock(b)
  PROVE  OrderInv' /\ (Begins(U_TX_INFO, U_TX_INFO') =>
                          U_TX_INFO'.byte \in {0, U_TX_INFO.byte + 1})
  <1>1. /\ U_TX_INFO.left \in 0 .. BYTE_CYCLES
        /\ frame.idx \in Nat /\ frame.data \in Texts
        /\ U_TX_INFO.byte \in Texts
    BY DEF TypeOK
  <1>2. Transmit
    BY DEF Clock
  <1>3. Begins(U_TX_INFO, U_TX_INFO') =>
          U_TX_INFO'.byte \in {0, U_TX_INFO.byte + 1}
    BY <1>1, <1>2, InfoStep DEF OrderInv, Begins, ACTIVE
  <1>4. CASE StartFrame
    BY <1>1, <1>2, <1>3, <1>4, InfoStep DEF StartFrame, OrderInv
  <1>5. CASE SendByte
    <2>1. /\ ~frame.start
          /\ frame'.idx = 0 \/ frame'.idx = frame.idx
          /\ frame'.state # "IDLE" => frame'.idx = frame.idx
          /\ frame'.data = frame.idx
          /\ frame'.start <=> ~ACTIVE(U_TX_INFO)
          /\ frame'.state = "SEND" => ACTIVE(U_TX_INFO)
          /\ frame'.state = "WAIT" => ~ACTIVE(U_TX_INFO)
      BY <1>5 DEF SendByte, Continue, OrderInv
    <2> QED BY <1>1, <1>2, <1>3, <1>5, <2>1, InfoStep
            DEF SendByte, OrderInv, ACTIVE
  <1>6. CASE WaitForByte
    <2>1. /\ ~frame'.start
          /\ frame'.state = "WAIT" => frame'.idx = frame.idx
          /\ frame'.state = "SEND" => /\ U_TX_INFO.done
                                      /\ frame'.idx = frame.idx + 1
      BY <1>6 DEF WaitForByte, Continue
    <2>2. frame.state = "WAIT"
      BY <1>6 DEF WaitForByte
    <2> QED BY <1>1, <1>2, <1>3, <2>1, <2>2, InfoStep DEF OrderInv
  <1> QED BY <1>3, <1>4, <1>5, <1>6 DEF Clock

\* However often errors and quiet mode cut frames off, and whatever the length
\* of a byte, no byte of a frame is left out, doubled or left over from the
\* frame before (ELEVATOR_INTERFACE.v:324-348).
THEOREM FrameOrder == Spec => FramesInOrder
  <1>1. Init => OrderInv
    BY DEF Init, OrderInv
  <1>2. TypeOK /\ OrderInv /\ [Next]_vars => OrderInv'
    <2> SUFFICES ASSUME TypeOK, OrderInv, [Next]_vars PROVE OrderInv'
      OBVIOUS
    <2>1. CASE UNCHANGED vars
      BY <2>1 DEF vars, OrderInv
    <2> QED BY <2>1, OrderInvInductive DEF Next
  <1>3. TypeOK /\ OrderInv /\ [Next]_vars =>
          [Begins(U_TX_INFO, U_TX_INFO') =>
             U_TX_INFO'.byte \in {0, U_TX_INFO.byte + 1}]_vars
    BY OrderInvInductive DEF Next
  <1> QED BY <1>1, <1>2, <1>3, TypeCorrect, PTL DEF Spec, FramesInOrder

-----------------------------------------------------------------------------
(* The order of a reply's bytes.  ERR_IDX is one ahead of the byte on the  *)
(* line, but for the first byte, which is handed over before ERR_IDX       *)
(* moves.  Quiet mode lets bytes fall out; the first byte that begins      *)
(* outside it restores the order.                                          *)

After(byte) == (byte + 1) % (ERR_LAST + 1)
Follows(next, byte) == next = After(byte) \/ (next = 0 /\ byte = 0)

\* Nothing is on the line or about to begin: the index is at rest.
AtRest == U_TX_ERR.left = 0 /\ ~reply.start /\ ~U_TX_ERR.done
HandedOver == U_TX_ERR.left = 0 /\ reply.start

ReplyInv ==
  /\ ~reply.latched => reply.idx = 0
  /\ U_TX_ERR.done => U_TX_ERR.left = 0 /\ ~reply.start
  /\ HandedOver => reply.idx = reply.data \/ reply.idx = After(reply.data)
  /\ ~hushed => /\ ~HandedOver => Follows(reply.idx, U_TX_ERR.byte)
                /\ AtRest => reply.idx = 0
                /\ HandedOver => /\ Follows(reply.data, U_TX_ERR.byte)
                                 /\ Follows(reply.idx, reply.data)

\* What a step does to the transmitter of the replies.
LEMMA ErrStep ==
  ASSUME TypeOK, Transmit
  PROVE  /\ U_TX_ERR.left > 0 => /\ U_TX_ERR'.left = U_TX_ERR.left - 1
                                 /\ U_TX_ERR'.byte = U_TX_ERR.byte
                                 /\ U_TX_ERR'.done <=> U_TX_ERR.left = 1
         /\ U_TX_ERR.left = 0 /\ reply.start =>
              U_TX_ERR'.left = BYTE_CYCLES /\ U_TX_ERR'.byte = reply.data
         /\ U_TX_ERR.left = 0 => ~U_TX_ERR'.done
         /\ U_TX_ERR.left = 0 /\ ~reply.start =>
              U_TX_ERR'.left = 0 /\ U_TX_ERR'.byte = U_TX_ERR.byte
  <1>1. /\ reply.start \in BOOLEAN /\ reply.data \in Nothing .. ERR_LAST
        /\ U_TX_ERR \in [left : 0 .. BYTE_CYCLES, done : BOOLEAN,
                         byte : Nothing .. ERR_LAST]
    BY DEF TypeOK
  <1>2. U_TX_ERR' = UART_TX(U_TX_ERR, reply.start, reply.data)
    BY DEF Transmit
  <1>3. U_TX_ERR.left > 0 => (U_TX_ERR'.done <=> U_TX_ERR.left = 1)
    <2> SUFFICES ASSUME U_TX_ERR.left > 0
                 PROVE  U_TX_ERR'.done <=> U_TX_ERR.left = 1
      OBVIOUS
    <2>1. U_TX_ERR' = [left |-> U_TX_ERR.left - 1,
                       done |-> U_TX_ERR.left = 1,
                       byte |-> U_TX_ERR.byte]
      BY <1>2 DEF UART_TX, ACTIVE
    <2> QED BY <2>1, Zenon
  <1> QED BY <1>1, <1>2, <1>3, Transmitter

\* What a step does to the reply: it waits for an error or hands a byte over.
LEMMA ReplyStep ==
  ASSUME TypeOK, SendReply
  PROVE  \/ /\ ~reply.latched /\ ~reply'.start
            /\ reply'.idx = reply.idx
         \/ /\ reply.latched
            /\ reply'.start <=> (U_TX_ERR.left = 0 /\ ~QUIET_MODE)
            /\ reply'.data = reply.idx
            /\ reply'.idx = IF U_TX_ERR.done THEN After(reply.idx)
                            ELSE reply.idx
            /\ ~reply'.latched => reply'.idx = 0
  <1>1. /\ reply \in Replies /\ reply.idx \in 0 .. ERR_LAST
        /\ U_TX_ERR.left \in 0 .. BYTE_CYCLES
    BY DEF TypeOK, Replies
  <1>2. CASE AwaitError
    BY <1>1, <1>2 DEF AwaitError, Replies
  <1>3. CASE SendNext(IF U_TX_ERR.done THEN Following ELSE reply.idx, Over)
    <2>1. /\ reply.latched
          /\ reply'.data = reply.idx
          /\ reply'.idx = IF U_TX_ERR.done THEN After(reply.idx)
                          ELSE reply.idx
      BY <1>3 DEF SendNext, Following, After
    <2>2. reply'.start <=> (~ACTIVE(U_TX_ERR) /\ ~QUIET_MODE)
      BY <1>3, Zenon DEF SendNext
    <2>3. ~reply'.latched => Over
      BY <1>3, Zenon DEF SendNext
    <2>4. Over => After(reply.idx) = 0
      BY NumbersAssumption DEF Over, After
    <2>5. ~reply'.latched => reply'.idx = 0
      BY <2>1, <2>3, <2>4 DEF Over
    <2> QED BY <1>1, <2>1, <2>2, <2>5 DEF ACTIVE
  <1> QED BY <1>2, <1>3 DEF SendReply

LEMMA ReplyInvInductive ==
  ASSUME TypeOK, ReplyInv, NEW b, Clock(b)
  PROVE  /\ ReplyInv'
         /\ Begins(U_TX_ERR, U_TX_ERR') /\ ~hushed =>
              Follows(U_TX_ERR'.byte, U_TX_ERR.byte)
  <1>1. /\ U_TX_ERR.left \in 0 .. BYTE_CYCLES
        /\ U_TX_ERR'.left \in 0 .. BYTE_CYCLES
        /\ Transmit /\ SendReply
    BY TransmitType DEF TypeOK, Clock
  <1>2. Begins(U_TX_ERR, U_TX_ERR') <=> HandedOver
    BY <1>1, ErrStep, NumbersAssumption DEF Begins, ACTIVE, HandedOver
  <1>3. ~hushed' <=> ~QUIET_MODE /\ (~hushed \/ (HandedOver /\ reply.data = 0))
    BY <1>1, <1>2, Zenon DEF Transmit
  <1>4. After(0) = 1 /\ Follows(0, 0)
    BY NumbersAssumption DEF After, Follows
  <1>5. CASE HandedOver
    <2>1. /\ U_TX_ERR'.left = BYTE_CYCLES /\ ~U_TX_ERR'.done
          /\ U_TX_ERR'.byte = reply.data /\ ~U_TX_ERR.done
      BY <1>1, <1>5, ErrStep DEF HandedOver, ReplyInv
    <2>2. reply'.idx = reply.idx
      BY <1>1, <2>1, ReplyStep
    <2>3. ~reply'.latched => reply'.idx = 0
      BY <1>1, ReplyStep DEF ReplyInv
    <2>4. ~HandedOver' /\ ~AtRest'
      BY <1>1, <2>1, NumbersAssumption DEF HandedOver, AtRest
    <2>5. ~hushed' => Follows(reply.idx, reply.data)
      BY <1>3, <1>4, <1>5 DEF ReplyInv, Follows
    <2>6. ReplyInv'
      BY <2>1, <2>2, <2>3, <2>4, <2>5 DEF ReplyInv, Follows
    <2>7. ~hushed => Follows(U_TX_ERR'.byte, U_TX_ERR.byte)
      BY <1>5, <2>1 DEF ReplyInv
    <2> QED BY <2>6, <2>7
  <1>6. CASE ~HandedOver
    <2>1. ~hushed' => ~hushed /\ ~QUIET_MODE
      BY <1>3, <1>6
    <2>2. U_TX_ERR'.byte = U_TX_ERR.byte
      BY <1>1, <1>6, ErrStep DEF HandedOver
    <2>3. ~reply'.latched => reply'.idx = 0
      BY <1>1, ReplyStep DEF ReplyInv
    <2>4. CASE U_TX_ERR.left > 0
      <3>1. ~U_TX_ERR.done
        BY <2>4 DEF ReplyInv
      <3>2. /\ ~reply'.start /\ reply'.idx = reply.idx
        BY <1>1, <2>4, <3>1, ReplyStep
      <3>3. U_TX_ERR'.left = U_TX_ERR.left - 1
        BY <1>1, <2>4, ErrStep
      <3>4. U_TX_ERR'.done <=> U_TX_ERR.left = 1
        BY <1>1, <2>4, ErrStep
      <3>5. U_TX_ERR'.done <=> U_TX_ERR'.left = 0
        BY <1>1, <3>3, <3>4
      <3>6. ~HandedOver' /\ ~AtRest'
        BY <3>2, <3>5 DEF HandedOver, AtRest
      <3>7. ~hushed' => Follows(reply'.idx, U_TX_ERR'.byte)
        BY <1>6, <2>1, <2>2, <3>2 DEF ReplyInv
      <3> QED BY <1>2, <1>6, <2>3, <3>2, <3>5, <3>6, <3>7 DEF ReplyInv, Follows
    <2>5. CASE U_TX_ERR.left = 0
      <3>1. /\ U_TX_ERR'.left = 0 /\ ~U_TX_ERR'.done /\ ~reply.start
        BY <1>1, <1>6, <2>5, ErrStep DEF HandedOver
      <3>2. CASE reply'.start
        <4>1. /\ reply'.data = reply.idx
              /\ reply'.idx = IF U_TX_ERR.done THEN After(reply.idx)
                              ELSE reply.idx
          BY <1>1, <3>2, ReplyStep
        <4>2. ~hushed' => /\ Follows(reply'.data, U_TX_ERR'.byte)
                          /\ Follows(reply'.idx, reply'.data)
          <5>1. ~hushed' /\ ~U_TX_ERR.done => reply.idx = 0
            BY <2>1, <2>5, <3>1 DEF ReplyInv, AtRest
          <5> QED BY <1>6, <2>1, <2>2, <4>1, <5>1 DEF ReplyInv, Follows
        <4>3. HandedOver' /\ ~AtRest'
          BY <3>1, <3>2 DEF HandedOver, AtRest
        <4> QED BY <1>2, <1>6, <2>3, <3>1, <4>1, <4>2, <4>3 DEF ReplyInv, Follows
      <3>3. CASE ~reply'.start
        <4>1. ~QUIET_MODE => ~reply.latched
          BY <1>1, <2>5, <3>3, ReplyStep
        <4>2. ~hushed' => reply'.idx = reply.idx /\ reply.idx = 0
          BY <1>1, <2>1, <4>1, ReplyStep DEF ReplyInv
        <4>3. ~HandedOver' /\ AtRest'
          BY <3>1, <3>3 DEF HandedOver, AtRest
        <4>4. ~hushed' => Follows(reply'.idx, U_TX_ERR'.byte)
          BY <1>6, <2>1, <2>2, <4>2 DEF ReplyInv
        <4> QED BY <1>2, <1>6, <2>3, <3>1, <4>2, <4>3, <4>4 DEF ReplyInv, Follows
      <3> QED BY <3>2, <3>3
    <2> QED BY <1>1, <1>2, <1>6, <2>4, <2>5
  <1> QED BY <1>5, <1>6

\* However long the text and its bytes are, and whenever quiet mode goes on
\* and off: outside it no byte of a reply is left out, and only the first is
\* sent twice (ELEVATOR_INTERFACE.v:203-231).
THEOREM ReplyOrder == Spec => ReplyInOrderButTheFirst
  <1>1. Init => ReplyInv
    <2>1. After(Nothing) = 0
      BY NumbersAssumption DEF After, Nothing
    <2> QED BY <2>1 DEF Init, ReplyInv, HandedOver, AtRest, Follows
  <1>2. TypeOK /\ ReplyInv /\ [Next]_vars => ReplyInv'
    <2> SUFFICES ASSUME TypeOK, ReplyInv, [Next]_vars PROVE ReplyInv'
      OBVIOUS
    <2>1. CASE UNCHANGED vars
      BY <2>1 DEF vars, ReplyInv, HandedOver, AtRest
    <2> QED BY <2>1, ReplyInvInductive DEF Next
  <1>3. TypeOK /\ ReplyInv /\ [Next]_vars =>
          [Begins(U_TX_ERR, U_TX_ERR') /\ ~hushed =>
             \/ U_TX_ERR'.byte = (U_TX_ERR.byte + 1) % (ERR_LAST + 1)
             \/ U_TX_ERR.byte = 0 /\ U_TX_ERR'.byte = 0]_vars
    <2> SUFFICES ASSUME TypeOK, ReplyInv, NEW b, Clock(b),
                        Begins(U_TX_ERR, U_TX_ERR') /\ ~hushed
                 PROVE  \/ U_TX_ERR'.byte = (U_TX_ERR.byte + 1) % (ERR_LAST + 1)
                        \/ U_TX_ERR.byte = 0 /\ U_TX_ERR'.byte = 0
      BY DEF Next
    <2> QED BY ReplyInvInductive DEF Follows, After
  <1> QED BY <1>1, <1>2, <1>3, TypeCorrect, PTL
          DEF Spec, ReplyInOrderButTheFirst

=============================================================================
