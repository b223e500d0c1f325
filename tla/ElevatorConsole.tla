-------------------------- MODULE ElevatorConsole --------------------------
(***************************************************************************)
(* The serial console of the elevator: CMD_PARSER.v and                    *)
(* ELEVATOR_INTERFACE.v with their two UART_TX.  A step is one rising      *)
(* clock edge outside reset, and every register takes its new value from   *)
(* the old ones.  A transmitted byte is its position in the text:          *)
(* 0 .. ERR_LAST of a reply, 0 .. Last of a status frame.                  *)
(***************************************************************************)
EXTENDS Integers

CONSTANTS
  MAX_FLOOR,
  WIDTH,            \* FLOOR_REG holds numbers below WIDTH (8 bits)
  CALL_WIDTH,       \* CALL_FLOOR_R numbers below CALL_WIDTH (6 bits)
  Digits,           \* the digits that are typed
  BYTE_CYCLES,      \* clock cycles a transmitted byte takes
  RX_CYCLES,        \* clock cycles between two received bytes, at least
  ERR_LAST,         \* ERR_IDX of the last byte of a reply
  PREFIX,           \* bytes of a frame in front of the direction
  Lengths           \* letters of a direction: 2 of UP, 4 of DOWN and STOP

ASSUME NumbersAssumption ==
  /\ MAX_FLOOR \in Nat /\ MAX_FLOOR > 1
  /\ WIDTH \in Nat /\ MAX_FLOOR < WIDTH
  /\ CALL_WIDTH \in Nat /\ MAX_FLOOR < CALL_WIDTH
  /\ Digits \subseteq 0 .. 9 /\ \A d \in Digits : d < WIDTH
  /\ BYTE_CYCLES \in Nat /\ BYTE_CYCLES > 1
  /\ RX_CYCLES \in Nat /\ RX_CYCLES > 1
  /\ ERR_LAST \in Nat /\ ERR_LAST > 0 /\ PREFIX \in Nat
  /\ Lengths \subseteq Nat

VARIABLES
  parser,           \* STATE and FLOOR_REG of the command parser
  strobe,           \* its output that is high in this cycle, or "none"
  FLOOR_ADDR,       \* its other output
  call,             \* CALL_VALID_R, CALL_FLOOR_R, CALL_DIR_R
  QUIET_MODE,
  reply,            \* ERR_REQ_LATCHED, ERR_IDX, TX_START_ERR, TX_DATA_ERR
  U_TX_ERR,         \* its transmitter
  frame,            \* SEND_STATE, SEND_IDX, DIR_LEN, TX_START_INFO, ..DATA..
  U_TX_INFO,        \* its transmitter
  rxGap,            \* cycles in which no byte can be complete
  hushed            \* history: quiet at some time since a reply's first byte

vars == <<parser, strobe, FLOOR_ADDR, call, QUIET_MODE, reply, U_TX_ERR,
          frame, U_TX_INFO, rxGap, hushed>>

\* Bytes are ASCII codes.
ASCII_0 == 48
ASCII_D == 68
ASCII_N == 78
ASCII_O == 79
ASCII_P == 80
ASCII_U == 85
ASCII_W == 87
Enters == {10, 13}                            \* LF and CR
Letters == {ASCII_U, ASCII_P, ASCII_D, ASCII_O, ASCII_W, ASCII_N}
Typed == {ASCII_0 + d : d \in Digits}
Space == 32                                   \* stands for all other bytes
Bytes == Typed \cup Letters \cup Enters \cup {Space}
NoByte == 0                                   \* RX_DONE is low
NoCall == [floor |-> 0, dir |-> "none"]       \* CALL_VALID_R is low

-----------------------------------------------------------------------------
(* The command parser.  P(byte) is its answer to a received byte: where it *)
(* goes, its number, and the strobe it raises.                             *)

FLOOR_REG == parser.floor

\* Mutant: the top floor has a call upwards.
valid_up_top == FLOOR_REG >= 1 /\ FLOOR_REG <= MAX_FLOOR

valid_up == FLOOR_REG >= 1 /\ FLOOR_REG < MAX_FLOOR
valid_down == FLOOR_REG > 1 /\ FLOOR_REG <= MAX_FLOOR

\* The letter a state waits for, and where it leads.
Spelling ==
  [GET_U |-> <<ASCII_P, "GET_P">>, GET_D |-> <<ASCII_O, "GET_O">>,
   GET_O |-> <<ASCII_W, "GET_W">>, GET_W |-> <<ASCII_N, "GET_N">>]

Goes(state, floor, s) ==
  parser' = [state |-> state, floor |-> floor] /\ strobe' = s

\* A number wraps at WIDTH; one above MAX_FLOOR is reported, and reading
\* goes on.
Digit(b) ==
  \/ parser.state = "IDLE" /\ Goes("GET_DIGIT", b - ASCII_0, "none")
  \/ /\ parser.state = "GET_DIGIT"
     /\ LET n == (FLOOR_REG * 10 + b - ASCII_0) % WIDTH
        IN  Goes("GET_DIGIT", n, IF n > MAX_FLOOR THEN "error" ELSE "none")

Letter(b) ==
  \/ /\ parser.state = "GET_DIGIT" /\ b \in {ASCII_U, ASCII_D}
     /\ Goes(IF b = ASCII_U THEN "GET_U" ELSE "GET_D", FLOOR_REG, "none")
  \/ /\ parser.state \in DOMAIN Spelling /\ b = Spelling[parser.state][1]
     /\ Goes(Spelling[parser.state][2], FLOOR_REG, "none")

\* Enter behind UP or DOWN; a floor without such a call is ignored.
Enter ==
  \/ parser.state = "IDLE" /\ Goes("IDLE", FLOOR_REG, "none")
  \/ /\ parser.state = "GET_P"
     /\ Goes("IDLE", FLOOR_REG, IF valid_up THEN "up" ELSE "none")
  \/ /\ parser.state = "GET_N"
     /\ Goes("IDLE", FLOOR_REG, IF valid_down THEN "down" ELSE "none")

Understood(b) ==
  \/ b \in Typed /\ parser.state \in {"IDLE", "GET_DIGIT"}
  \/ b \in Enters /\ parser.state \in {"IDLE", "GET_P", "GET_N"}
  \/ parser.state = "GET_DIGIT" /\ b \in {ASCII_U, ASCII_D}
  \/ parser.state \in DOMAIN Spelling /\ b = Spelling[parser.state][1]

CMD_PARSER(b) ==
  /\ \/ b = NoByte /\ Goes(parser.state, FLOOR_REG, "none")
     \/ b \in Typed /\ Digit(b)
     \/ b \in Letters /\ Letter(b)
     \/ b \in Enters /\ Enter
     \/ b # NoByte /\ ~Understood(b) /\ Goes("IDLE", FLOOR_REG, "error")
  /\ FLOOR_ADDR' = IF strobe' \in {"up", "down"} THEN FLOOR_REG
                   ELSE FLOOR_ADDR

\* The pulse handed to the controller one cycle after the parser's strobe.
RegisterCall ==
  call' = IF strobe \in {"up", "down"}
            THEN [floor |-> FLOOR_ADDR % CALL_WIDTH, dir |-> strobe]
            ELSE NoCall

-----------------------------------------------------------------------------
(* A transmitter: `left` cycles of the byte remain, `done` is O_DONE.      *)

Nothing == -1                                 \* no byte was sent yet
ACTIVE(tx) == tx.left > 0

\* Mutant: the end of a byte is not announced.
UART_TX_NotDone(tx, start, data) ==
  IF ACTIVE(tx)
    THEN [left |-> tx.left - 1, done |-> FALSE, byte |-> tx.byte]
  ELSE IF start THEN [left |-> BYTE_CYCLES, done |-> FALSE, byte |-> data]
  ELSE [left |-> 0, done |-> FALSE, byte |-> tx.byte]

UART_TX(tx, start, data) ==
  IF ACTIVE(tx)
    THEN [left |-> tx.left - 1, done |-> tx.left = 1, byte |-> tx.byte]
  ELSE IF start THEN [left |-> BYTE_CYCLES, done |-> FALSE, byte |-> data]
  ELSE [left |-> 0, done |-> FALSE, byte |-> tx.byte]

Begins(tx, txNext) == ~ACTIVE(tx) /\ ACTIVE(txNext)

-----------------------------------------------------------------------------
(* The reply to an error.                                                  *)

Toggle(b) == QUIET_MODE' = IF b \in Enters THEN ~QUIET_MODE ELSE QUIET_MODE

AwaitError ==
  /\ ~reply.latched
  /\ reply' = [reply EXCEPT !.latched = strobe = "error", !.start = FALSE]

\* The next byte, `last` if it was the last one.
SendNext(idx, last) ==
  /\ reply.latched
  /\ reply' = [latched |-> ~last, idx |-> idx,
               start |-> ~ACTIVE(U_TX_ERR) /\ ~QUIET_MODE,
               data |-> reply.idx]

Over == U_TX_ERR.done /\ reply.idx = ERR_LAST
Following == (reply.idx + 1) % (ERR_LAST + 1)

\* Mutant: the index advances when a byte is started.
SendReplyEarly ==
  AwaitError \/ SendNext(IF reply.start THEN Following ELSE reply.idx, Over)

\* The byte is chosen from ERR_IDX of this cycle, which the end of the last
\* byte advances in the same cycle.
SendReply ==
  AwaitError
    \/ SendNext(IF U_TX_ERR.done THEN Following ELSE reply.idx, Over)

-----------------------------------------------------------------------------
(* The status frame.                                                       *)

Last == PREFIX + frame.len + 1                \* the line feed
ANY_ERROR_ACTIVE == reply.latched \/ ACTIVE(U_TX_ERR)

\* Mutant: a frame under way goes on beside a reply.
YieldToQuiet == QUIET_MODE

\* A frame is not started, or is broken off.
Yield == ANY_ERROR_ACTIVE \/ QUIET_MODE

\* What follows a byte, if nothing cuts the frame off.
Continue(state, idx, start, data) ==
  frame' = [state |-> IF Yield THEN "IDLE" ELSE state,
            idx |-> IF Yield THEN 0 ELSE idx,
            len |-> frame.len, start |-> start, data |-> data]

\* Mutant: a byte is started without a look at the transmitter.
SendByteBlindly ==
  frame.state = "SEND" /\ Continue("WAIT", frame.idx, TRUE, frame.idx)

\* The second is over in this cycle or not.
StartFrame ==
  /\ frame.state = "IDLE"
  /\ \/ frame' = [state |-> "IDLE", idx |-> frame.idx, len |-> frame.len,
                  start |-> FALSE, data |-> frame.data]
     \/ /\ ~Yield
        /\ \E len \in Lengths :
             frame' = [state |-> "SEND", idx |-> 0, len |-> len,
                       start |-> FALSE, data |-> frame.data]

\* A byte given to the transmitter in the cycle of the cut is still sent.
SendByte ==
  /\ frame.state = "SEND"
  /\ Continue(IF ACTIVE(U_TX_INFO) THEN "SEND" ELSE "WAIT", frame.idx,
              ~ACTIVE(U_TX_INFO), frame.idx)

WaitForByte ==
  /\ frame.state = "WAIT"
  /\ IF ~U_TX_INFO.done THEN Continue("WAIT", frame.idx, FALSE, frame.data)
     ELSE IF frame.idx = Last THEN Continue("IDLE", 0, FALSE, frame.data)
     ELSE Continue("SEND", frame.idx + 1, FALSE, frame.data)

-----------------------------------------------------------------------------
(* One clock edge, in which a received byte b is complete or none is.      *)

Init ==
  /\ parser = [state |-> "IDLE", floor |-> 0] /\ strobe = "none"
  /\ FLOOR_ADDR \in 0 .. WIDTH - 1            \* not reset
  /\ call = NoCall /\ QUIET_MODE = FALSE
  /\ reply = [latched |-> FALSE, idx |-> 0, start |-> FALSE, data |-> Nothing]
  /\ frame = [state |-> "IDLE", idx |-> 0, len |-> 0, start |-> FALSE,
              data |-> Nothing]
  /\ U_TX_ERR = [left |-> 0, done |-> FALSE, byte |-> Nothing]
  /\ U_TX_INFO = [left |-> 0, done |-> FALSE, byte |-> Nothing]
  /\ rxGap = 0 /\ hushed = FALSE

UART_RX(b) ==
  \/ b = NoByte /\ rxGap' = IF rxGap > 0 THEN rxGap - 1 ELSE 0
  \/ b \in Bytes /\ rxGap = 0 /\ rxGap' = RX_CYCLES - 1

Transmit ==
  /\ U_TX_ERR' = UART_TX(U_TX_ERR, reply.start, reply.data)
  /\ U_TX_INFO' = UART_TX(U_TX_INFO, frame.start, frame.data)
  /\ hushed' =
       (QUIET_MODE
          \/ (hushed /\ ~(Begins(U_TX_ERR, U_TX_ERR') /\ reply.data = 0)))

Clock(b) ==
  /\ UART_RX(b) /\ CMD_PARSER(b) /\ RegisterCall /\ Toggle(b)
  /\ SendReply /\ Transmit
  /\ StartFrame \/ SendByte \/ WaitForByte

Next == \E b \in Bytes \cup {NoByte} : Clock(b)

Spec == Init /\ [][Next]_vars
LiveSpec == Spec /\ WF_vars(Next)             \* the clock never stops

-----------------------------------------------------------------------------
(* Properties.                                                             *)

States == {"IDLE", "GET_DIGIT", "GET_P", "GET_N"} \cup DOMAIN Spelling

Texts == Nat \cup {Nothing}

\* Type: the counters keep to their texts, the numbers to their widths.
TypeOK ==
  /\ parser \in [state : States, floor : 0 .. WIDTH - 1]
  /\ strobe \in {"none", "error", "up", "down"}
  /\ FLOOR_ADDR \in 0 .. WIDTH - 1
  /\ call \in [floor : 0 .. CALL_WIDTH - 1, dir : {"none", "up", "down"}]
  /\ QUIET_MODE \in BOOLEAN /\ hushed \in BOOLEAN
  /\ reply \in [latched : BOOLEAN, idx : 0 .. ERR_LAST, start : BOOLEAN,
                data : Nothing .. ERR_LAST]
  /\ frame \in [state : {"IDLE", "SEND", "WAIT"}, idx : 0 .. Last,
                len : Lengths \cup {0}, start : BOOLEAN, data : Texts]
  /\ U_TX_ERR \in [left : 0 .. BYTE_CYCLES, done : BOOLEAN,
                   byte : Nothing .. ERR_LAST]
  /\ U_TX_INFO \in [left : 0 .. BYTE_CYCLES, done : BOOLEAN,
                    byte : Texts]
  /\ rxGap \in 0 .. RX_CYCLES - 1

\* Whatever is typed, a call handed to the controller is one a hall button
\* could make: an existing floor, upwards below the top, downwards above the
\* first (the Calls of ElevatorFSM; CMD_PARSER.v:46-47).
CallsAreServed ==
  /\ call.dir = "up" => call.floor \in 1 .. MAX_FLOOR - 1
  /\ call.dir = "down" => call.floor \in 2 .. MAX_FLOOR

\* elevator_pj/README.md:30 promises "ERR:CMD\r\n".  Outside quiet mode no byte
\* of a reply is left out, and none but the first is sent twice, which it is:
\* "EERR:CMD\r\n" (ELEVATOR_INTERFACE.v:203-231).
ReplyInOrderButTheFirst ==
  [][Begins(U_TX_ERR, U_TX_ERR') /\ ~hushed =>
       \/ U_TX_ERR'.byte = (U_TX_ERR.byte + 1) % (ERR_LAST + 1)
       \/ U_TX_ERR.byte = 0 /\ U_TX_ERR'.byte = 0]_vars

\* A status frame that was cut off never leaks into the next one: a byte of a
\* frame follows the byte before it, or opens a frame
\* (ELEVATOR_INTERFACE.v:324-340).
FramesInOrder ==
  [][Begins(U_TX_INFO, U_TX_INFO') =>
       U_TX_INFO'.byte \in {0, U_TX_INFO.byte + 1}]_vars

\* The two transmitters share the pin UART_TXD and the reply has it.  A status
\* byte may overlap the byte of a reply, but is over with it, up to two cycles
\* of its stop bit: no half status byte is left to come out behind
\* (ELEVATOR_INTERFACE.v:74, 243, 345).
StatusYields ==
  ACTIVE(U_TX_ERR) => U_TX_INFO.left <= U_TX_ERR.left + 2

\* Every frame is sent to its last byte, or gives way: no wait for the end of
\* a byte misses it (ELEVATOR_INTERFACE.v:330-341).
FrameIsSent ==
  frame.state = "SEND" ~> (U_TX_INFO.byte = Last \/ Yield)

=============================================================================
