----------------------------- MODULE LaneChange -----------------------------
(***************************************************************************)
(* The lane changes of a car: 차량 보드/wayland_npu_app.c.  The driver's    *)
(* signal reserves a change, which is carried out LANE_CHANGE_DELAY later, *)
(* or LANE_CHANGE_YIELD later if a faster car was close behind in a lane   *)
(* beside; the signal goes out to the other cars with the state that is    *)
(* broadcast every FRAMES_PER_SECOND frames.                               *)
(*                                                                         *)
(* A step is one frame of the render thread (Frame) or a button (Press).   *)
(* The delays and the ages of messages are times, the broadcast and the    *)
(* demo cycle count frames; a frame takes any of FrameTimes.               *)
(***************************************************************************)
EXTENDS Integers, FiniteSets

CONSTANTS
  Peers,                \* the other cars
  MYSELF, MOLIT,        \* this car and the ministry's board
  MAX_PEER_STATE,       \* slots for the state of other cars
  FRAMES_PER_SECOND,    \* frames from one broadcast to the next
  RESET_SECONDS,        \* the demo cycle: the position starts over
  FrameTimes,           \* how long a frame may take
  LANE_CHANGE_DELAY, LANE_CHANGE_YIELD, PEER_STALE,  \* times
  LANE_CHANGE_NEAR,     \* m
  LANE_MIN, LANE_MAX,
  INIT_SPEED,
  Speeds,               \* what the speed control may decide, km/h
  Targets,              \* where a stop may hold the car
  Messages,             \* what other boards send
  NoMsg, Unused,
  Buttons               \* what the driver may press

On == {"LANE_LEFT_ON", "LANE_RIGHT_ON"}
Off == {"LANE_LEFT_OFF", "LANE_RIGHT_OFF"}
Events == On \cup Off \cup {"SOS_ON", "SOS_OFF"}
Lanes == LANE_MIN..LANE_MAX
Slots == 1..MAX_PEER_STATE

ASSUME PeersAssumption ==
  /\ IsFiniteSet(Peers) /\ {MYSELF, MOLIT} \cap Peers = {}
  /\ MAX_PEER_STATE \in Nat /\ MAX_PEER_STATE >= Cardinality(Peers)
ASSUME TimeAssumption ==
  /\ FRAMES_PER_SECOND \in Nat \ {0} /\ RESET_SECONDS \in Nat \ {0}
  /\ FrameTimes \subseteq Nat
  /\ LANE_CHANGE_DELAY \in Nat \ {0}
  /\ LANE_CHANGE_YIELD \in Nat /\ LANE_CHANGE_YIELD >= LANE_CHANGE_DELAY
  /\ PEER_STALE \in Nat
ASSUME RoadAssumption ==
  /\ LANE_MIN \in Int /\ LANE_MAX \in Int /\ LANE_MIN <= LANE_MAX
  /\ LANE_CHANGE_NEAR \in Int
  /\ Speeds \subseteq Nat /\ INIT_SPEED \in Nat /\ Targets \subseteq Int
ASSUME MessagesAssumption ==
  /\ Messages \subseteq [id : Peers \cup {MYSELF, MOLIT}, lane : Int,
                         position : Int, speed : Int]
  /\ NoMsg \notin Messages
ASSUME UnusedAssumption ==
  Unused \notin [id : Peers, lane : Int, position : Int, speed : Int, age : Nat]
ASSUME ButtonsAssumption == Buttons \subseteq Events

VARIABLES
  framecnt,             \* frames since the last reset of the demo cycle
  qt, g_last_qt_event,  \* the button pressed last; the one acted upon last
  g_lane_change_pending,
  g_lane_change_dir,
  waited,               \* time since g_lane_change_ms
  g_lane_change_delay,
  g_my_lane, g_my_position, g_my_speed_final,
  g_peers,              \* g_peer_used, g_peer_last, g_peer_last_ms
  heard,                \* history: the last message of every car, with its age
  approaching,          \* history: the signal was given beside a faster car
  announced,            \* history: the signal has been broadcast
  slow,                 \* history: a frame since the signal was too slow
  wanted,               \* history: the last lane button was an ON
  overlooked            \* history: it was an OFF that no frame saw

reservation == <<g_lane_change_pending, g_lane_change_dir, waited,
                 g_lane_change_delay, approaching, slow>>
buttons == <<qt, g_last_qt_event, wanted, overlooked>>
motion == <<g_my_position, g_my_speed_final, framecnt>>
vars == <<buttons, reservation, g_my_lane, motion, g_peers, heard, announced>>

Init ==
  /\ framecnt = 0
  /\ qt = "LANE_LEFT_OFF" /\ g_last_qt_event = "LANE_LEFT_OFF"
  /\ g_lane_change_pending = FALSE /\ g_lane_change_dir = 0
  /\ waited = 0 /\ g_lane_change_delay = LANE_CHANGE_DELAY
  /\ g_my_lane \in Lanes /\ g_my_position = 0
  /\ g_my_speed_final = INIT_SPEED
  /\ g_peers = [s \in Slots |-> Unused]
  /\ heard = [p \in Peers |-> Unused]
  /\ approaching = FALSE /\ announced = FALSE /\ slow = FALSE
  /\ wanted = FALSE /\ overlooked = FALSE

LeastOf(S) == CHOOSE s \in S : \A t \in S : s <= t

-----------------------------------------------------------------------------
(* What is remembered of the other cars.                                   *)

\* Ages beyond PEER_STALE are all alike.
Aged(a) == IF a > PEER_STALE THEN PEER_STALE + 1 ELSE a

\* A message and a state remembered, at the end of a frame that takes t.
Fresh(m, t) == [id |-> m.id, lane |-> m.lane, position |-> m.position,
                speed |-> m.speed, age |-> Aged(t)]

Older(p, t) ==
  IF p = Unused THEN p
  ELSE [id |-> p.id, lane |-> p.lane, position |-> p.position,
        speed |-> p.speed, age |-> Aged(p.age + t)]

Holds(s, id) == g_peers[s] # Unused /\ g_peers[s].id = id

\* Mutant: a free slot is preferred to the one the car has.
SlotForFirstFree(id) ==
  LET own == {s \in Slots : Holds(s, id)}
      free == {s \in Slots : g_peers[s] = Unused}
  IN  IF free # {} THEN LeastOf(free) ELSE IF own # {} THEN LeastOf(own) ELSE 0

\* The slot for the state of a car: its own, else the first free one, else
\* none (0).
SlotFor(id) ==
  LET own == {s \in Slots : Holds(s, id)}
      free == {s \in Slots : g_peers[s] = Unused}
  IN  IF own # {} THEN LeastOf(own) ELSE IF free # {} THEN LeastOf(free) ELSE 0

save_peer_state(m, t) ==
  LET slot == IF m # NoMsg /\ m.id \notin {MYSELF, MOLIT}
                THEN SlotFor(m.id) ELSE 0
  IN  g_peers' = [s \in Slots |-> IF s = slot THEN Fresh(m, t)
                                              ELSE Older(g_peers[s], t)]

\* Not older than PEER_STALE, in a lane beside, at most LANE_CHANGE_NEAR
\* behind, and faster.
Approaching(p) ==
  /\ p # Unused /\ p.age <= PEER_STALE
  /\ p.lane - g_my_lane \in {-1, 1}
  /\ g_my_position > p.position
  /\ g_my_position - p.position <= LANE_CHANGE_NEAR
  /\ p.speed > g_my_speed_final

\* Mutant: only the first slot is looked at.
lane_change_need_yield_first == 1 \in Slots /\ Approaching(g_peers[1])

lane_change_need_yield == \E s \in Slots : Approaching(g_peers[s])

-----------------------------------------------------------------------------
(* The driver's signal.                                                    *)

\* serial_gui_task() stores the latest button at any moment.
Press(e) ==
  /\ e # qt /\ qt' = e
  /\ wanted' = (e \in On \/ (wanted /\ e \notin Off))
  /\ overlooked' = (/\ e \notin On \cup Off
                    /\ overlooked \/ (qt \in Off /\ qt # g_last_qt_event))
  /\ UNCHANGED <<g_last_qt_event, reservation, g_my_lane, motion, g_peers,
                 heard, announced>>

Direction(e) == IF e = "LANE_LEFT_ON" THEN -1 ELSE 1

\* Times beyond the longer delay are all alike.
Waiting(w) == IF w > LANE_CHANGE_YIELD THEN LANE_CHANGE_YIELD ELSE w

\* A frame so long that a delay may pass within fewer than FRAMES_PER_SECOND.
TooSlow(t) == t > LANE_CHANGE_DELAY \div FRAMES_PER_SECOND

\* Mutant: a signal in the other direction keeps the time of the first.
ReserveKeepsTime(t) ==
  /\ g_lane_change_pending' = TRUE
  /\ g_lane_change_dir' = Direction(qt)
  /\ waited' = Waiting(IF g_lane_change_pending THEN waited + t ELSE t)
  /\ g_lane_change_delay' = IF lane_change_need_yield THEN LANE_CHANGE_YIELD
                                                      ELSE LANE_CHANGE_DELAY
  /\ approaching' = \E p \in Peers : Approaching(heard[p])
  /\ slow' = TooSlow(t)
  /\ UNCHANGED g_my_lane

\* A signal reserves a change, in place of an earlier one.
Reserve(t) ==
  /\ g_lane_change_pending' = TRUE
  /\ g_lane_change_dir' = Direction(qt)
  /\ waited' = Waiting(t)
  /\ g_lane_change_delay' = IF lane_change_need_yield THEN LANE_CHANGE_YIELD
                                                      ELSE LANE_CHANGE_DELAY
  /\ approaching' = \E p \in Peers : Approaching(heard[p])
  /\ slow' = TooSlow(t)
  /\ UNCHANGED g_my_lane

\* The end of either signal cancels the reservation, whatever its direction.
Cancel ==
  /\ g_lane_change_pending' = FALSE
  /\ UNCHANGED <<g_lane_change_dir, waited, g_lane_change_delay, approaching,
                 slow, g_my_lane>>

\* The change is carried out if there is such a lane; nobody looks again.
Execute ==
  LET lane == g_my_lane + g_lane_change_dir
  IN  /\ g_my_lane' = IF lane \in Lanes THEN lane ELSE g_my_lane
      /\ g_lane_change_pending' = FALSE
      /\ UNCHANGED <<g_lane_change_dir, waited, g_lane_change_delay,
                     approaching, slow>>

Wait(t) ==
  /\ waited' = Waiting(waited + t)
  /\ slow' = (slow \/ TooSlow(t))
  /\ UNCHANGED <<g_lane_change_pending, g_lane_change_dir,
                 g_lane_change_delay, approaching, g_my_lane>>

\* Mutant: only the end of the left signal cancels.
SignalLeftOffOnly(t) ==
  \/ qt # g_last_qt_event /\ qt \in On /\ Reserve(t)
  \/ qt # g_last_qt_event /\ qt = "LANE_LEFT_OFF" /\ Cancel
  \/ /\ qt = g_last_qt_event \/ qt \notin On \cup {"LANE_LEFT_OFF"}
     /\ \/ g_lane_change_pending /\ waited >= g_lane_change_delay /\ Execute
        \/ g_lane_change_pending /\ waited < g_lane_change_delay /\ Wait(t)
        \/ ~g_lane_change_pending /\ UNCHANGED <<reservation, g_my_lane>>

\* A button is acted upon when it differs from the one before; the
\* reservation that is due is carried out in the same frame.
Signal(t) ==
  \/ qt # g_last_qt_event /\ qt \in On /\ Reserve(t)
  \/ qt # g_last_qt_event /\ qt \in Off /\ Cancel
  \/ /\ qt = g_last_qt_event \/ qt \notin On \cup Off
     /\ \/ g_lane_change_pending /\ waited >= g_lane_change_delay /\ Execute
        \/ g_lane_change_pending /\ waited < g_lane_change_delay /\ Wait(t)
        \/ ~g_lane_change_pending /\ UNCHANGED <<reservation, g_my_lane>>

-----------------------------------------------------------------------------
(* The frame.                                                              *)

\* The first frame of a second: a new speed and a position further on, or
\* that of a stop's target, wherever it is, if the car is past it.  The end of
\* the demo cycle takes the car back to the start and ends any stop.
Drive ==
  IF framecnt % FRAMES_PER_SECOND = 0
    THEN \E speed \in Speeds :
           LET resets == framecnt = RESET_SECONDS * FRAMES_PER_SECOND
               to == (IF resets THEN 0 ELSE g_my_position) + speed \div 10
           IN  /\ g_my_speed_final' = speed
               /\ \/ g_my_position' = to
                  \/ ~resets /\ g_my_position' \in {x \in Targets : x < to}
    ELSE UNCHANGED <<g_my_speed_final, g_my_position>>

\* The same frame tells the other cars, with the last button as event_type.
Broadcast ==
  announced' = \/ framecnt % FRAMES_PER_SECOND = 0 /\ qt \in On
               \/ announced /\ (qt = g_last_qt_event \/ qt \notin On)

Frame(m, t) ==
  /\ Signal(t)
  /\ g_last_qt_event' = qt
  /\ save_peer_state(m, t)
  /\ heard' = [p \in Peers |-> IF m # NoMsg /\ m.id = p THEN Fresh(m, t)
                                                        ELSE Older(heard[p], t)]
  /\ Drive /\ Broadcast
  /\ framecnt' = IF framecnt = RESET_SECONDS * FRAMES_PER_SECOND
                   THEN 1 ELSE framecnt + 1
  /\ UNCHANGED <<qt, wanted, overlooked>>

AnyFrame == \E m \in Messages \cup {NoMsg}, t \in FrameTimes : Frame(m, t)

Next ==
  \/ AnyFrame
  \/ \E e \in Buttons : Press(e)

Spec == Init /\ [][Next]_vars

-----------------------------------------------------------------------------
(* Properties.                                                             *)

PeerState ==
  [id : Peers, lane : Int, position : Int, speed : Int, age : 0..(PEER_STALE + 1)]

\* The car stays on the road, and no reservation outlives its delay.
TypeOK ==
  /\ framecnt \in 0..(RESET_SECONDS * FRAMES_PER_SECOND)
  /\ qt \in Events /\ g_last_qt_event \in Events
  /\ g_lane_change_pending \in BOOLEAN /\ g_lane_change_dir \in {-1, 0, 1}
  /\ g_lane_change_delay \in {LANE_CHANGE_DELAY, LANE_CHANGE_YIELD}
  /\ waited \in 0..LANE_CHANGE_YIELD
  /\ g_my_lane \in Lanes /\ g_my_position \in Int /\ g_my_speed_final \in Nat
  /\ g_peers \in [Slots -> PeerState \cup {Unused}]
  /\ heard \in [Peers -> PeerState \cup {Unused}]
  /\ approaching \in BOOLEAN /\ announced \in BOOLEAN /\ slow \in BOOLEAN
  /\ wanted \in BOOLEAN /\ overlooked \in BOOLEAN

\* The slots hold the last message of every car that was ever heard of, each
\* car in one slot, and nothing else: neither the own echo nor the codes of
\* the ministry's board (comment at line 552).
SlotsHoldTheLatest ==
  /\ \A s \in Slots :
       g_peers[s] # Unused => g_peers[s] = heard[g_peers[s].id]
  /\ \A p \in Peers :
       heard[p] # Unused => \E s \in Slots : g_peers[s] = heard[p]
  /\ \A s, t \in Slots :
       g_peers[s] # Unused /\ g_peers[s] = g_peers[t] => s = t

\* A change comes the full delay after its signal, and the yielding one if a
\* faster car was close behind when the signal was given, as far as any
\* message not older than PEER_STALE told (comment at line 572).
ChangeWaits ==
  [][g_my_lane' # g_my_lane
       => waited >= IF approaching THEN LANE_CHANGE_YIELD
                                   ELSE LANE_CHANGE_DELAY]_vars

\* No car changes its lane unless its signal went out to the others first
\* (comment at line 1231: the signal itself goes out as event_type), but where
\* a frame took longer than its part of the delay, the broadcast being counted
\* in frames and the delay in milliseconds, or the button of an emergency took
\* the place of the signal.
ChangeIsAnnounced ==
  [][g_my_lane' # g_my_lane
       => announced \/ slow \/ qt \notin On \cup Off]_vars

\* A signal that was switched off changes nothing any more (comment at line
\* 1249: off cancels the reservation), but where another button was pressed
\* before a frame saw the OFF.
ChangeIsWanted == [][g_my_lane' # g_my_lane => wanted \/ overlooked]_vars

=============================================================================
