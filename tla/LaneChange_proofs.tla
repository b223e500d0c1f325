-------------------------- MODULE LaneChange_proofs --------------------------
(***************************************************************************)
(* Theorems about LaneChange for any number of other cars, any messages,   *)
(* any delays and any length of the demo cycle.                            *)
(***************************************************************************)
EXTENDS LaneChange, FiniteSetTheorems, WellFoundedInduction, TLAPS

(***************************************************************************)
(* Facts about numbers.                                                    *)
(***************************************************************************)

LEMMA LeastIsIn ==
  ASSUME NEW S \in SUBSET Nat, S # {} PROVE LeastOf(S) \in S
<1>1. PICK x \in S : \A y \in S : ~(<<y, x>> \in OpToRel(<, Nat))
  BY NatLessThanWellFounded, WFMin
<1>2. ASSUME NEW y \in S PROVE x <= y
  <2>1. ~(<<y, x>> \in {ss \in Nat \X Nat : ss[1] < ss[2]})
    BY <1>1 DEF OpToRel
  <2>2. <<y, x>> \in Nat \X Nat /\ <<y, x>>[1] = y /\ <<y, x>>[2] = x
    OBVIOUS
  <2>3. ~(y < x)
    BY <2>1, <2>2
  <2>4. QED
    BY <2>3
<1>3. QED
  BY <1>1, <1>2 DEF LeastOf

LEMMA Division ==
  ASSUME NEW a \in Nat, NEW n \in Nat \ {0}
  PROVE  a = n * (a \div n) + (a % n) /\ a % n \in 0..(n - 1) /\ a \div n \in Nat
<1>1. a = n * (a \div n) + (a % n)
  OBVIOUS
<1>2. a % n \in 0..(n - 1)
  OBVIOUS
<1>3. a \div n \in Nat
  OBVIOUS
<1>4. QED
  BY <1>1, <1>2, <1>3

\* A multiple of n is within n of 0 only if it is 0.
LEMMA SmallMultiple ==
  ASSUME NEW n \in Nat \ {0}, NEW k \in Int, -n < n * k, n * k < n
  PROVE  k = 0
<1>1. CASE k >= 1
  <2>1. n * k >= n
    BY <1>1
  <2>2. QED
    BY <2>1
<1>2. CASE k <= -1
  <2>1. n * k <= -n
    BY <1>2
  <2>2. QED
    BY <2>1
<1>3. QED
  BY <1>1, <1>2

LEMMA NextRemainder ==
  ASSUME NEW a \in Nat, NEW n \in Nat \ {0}, (a + 1) % n # 0
  PROVE  (a + 1) % n = (a % n) + 1
<1>1. a + 1 \in Nat
  OBVIOUS
<1> DEFINE p == a \div n  r == a % n  q == (a + 1) \div n  s == (a + 1) % n
<1>2. a = n * p + r /\ r \in 0..(n - 1) /\ p \in Nat
  BY Division
<1>3. a + 1 = n * q + s /\ s \in 0..(n - 1) /\ q \in Nat /\ s # 0
  BY <1>1, Division
<1> HIDE DEF p, q, r, s
<1>4. n * (q - p) = r + 1 - s /\ r + 1 - s < n /\ -n < r + 1 - s
  BY <1>2, <1>3
<1>5. q - p = 0
  BY <1>2, <1>3, <1>4, SmallMultiple
<1>6. QED
  BY <1>2, <1>3, <1>4, <1>5 DEF r, s

LEMMA MultipleHasNoRemainder ==
  ASSUME NEW k \in Nat, NEW n \in Nat \ {0} PROVE (k * n) % n = 0
<1>1. k * n \in Nat
  OBVIOUS
<1> DEFINE q == (k * n) \div n  s == (k * n) % n
<1>2. k * n = n * q + s /\ s \in 0..(n - 1) /\ q \in Nat
  BY <1>1, Division
<1> HIDE DEF q, s
<1>3. n * (k - q) = s
  BY <1>2
<1>4. k - q = 0
  BY <1>2, <1>3, SmallMultiple
<1>5. QED
  BY <1>2, <1>3, <1>4 DEF s

\* The demo cycle has at least one frame.
LEMMA Cycle ==
  RESET_SECONDS * FRAMES_PER_SECOND \in Nat
    /\ RESET_SECONDS * FRAMES_PER_SECOND >= 1
<1>1. RESET_SECONDS \in Nat \ {0} /\ FRAMES_PER_SECOND \in Nat \ {0}
  BY TimeAssumption
<1>2. RESET_SECONDS * FRAMES_PER_SECOND >= FRAMES_PER_SECOND
  BY <1>1
<1>3. QED
  BY <1>1, <1>2

(***************************************************************************)
(* What is remembered of the other cars.                                   *)
(***************************************************************************)

Remembered == PeerState \cup {Unused}

LEMMA PeerStateIsUsed == \A p \in PeerState : p # Unused
<1>1. PeerState \subseteq [id : Peers, lane : Int, position : Int, speed : Int,
                           age : Nat]
  BY TimeAssumption DEF PeerState
<1>2. QED
  BY <1>1, UnusedAssumption

LEMMA AgedTyped == \A a \in Nat : Aged(a) \in 0..(PEER_STALE + 1)
  BY TimeAssumption DEF Aged

LEMMA OlderKeeps ==
  ASSUME NEW p \in Remembered, NEW t \in FrameTimes
  PROVE  /\ Older(p, t) \in Remembered
         /\ Older(p, t) = Unused <=> p = Unused
         /\ p # Unused => Older(p, t).id = p.id
<1>1. CASE p = Unused
  BY <1>1 DEF Older, Remembered
<1>2. CASE p # Unused
  <2>1. p \in PeerState
    BY <1>2 DEF Remembered
  <2>2. Aged(p.age + t) \in 0..(PEER_STALE + 1)
    <3>1. p.age + t \in Nat
      BY <2>1, TimeAssumption DEF PeerState
    <3>2. QED
      BY <3>1, AgedTyped
  <2>3. Older(p, t) \in PeerState /\ Older(p, t).id = p.id
    BY <1>2, <2>1, <2>2 DEF Older, PeerState
  <2>4. QED
    BY <1>2, <2>3, PeerStateIsUsed DEF Remembered
<1>3. QED
  BY <1>1, <1>2

LEMMA FreshTyped ==
  ASSUME NEW m \in Messages, m.id \in Peers, NEW t \in FrameTimes
  PROVE  Fresh(m, t) \in PeerState /\ Fresh(m, t).id = m.id /\ Fresh(m, t) # Unused
<1>1. Fresh(m, t) \in PeerState /\ Fresh(m, t).id = m.id
  BY MessagesAssumption, TimeAssumption, AgedTyped DEF Fresh, PeerState
<1>2. QED
  BY <1>1, PeerStateIsUsed

Named == \A p \in Peers : heard[p] # Unused => heard[p].id = p

TablesOK ==
  /\ g_peers \in [Slots -> Remembered] /\ heard \in [Peers -> Remembered]
  /\ Named /\ SlotsHoldTheLatest

\* A car has one slot.
LEMMA OneSlot ==
  ASSUME TablesOK, NEW id \in Peers, NEW s \in Slots, NEW t \in Slots,
         Holds(s, id), Holds(t, id)
  PROVE  s = t
<1>1. g_peers[s] = heard[id] /\ g_peers[t] = heard[id] /\ g_peers[s] # Unused
  BY DEF Holds, TablesOK, SlotsHoldTheLatest
<1>2. QED
  BY <1>1 DEF TablesOK, SlotsHoldTheLatest

\* There is a slot for every car: were all of them taken by others, there
\* would be fewer slots than cars.
LEMMA FreeSlot ==
  ASSUME TablesOK, NEW id \in Peers, \A s \in Slots : ~Holds(s, id)
  PROVE  \E s \in Slots : g_peers[s] = Unused
<1> SUFFICES ASSUME \A s \in Slots : g_peers[s] # Unused PROVE FALSE
  OBVIOUS
<1> DEFINE f == [s \in Slots |-> g_peers[s].id]
<1>1. \A s \in Slots : g_peers[s].id \in Peers \ {id}
  BY DEF TablesOK, Remembered, PeerState, Holds
<1>2. f \in [Slots -> Peers \ {id}]
  BY <1>1
<1>3. \A s, t \in Slots : f[s] = f[t] => s = t
  <2>1. TAKE s, t \in Slots
  <2>2. HAVE f[s] = f[t]
  <2>3. Holds(s, g_peers[s].id) /\ Holds(t, g_peers[s].id)
    BY <2>2 DEF Holds
  <2>4. QED
    BY <1>1, <2>3, OneSlot
<1>4. f \in Injection(Slots, Peers \ {id})
  BY <1>2, <1>3 DEF Injection, IsInjective
<1>5. /\ IsFiniteSet(Peers \ {id})
      /\ Cardinality(Peers \ {id}) = Cardinality(Peers) - 1
      /\ Cardinality(Peers) \in Nat
  BY PeersAssumption, FS_RemoveElement, FS_CardinalityType
<1>6. Cardinality(Slots) <= Cardinality(Peers \ {id})
  BY <1>4, <1>5, FS_Injection
<1>7. Cardinality(Slots) = MAX_PEER_STATE
  <2>1. MAX_PEER_STATE \in Nat
    BY PeersAssumption
  <2>2. QED
    BY <2>1, FS_Interval DEF Slots
<1>8. QED
  BY <1>5, <1>6, <1>7, PeersAssumption

LEMMA SlotFound ==
  ASSUME TablesOK, NEW id \in Peers
  PROVE  /\ SlotFor(id) \in Slots
         /\ \/ Holds(SlotFor(id), id)
            \/ g_peers[SlotFor(id)] = Unused /\ \A s \in Slots : ~Holds(s, id)
<1>1. Slots \subseteq Nat
  BY PeersAssumption DEF Slots
<1>2. CASE \E s \in Slots : Holds(s, id)
  <2>1. {s \in Slots : Holds(s, id)} # {}
    BY <1>2
  <2>2. LeastOf({s \in Slots : Holds(s, id)}) \in {s \in Slots : Holds(s, id)}
    BY <1>1, <2>1, LeastIsIn
  <2>3. QED
    BY <2>1, <2>2 DEF SlotFor
<1>3. CASE \A s \in Slots : ~Holds(s, id)
  <2>1. {s \in Slots : Holds(s, id)} = {} /\ {s \in Slots : g_peers[s] = Unused} # {}
    BY <1>3, FreeSlot
  <2>2. LeastOf({s \in Slots : g_peers[s] = Unused})
          \in {s \in Slots : g_peers[s] = Unused}
    BY <1>1, <2>1, LeastIsIn
  <2>3. QED
    BY <1>3, <2>1, <2>2 DEF SlotFor
<1>4. QED
  BY <1>2, <1>3

\* A frame brings the slots and the history up to date in the same way.
LEMMA FrameKeepsTables ==
  ASSUME TablesOK, NEW m \in Messages \cup {NoMsg}, NEW t \in FrameTimes, Frame(m, t)
  PROVE  TablesOK'
<1> DEFINE tells == m # NoMsg /\ m.id \notin {MYSELF, MOLIT}
           slot == IF tells THEN SlotFor(m.id) ELSE 0
<1>1. /\ g_peers' = [s \in Slots |-> IF s = slot THEN Fresh(m, t) ELSE Older(g_peers[s], t)]
      /\ heard' = [p \in Peers |-> IF m # NoMsg /\ m.id = p THEN Fresh(m, t)
                                                            ELSE Older(heard[p], t)]
  BY DEF Frame, save_peer_state
<1>2. tells => m \in Messages /\ m.id \in Peers
  BY MessagesAssumption
<1>3. \A p \in Peers : m # NoMsg /\ m.id = p => tells
  BY PeersAssumption
<1>4. ~tells => slot \notin Slots
  BY DEF Slots
<1>5. tells => /\ slot = SlotFor(m.id) /\ slot \in Slots
               /\ \/ Holds(slot, m.id)
                  \/ g_peers[slot] = Unused /\ \A s \in Slots : ~Holds(s, m.id)
  BY <1>2, SlotFound
<1>6. tells => /\ Fresh(m, t) \in PeerState /\ Fresh(m, t).id = m.id /\ Fresh(m, t) # Unused
  BY <1>2, FreshTyped
<1> HIDE DEF tells, slot
<1>7. /\ \A s \in Slots : g_peers[s] \in Remembered
      /\ \A p \in Peers : heard[p] \in Remembered
  BY DEF TablesOK
<1>8. \A s \in Slots : g_peers'[s] = IF s = slot THEN Fresh(m, t) ELSE Older(g_peers[s], t)
  BY <1>1
<1>9. \A p \in Peers : heard'[p] = IF tells /\ m.id = p THEN Fresh(m, t)
                                                        ELSE Older(heard[p], t)
  BY <1>1, <1>3 DEF tells
<1>10. \A s \in Slots : s = slot => tells
  BY <1>4
<1>11. g_peers' \in [Slots -> Remembered] /\ heard' \in [Peers -> Remembered]
  <2>1. \A s \in Slots : g_peers'[s] \in Remembered
    BY <1>6, <1>7, <1>8, <1>10, OlderKeeps DEF Remembered
  <2>2. \A p \in Peers : heard'[p] \in Remembered
    <3>1. TAKE p \in Peers
    <3>2. Older(heard[p], t) \in Remembered
      BY <1>7, OlderKeeps
    <3>3. tells => Fresh(m, t) \in Remembered
      BY <1>6 DEF Remembered
    <3>4. QED
      BY <1>9, <3>2, <3>3
  <2>3. QED
    BY <1>1, <2>1, <2>2
<1>12. Named'
  BY <1>6, <1>7, <1>9, OlderKeeps DEF TablesOK, Named
<1>13. ASSUME NEW s \in Slots, s # slot, g_peers'[s] # Unused
       PROVE  /\ g_peers[s] # Unused /\ g_peers'[s].id = g_peers[s].id
              /\ g_peers[s].id \in Peers
              /\ g_peers[s] = heard[g_peers[s].id]
              /\ ~(tells /\ m.id = g_peers[s].id)
  <2>1. g_peers[s] # Unused /\ g_peers'[s].id = g_peers[s].id
    BY <1>7, <1>8, <1>13, OlderKeeps
  <2>2. g_peers[s].id \in Peers
    BY <1>7, <2>1 DEF Remembered, PeerState
  <2>3. g_peers[s] = heard[g_peers[s].id]
    BY <2>1 DEF TablesOK, SlotsHoldTheLatest
  <2>4. ASSUME tells, m.id = g_peers[s].id PROVE FALSE
    <3>1. Holds(s, m.id)
      BY <2>1, <2>4 DEF Holds
    <3>2. Holds(slot, m.id) /\ slot \in Slots
      BY <1>5, <2>4, <3>1
    <3>3. QED
      BY <1>2, <1>13, <2>4, <3>1, <3>2, OneSlot
  <2>5. QED
    BY <2>1, <2>2, <2>3, <2>4
<1>14. ASSUME NEW s \in Slots, g_peers'[s] # Unused
       PROVE  g_peers'[s] = heard'[g_peers'[s].id]
  <2>1. CASE s = slot
    BY <1>2, <1>6, <1>8, <1>9, <1>10, <2>1
  <2>2. CASE s # slot
    BY <1>8, <1>9, <1>13, <1>14, <2>2
  <2>3. QED
    BY <2>1, <2>2
<1>15. ASSUME NEW p \in Peers, heard'[p] # Unused
       PROVE  \E s \in Slots : g_peers'[s] = heard'[p]
  <2>1. CASE tells /\ m.id = p
    BY <1>5, <1>8, <1>9, <2>1
  <2>2. CASE ~(tells /\ m.id = p)
    <3>1. heard'[p] = Older(heard[p], t) /\ heard[p] # Unused /\ heard[p].id = p
      BY <1>7, <1>9, <1>15, <2>2, OlderKeeps DEF TablesOK, Named
    <3>2. PICK s \in Slots : g_peers[s] = heard[p]
      BY <3>1 DEF TablesOK, SlotsHoldTheLatest
    <3>3. s # slot
      BY <1>5, <1>10, <2>2, <3>1, <3>2 DEF Holds
    <3>4. QED
      BY <1>8, <3>1, <3>2, <3>3
  <2>3. QED
    BY <2>1, <2>2
<1>16. ASSUME NEW s \in Slots, NEW u \in Slots, g_peers'[s] # Unused,
              g_peers'[s] = g_peers'[u]
       PROVE  s = u
  <2>1. CASE s # slot /\ u # slot
    <3>1. g_peers[s] = g_peers[u] /\ g_peers[s] # Unused
      BY <1>13, <1>16, <2>1
    <3>2. QED
      BY <3>1 DEF TablesOK, SlotsHoldTheLatest
  <2>2. ASSUME NEW x \in Slots, NEW y \in Slots, x = slot, y # slot,
               g_peers'[x] = g_peers'[y], g_peers'[y] # Unused
        PROVE  FALSE
    BY <1>6, <1>8, <1>10, <1>13, <2>2
  <2>3. QED
    BY <1>16, <2>1, <2>2
<1>17. SlotsHoldTheLatest'
  BY <1>14, <1>15, <1>16 DEF SlotsHoldTheLatest
<1>18. QED
  BY <1>11, <1>12, <1>17 DEF TablesOK

(***************************************************************************)
(* The reservation.                                                        *)
(***************************************************************************)

\* What the driver's signal found in the slots is what the messages told.
LEMMA YieldsToTheHeard ==
  ASSUME TablesOK
  PROVE  lane_change_need_yield <=> \E p \in Peers : Approaching(heard[p])
<1>1. ASSUME NEW s \in Slots, Approaching(g_peers[s])
      PROVE  \E p \in Peers : Approaching(heard[p])
  <2>1. g_peers[s] # Unused
    BY <1>1 DEF Approaching
  <2>2. g_peers[s].id \in Peers /\ g_peers[s] = heard[g_peers[s].id]
    BY <2>1 DEF TablesOK, Remembered, PeerState, SlotsHoldTheLatest
  <2>3. QED
    BY <1>1, <2>2
<1>2. ASSUME NEW p \in Peers, Approaching(heard[p]) PROVE lane_change_need_yield
  <2>1. PICK s \in Slots : g_peers[s] = heard[p]
    BY <1>2 DEF Approaching, TablesOK, SlotsHoldTheLatest
  <2>2. QED
    BY <1>2, <2>1 DEF lane_change_need_yield
<1>3. QED
  BY <1>1, <1>2 DEF lane_change_need_yield

\* The delay is the one that the signal called for.
DelayFits ==
  g_lane_change_delay = IF approaching THEN LANE_CHANGE_YIELD ELSE LANE_CHANGE_DELAY

IInv == TypeOK /\ TablesOK /\ DelayFits

LEMMA InitIInv == Init => IInv
<1> SUFFICES ASSUME Init PROVE IInv
  OBVIOUS
<1>1. 0 \in 0..(RESET_SECONDS * FRAMES_PER_SECOND)
  BY Cycle
<1>2. 0 \in 0..LANE_CHANGE_YIELD
  BY TimeAssumption
<1>3. TypeOK
  <2>1. g_my_speed_final \in Nat /\ g_my_lane \in Lanes /\ g_my_position \in Int
    BY RoadAssumption DEF Init
  <2>2. /\ g_peers \in [Slots -> PeerState \cup {Unused}]
        /\ heard \in [Peers -> PeerState \cup {Unused}]
    BY DEF Init
  <2>3. QED
    BY <1>1, <1>2, <2>1, <2>2 DEF Init, TypeOK, Events, Off
<1>4. TablesOK
  BY DEF Init, TablesOK, Remembered, Named, SlotsHoldTheLatest
<1>5. DelayFits
  BY DEF Init, DelayFits
<1>6. QED
  BY <1>3, <1>4, <1>5 DEF IInv

LEMMA WaitingTyped == \A w \in Nat : Waiting(w) \in 0..LANE_CHANGE_YIELD /\ Waiting(w) <= w
  BY TimeAssumption DEF Waiting

\* What a frame makes of the driver's signal.
LEMMA SignalKeeps ==
  ASSUME IInv, NEW t \in FrameTimes, Signal(t)
  PROVE  /\ g_lane_change_pending' \in BOOLEAN /\ g_lane_change_dir' \in {-1, 0, 1}
         /\ g_lane_change_delay' \in {LANE_CHANGE_DELAY, LANE_CHANGE_YIELD}
         /\ waited' \in 0..LANE_CHANGE_YIELD
         /\ approaching' \in BOOLEAN /\ slow' \in BOOLEAN
         /\ g_my_lane' \in Lanes /\ DelayFits'
         /\ g_my_lane' # g_my_lane =>
              /\ Execute /\ g_lane_change_pending /\ waited >= g_lane_change_delay
              /\ qt = g_last_qt_event \/ qt \notin On \cup Off
<1>1. t \in Nat /\ LANE_CHANGE_YIELD \in Nat
  BY TimeAssumption
<1>2. /\ g_lane_change_pending \in BOOLEAN /\ g_lane_change_dir \in {-1, 0, 1}
      /\ g_lane_change_delay \in {LANE_CHANGE_DELAY, LANE_CHANGE_YIELD}
      /\ waited \in 0..LANE_CHANGE_YIELD
      /\ approaching \in BOOLEAN /\ slow \in BOOLEAN
      /\ g_my_lane \in Lanes /\ DelayFits
  BY DEF IInv, TypeOK
<1>3. CASE Reserve(t)
  <2>1. g_lane_change_dir' \in {-1, 0, 1} /\ waited' \in 0..LANE_CHANGE_YIELD
    BY <1>1, <1>3, WaitingTyped DEF Reserve, Direction
  <2>2. approaching' \in BOOLEAN /\ (approaching' <=> lane_change_need_yield)
    BY <1>3, YieldsToTheHeard DEF Reserve, IInv
  <2>3. DelayFits'
    BY <1>3, <2>2 DEF Reserve, DelayFits
  <2>4. g_lane_change_delay' \in {LANE_CHANGE_DELAY, LANE_CHANGE_YIELD}
    BY <1>3 DEF Reserve
  <2>5. slow' \in BOOLEAN
    <3>1. slow' = TooSlow(t)
      BY <1>3, Zenon DEF Reserve
    <3>2. TooSlow(t) \in BOOLEAN
      BY DEF TooSlow
    <3>3. QED
      BY <3>1, <3>2
  <2>6. QED
    BY <1>2, <1>3, <2>1, <2>2, <2>3, <2>4, <2>5 DEF Reserve
<1>4. CASE Cancel
  BY <1>2, <1>4 DEF Cancel, DelayFits
<1>5. CASE Execute /\ g_lane_change_pending /\ waited >= g_lane_change_delay
           /\ (qt = g_last_qt_event \/ qt \notin On \cup Off)
  BY <1>2, <1>5 DEF Execute, DelayFits
<1>6. CASE Wait(t) /\ waited < g_lane_change_delay
  <2>1. waited' \in 0..LANE_CHANGE_YIELD
    <3>1. waited + t \in Nat
      BY <1>1, <1>2
    <3>2. QED
      BY <1>6, <3>1, WaitingTyped DEF Wait
  <2>2. slow' \in BOOLEAN
    <3>1. slow' = (slow \/ TooSlow(t))
      BY <1>6, Zenon DEF Wait
    <3>2. QED
      BY <3>1, Zenon
  <2>3. QED
    BY <1>2, <1>6, <2>1, <2>2 DEF Wait, DelayFits
<1>7. CASE UNCHANGED <<reservation, g_my_lane>>
  BY <1>2, <1>7 DEF reservation, DelayFits
<1>8. QED
  BY <1>3, <1>4, <1>5, <1>6, <1>7 DEF Signal

LEMMA FrameKeeps ==
  ASSUME IInv, NEW m \in Messages \cup {NoMsg}, NEW t \in FrameTimes, Frame(m, t)
  PROVE  IInv'
<1>1. TablesOK'
  BY FrameKeepsTables DEF IInv
<1>2. Signal(t) /\ Drive /\ Broadcast
  BY DEF Frame
<1>3. framecnt' \in 0..(RESET_SECONDS * FRAMES_PER_SECOND)
  BY Cycle DEF Frame, IInv, TypeOK
<1>4. g_my_position' \in Int /\ g_my_speed_final' \in Nat
  <2>1. g_my_position \in Int /\ g_my_speed_final \in Nat
    BY DEF IInv, TypeOK
  <2>2. \A speed \in Speeds : speed \in Nat /\ speed \div 10 \in Nat
    BY RoadAssumption
  <2>3. CASE framecnt % FRAMES_PER_SECOND = 0
    <3> DEFINE resets == framecnt = RESET_SECONDS * FRAMES_PER_SECOND
               to(v) == (IF resets THEN 0 ELSE g_my_position) + v \div 10
    <3>1. PICK speed \in Speeds :
            /\ g_my_speed_final' = speed
            /\ \/ g_my_position' = to(speed)
               \/ ~resets /\ g_my_position' \in {x \in Targets : x < to(speed)}
      BY <1>2, <2>3 DEF Drive
    <3>2. to(speed) \in Int
      BY <2>1, <2>2
    <3>3. Targets \subseteq Int
      BY RoadAssumption
    <3> HIDE DEF to, resets
    <3>4. QED
      BY <2>2, <3>1, <3>2, <3>3
  <2>4. CASE framecnt % FRAMES_PER_SECOND # 0
    BY <1>2, <2>1, <2>4 DEF Drive
  <2>5. QED
    BY <2>3, <2>4
<1>5. announced' \in BOOLEAN
  <2>1. announced \in BOOLEAN
    BY DEF IInv, TypeOK
  <2>2. QED
    BY <1>2, <2>1 DEF Broadcast
<1>6. /\ qt' \in Events /\ g_last_qt_event' \in Events
      /\ wanted' \in BOOLEAN /\ overlooked' \in BOOLEAN
  BY DEF Frame, IInv, TypeOK
<1>7. g_peers' \in [Slots -> PeerState \cup {Unused}]
        /\ heard' \in [Peers -> PeerState \cup {Unused}]
  BY <1>1 DEF TablesOK, Remembered
<1>8. TypeOK' /\ DelayFits'
  BY <1>2, <1>3, <1>4, <1>5, <1>6, <1>7, SignalKeeps DEF TypeOK
<1>9. QED
  BY <1>1, <1>8 DEF IInv

LEMMA PressKeeps == ASSUME IInv, NEW e \in Buttons, Press(e) PROVE IInv'
<1>1. wanted' \in BOOLEAN /\ overlooked' \in BOOLEAN
  BY Zenon DEF Press, IInv, TypeOK
<1>2. TypeOK'
  BY <1>1, ButtonsAssumption DEF Press, IInv, TypeOK, reservation, motion
<1>3. TablesOK' /\ DelayFits'
  BY DEF Press, IInv, TablesOK, Named, SlotsHoldTheLatest, DelayFits, reservation
<1>4. QED
  BY <1>2, <1>3 DEF IInv

LEMMA NextIInv == IInv /\ [Next]_vars => IInv'
<1>1. ASSUME IInv, UNCHANGED vars PROVE IInv'
  BY <1>1 DEF IInv, vars, buttons, reservation, motion, TypeOK, TablesOK, Named,
              SlotsHoldTheLatest, DelayFits
<1>2. QED
  BY <1>1, FrameKeeps, PressKeeps DEF Next, AnyFrame

LEMMA Invariant == Spec => []IInv
  BY InitIInv, NextIInv, PTL DEF Spec

\* A lane is left in a frame only, and by Execute.
LEMMA LaneStep ==
  ASSUME IInv, [Next]_vars, g_my_lane' # g_my_lane
  PROVE  /\ g_lane_change_pending /\ waited >= g_lane_change_delay
         /\ qt = g_last_qt_event \/ qt \notin On \cup Off
<1>1. PICK m \in Messages \cup {NoMsg}, t \in FrameTimes : Frame(m, t)
  BY DEF Next, AnyFrame, Press, vars
<1>2. Signal(t)
  BY <1>1 DEF Frame
<1>3. QED
  BY <1>1, <1>2, SignalKeeps

(***************************************************************************)
(* A reservation is wanted as long as no OFF waits to be seen, and before  *)
(* it is due one of its frames was the first of a second, unless one of    *)
(* them was too slow.                                                      *)
(***************************************************************************)

SignalStands ==
  /\ qt \in On => wanted
  /\ g_lane_change_pending =>
       /\ g_last_qt_event \notin Off
       /\ qt \notin Off => wanted \/ overlooked

\* The longest frame that is not too slow.
Steady == LANE_CHANGE_DELAY \div FRAMES_PER_SECOND

\* An unannounced reservation is younger than the second.
SoonAnnounced ==
  g_lane_change_pending /\ ~announced /\ ~slow /\ g_last_qt_event \in On =>
    framecnt >= 1 /\ waited <= Steady * ((framecnt - 1) % FRAMES_PER_SECOND)

ButtonsInv == SignalStands /\ SoonAnnounced

\* Even the frames of a whole second, but for one, do not fill the delay.
LEMMA SteadyFits ==
  /\ Steady \in Nat
  /\ \A n \in 0..(FRAMES_PER_SECOND - 1) : Steady * n < LANE_CHANGE_DELAY
<1>1. /\ FRAMES_PER_SECOND \in Nat \ {0} /\ LANE_CHANGE_DELAY \in Nat \ {0}
  BY TimeAssumption
<1>2. LANE_CHANGE_DELAY = FRAMES_PER_SECOND * Steady
                            + (LANE_CHANGE_DELAY % FRAMES_PER_SECOND)
        /\ LANE_CHANGE_DELAY % FRAMES_PER_SECOND \in Nat /\ Steady \in Nat
  BY <1>1, Division DEF Steady
<1> HIDE DEF Steady
<1>3. FRAMES_PER_SECOND * Steady <= LANE_CHANGE_DELAY
  <2> DEFINE p == FRAMES_PER_SECOND * Steady
  <2>1. p \in Nat
    BY <1>1, <1>2
  <2> HIDE DEF p
  <2>2. QED
    BY <1>1, <1>2, <2>1 DEF p
<1>4. ASSUME NEW n \in 0..(FRAMES_PER_SECOND - 1) PROVE Steady * n < LANE_CHANGE_DELAY
  <2>1. CASE Steady = 0
    BY <1>1, <1>4, <2>1
  <2>2. CASE Steady # 0
    <3>1. Steady * n + Steady <= FRAMES_PER_SECOND * Steady
      <4>1. n + 1 <= FRAMES_PER_SECOND /\ n \in Nat
        BY <1>1, <1>4
      <4>2. Steady * (n + 1) <= Steady * FRAMES_PER_SECOND
        BY <1>1, <1>2, <4>1
      <4>3. QED
        BY <1>1, <1>2, <4>1, <4>2
    <3>2. QED
      BY <1>1, <1>2, <1>3, <1>4, <2>2, <3>1
  <2>3. QED
    BY <2>1, <2>2
<1>5. QED
  BY <1>2, <1>4

LEMMA InitButtons == Init => ButtonsInv
  BY DEF Init, ButtonsInv, SignalStands, SoonAnnounced, On, Off

LEMMA PressButtons ==
  ASSUME ButtonsInv, NEW e \in Buttons, Press(e) PROVE ButtonsInv'
<1>1. On \cap Off = {}
  BY DEF On, Off
<1>2. /\ qt' = e /\ wanted' = (e \in On \/ (wanted /\ e \notin Off))
      /\ overlooked' = (/\ e \notin On \cup Off
                        /\ overlooked \/ (qt \in Off /\ qt # g_last_qt_event))
      /\ UNCHANGED <<g_last_qt_event, g_lane_change_pending, waited, slow,
                     announced, framecnt>>
  BY DEF Press, reservation, motion
<1>3. SignalStands'
  BY <1>1, <1>2, Zenon DEF ButtonsInv, SignalStands
<1>4. SoonAnnounced'
  BY <1>2 DEF ButtonsInv, SoonAnnounced
<1>5. QED
  BY <1>3, <1>4 DEF ButtonsInv

LEMMA FrameButtons ==
  ASSUME IInv, ButtonsInv, NEW m \in Messages \cup {NoMsg}, NEW t \in FrameTimes,
         Frame(m, t)
  PROVE  ButtonsInv'
<1>1. /\ Signal(t) /\ Broadcast /\ g_last_qt_event' = qt
      /\ UNCHANGED <<qt, wanted, overlooked>>
      /\ framecnt' = IF framecnt = RESET_SECONDS * FRAMES_PER_SECOND
                       THEN 1 ELSE framecnt + 1
  BY DEF Frame
<1>2. SignalStands
  BY DEF ButtonsInv
<1>3. On \cap Off = {}
  BY DEF On, Off
<1>4. \/ qt # g_last_qt_event /\ qt \in On /\ Reserve(t)
      \/ ~g_lane_change_pending'
      \/ /\ qt = g_last_qt_event \/ qt \notin On \cup Off
         /\ g_lane_change_pending /\ Wait(t)
  BY <1>1 DEF Signal, Cancel, Execute, reservation
<1>5. SignalStands'
  BY <1>1, <1>2, <1>3, <1>4 DEF SignalStands
<1>6. framecnt \in Nat /\ framecnt' \in Nat /\ framecnt' >= 1
  <2>1. framecnt \in Nat
    BY Cycle DEF IInv, TypeOK
  <2>2. QED
    BY <1>1, <2>1
<1>7. /\ FRAMES_PER_SECOND \in Nat \ {0} /\ RESET_SECONDS \in Nat \ {0}
      /\ t \in Nat /\ LANE_CHANGE_DELAY \in Nat
  BY TimeAssumption
<1>8. ASSUME g_lane_change_pending', ~announced', ~slow', qt \in On
      PROVE  waited' <= Steady * ((framecnt' - 1) % FRAMES_PER_SECOND)
  <2>2. framecnt % FRAMES_PER_SECOND # 0
    <3> SUFFICES ASSUME framecnt % FRAMES_PER_SECOND = 0 PROVE FALSE
      OBVIOUS
    <3>1. announced' = TRUE
      BY <1>1, <1>8, Zenon DEF Broadcast
    <3>2. QED
      BY <1>8, <3>1
  <2>3. framecnt # RESET_SECONDS * FRAMES_PER_SECOND
    BY <1>7, <2>2, MultipleHasNoRemainder
  <2>4. framecnt' - 1 = framecnt
    BY <1>1, <1>6, <2>3
  <2>5. framecnt # 0
    BY <1>7, <2>2
  <2>6. framecnt - 1 \in Nat /\ (framecnt - 1) + 1 = framecnt
    BY <1>6, <2>5
  <2>7. framecnt % FRAMES_PER_SECOND = ((framecnt - 1) % FRAMES_PER_SECOND) + 1
    <3>1. ((framecnt - 1) + 1) % FRAMES_PER_SECOND # 0
      BY <2>2, <2>6
    <3>2. QED
      BY <1>7, <2>6, <3>1, NextRemainder
  <2> DEFINE k == (framecnt - 1) % FRAMES_PER_SECOND
  <2>8. k \in Nat
    BY <1>7, <2>6
  <2>12. t > Steady => TooSlow(t)
    BY DEF TooSlow, Steady
  <2>13. Steady \in Nat
    BY SteadyFits
  <2> HIDE DEF k, Steady
  <2>14. Steady * (k + 1) = Steady * k + Steady /\ Steady * k \in Nat
    BY <2>8, <2>13
  <2> DEFINE sk == Steady * k
  <2> HIDE DEF sk
  <2>15. Steady * (framecnt % FRAMES_PER_SECOND) = sk + Steady /\ sk \in Nat
    BY <2>7, <2>14 DEF k, sk
  <2>9. CASE qt # g_last_qt_event /\ Reserve(t)
    <3>1. waited' <= t /\ slow' = TooSlow(t) /\ waited' \in Nat
      BY <1>7, <2>9, WaitingTyped DEF Reserve
    <3>2. t <= Steady
      BY <1>7, <1>8, <2>12, <2>13, <3>1
    <3>3. QED
      BY <1>7, <2>4, <2>13, <2>15, <3>1, <3>2
  <2>10. CASE qt = g_last_qt_event /\ g_lane_change_pending /\ Wait(t)
    <3>1. ~announced
      <4>1. announced => announced'
        BY <1>1, <1>3, <2>10, Zenon DEF Broadcast
      <4>2. QED
        BY <1>8, <4>1
    <3>2. ~slow /\ ~TooSlow(t)
      BY <1>8, <2>10, Zenon DEF Wait
    <3>3. waited <= sk
      BY <1>8, <2>10, <3>1, <3>2 DEF ButtonsInv, SoonAnnounced, k, sk
    <3>4. waited' <= waited + t /\ waited \in Nat /\ waited' \in Nat
      <4>1. waited \in Nat
        BY TimeAssumption DEF IInv, TypeOK
      <4>2. waited + t \in Nat
        BY <1>7, <4>1
      <4>3. QED
        BY <2>10, <4>1, <4>2, WaitingTyped DEF Wait
    <3>5. t <= Steady
      BY <1>7, <2>12, <2>13, <3>2
    <3>6. QED
      BY <1>7, <2>4, <2>13, <2>15, <3>3, <3>4, <3>5
  <2>11. QED
    BY <1>3, <1>4, <1>8, <2>9, <2>10
<1>9. SoonAnnounced'
  BY <1>1, <1>6, <1>8 DEF SoonAnnounced, Steady
<1>10. QED
  BY <1>5, <1>9 DEF ButtonsInv

LEMMA NextButtons == IInv /\ ButtonsInv /\ [Next]_vars => ButtonsInv'
<1>1. ASSUME ButtonsInv, UNCHANGED vars PROVE ButtonsInv'
  BY <1>1 DEF ButtonsInv, SignalStands, SoonAnnounced, vars, buttons, reservation, motion
<1>2. QED
  BY <1>1, PressButtons, FrameButtons DEF Next, AnyFrame

LEMMA ButtonsInvariant == Spec => []ButtonsInv
  BY InitButtons, NextButtons, Invariant, PTL DEF Spec

(***************************************************************************)
(* The theorems.                                                           *)
(***************************************************************************)

\* The car stays on the road, whatever is signalled and however the table of
\* the other cars fills.
THEOREM TypeCorrect == Spec => []TypeOK
<1>1. IInv => TypeOK
  BY DEF IInv
<1>2. QED
  BY <1>1, Invariant, PTL

\* Every car that was ever heard of has exactly one slot, with its last
\* message; there is a slot for each, because there are not fewer than cars.
THEOREM TableSafety == Spec => []SlotsHoldTheLatest
<1>1. IInv => SlotsHoldTheLatest
  BY DEF IInv, TablesOK
<1>2. QED
  BY <1>1, Invariant, PTL

\* No change of lane comes before its delay, nor before the longer one if a
\* faster car was known to be close behind when the driver signalled.
THEOREM DelaySafety == Spec => ChangeWaits
<1>1. ASSUME IInv, [Next]_vars, g_my_lane' # g_my_lane
      PROVE  waited >= IF approaching THEN LANE_CHANGE_YIELD ELSE LANE_CHANGE_DELAY
  BY <1>1, LaneStep DEF IInv, DelayFits
<1>2. IInv /\ [Next]_vars =>
        [g_my_lane' # g_my_lane
           => waited >= IF approaching THEN LANE_CHANGE_YIELD
                                       ELSE LANE_CHANGE_DELAY]_vars
  BY <1>1
<1>3. QED
  BY <1>2, Invariant, PTL DEF Spec, ChangeWaits

\* A change that was called off is not carried out, whatever is pressed, unless
\* another button came before a frame saw the OFF.
THEOREM WantedSafety == Spec => ChangeIsWanted
<1>1. ASSUME IInv, ButtonsInv, [Next]_vars, g_my_lane' # g_my_lane
      PROVE  wanted \/ overlooked
  <2>1. g_lane_change_pending /\ (qt = g_last_qt_event \/ qt \notin On \cup Off)
    BY <1>1, LaneStep
  <2>2. qt \notin Off
    BY <1>1, <2>1 DEF ButtonsInv, SignalStands
  <2>3. QED
    BY <1>1, <2>1, <2>2 DEF ButtonsInv, SignalStands
<1>2. IInv /\ ButtonsInv /\ [Next]_vars
        => [g_my_lane' # g_my_lane => wanted \/ overlooked]_vars
  BY <1>1
<1>3. QED
  BY <1>2, Invariant, ButtonsInvariant, PTL DEF Spec, ChangeIsWanted

\* Every change of lane was announced to the other cars, however long the
\* frames take and whatever is pressed, unless a frame since the signal took
\* more than its part of the delay or the button of an emergency hides the
\* signal.
THEOREM AnnouncedSafety == Spec => ChangeIsAnnounced
<1>1. ASSUME IInv, ButtonsInv, [Next]_vars, g_my_lane' # g_my_lane
      PROVE  announced \/ slow \/ qt \notin On \cup Off
  <2> SUFFICES ASSUME ~announced, ~slow, qt \in On \cup Off PROVE FALSE
    OBVIOUS
  <2>1. /\ g_lane_change_pending /\ waited >= g_lane_change_delay
        /\ qt = g_last_qt_event
    BY <1>1, LaneStep
  <2>2. g_last_qt_event \in On
    BY <1>1, <2>1 DEF ButtonsInv, SignalStands
  <2>3. /\ LANE_CHANGE_DELAY \in Nat /\ g_lane_change_delay \in Nat
        /\ g_lane_change_delay >= LANE_CHANGE_DELAY
    BY <1>1, TimeAssumption DEF IInv, TypeOK
  <2>4. waited \in Nat /\ framecnt \in Nat
    BY <1>1, TimeAssumption, Cycle DEF IInv, TypeOK
  <2>5. /\ framecnt - 1 \in Nat
        /\ waited <= Steady * ((framecnt - 1) % FRAMES_PER_SECOND)
    BY <1>1, <2>1, <2>2, <2>4 DEF ButtonsInv, SoonAnnounced
  <2>6. (framecnt - 1) % FRAMES_PER_SECOND \in 0..(FRAMES_PER_SECOND - 1)
    BY <2>5, TimeAssumption
  <2>7. /\ Steady * ((framecnt - 1) % FRAMES_PER_SECOND) < LANE_CHANGE_DELAY
        /\ Steady * ((framecnt - 1) % FRAMES_PER_SECOND) \in Nat
    BY <2>6, SteadyFits
  <2>8. QED
    BY <2>1, <2>3, <2>4, <2>5, <2>7
<1>2. IInv /\ ButtonsInv /\ [Next]_vars
        => [g_my_lane' # g_my_lane
              => announced \/ slow \/ qt \notin On \cup Off]_vars
  BY <1>1
<1>3. QED
  BY <1>2, Invariant, ButtonsInvariant, PTL DEF Spec, ChangeIsAnnounced

=============================================================================
