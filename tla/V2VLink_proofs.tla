--------------------------- MODULE V2VLink_proofs ---------------------------
(***************************************************************************)
(* Theorems about V2VLink for any number of boards, descriptors,           *)
(* connections, outages and overtaken threads; and about two parts that    *)
(* work on the same things: SerialPort, whose descriptors the links take   *)
(* over, and MinistryBoard, whose reports travel over them.                *)
(***************************************************************************)
EXTENDS V2VLink, SerialPort, MinistryBoard, FiniteSetTheorems, TLAPS

(***************************************************************************)
(* The inductive invariant.  The table of one board is well formed: its    *)
(* entries are typed, within the limit, one per board, and watched.  Only  *)
(* boards send ids, so only boards enter the tables.                       *)
(***************************************************************************)

GoodTable(entries, threads) ==
  /\ entries \in SUBSET Entry /\ threads \in SUBSET Thread
  /\ IsFiniteSet(entries) /\ Cardinality(entries) <= MAX_PEER_CNT
  /\ \A e, f \in entries : e.ip = f.ip => e = f
  /\ \A e \in entries : \E t \in threads : t.fd = e.fd

TablesGood == \A b \in Boards : GoodTable(g_peers[b], receivers[b])

SaidByABoard == \A c \in Conns : ends[c].said => ends[c].client \in Boards

SocketsTyped ==
  /\ up \in [Boards -> BOOLEAN]
  /\ fd \in [Boards -> [Fds -> Conns \cup {0}]]
  /\ closing \in [Boards -> SUBSET Thread]
  /\ dialing \in [Boards -> Entry \cup {NoEntry}]
  /\ accepting \in [Boards -> [fd : Fds, conn : Conns] \cup {NoThread}]
  /\ backlog \in [Boards -> SUBSET Conns]
  /\ ends \in [Conns -> [client : Boards \cup {0}, server : Boards \cup {0},
                         said : BOOLEAN]]
  /\ silent \subseteq Conns \X Boards
  /\ outages \in 0..MaxOutages /\ late \in 0..MaxLate

IInv == /\ g_peers = [b \in Boards |-> g_peers[b]]
        /\ receivers = [b \in Boards |-> receivers[b]]
        /\ SocketsTyped /\ TablesGood /\ SaidByABoard

(***************************************************************************)
(* Tables.                                                                 *)
(***************************************************************************)

\* Removing entries, and replacing a thread by one on the same descriptor,
\* or removing a thread together with its descriptor's entries.
LEMMA TableShrinks ==
  ASSUME NEW entries, NEW threads, GoodTable(entries, threads),
         NEW less \in SUBSET entries, NEW others \in SUBSET Thread,
         \A e \in less : \E t \in others : t.fd = e.fd
  PROVE  GoodTable(less, others)
<1>1. IsFiniteSet(less) /\ Cardinality(less) <= Cardinality(entries)
  BY FS_Subset DEF GoodTable
<1>2. Cardinality(less) \in Nat /\ Cardinality(entries) \in Nat
  BY <1>1, FS_CardinalityType DEF GoodTable
<1>3. Cardinality(less) <= MAX_PEER_CNT
  BY <1>1, <1>2, LinkAssumption DEF GoodTable
<1>4. QED
  BY <1>1, <1>3 DEF GoodTable

\* v2v_add_peer() checks enough: an entry that CanAdd lets in keeps the table
\* good, once its thread runs.
LEMMA TableGrows ==
  ASSUME IInv, NEW b \in Boards, NEW f \in Fds, NEW ip \in Boards,
         CanAdd(b, ip)
  PROVE  GoodTable(g_peers[b] \cup {[fd |-> f, ip |-> ip]},
                   receivers[b] \cup {[fd |-> f, conn |-> fd[b][f]]})
<1> DEFINE e == [fd |-> f, ip |-> ip]
           t == [fd |-> f, conn |-> fd[b][f]]
<1>1. GoodTable(g_peers[b], receivers[b])
  BY DEF IInv, TablesGood
<1>2. e \in Entry /\ t \in Thread /\ e.ip = ip /\ t.fd = e.fd
  BY DEF Entry, Thread, IInv, SocketsTyped
<1>3. Cardinality(g_peers[b]) < MAX_PEER_CNT
  BY DEF CanAdd, v2v_peer_count
<1>4. \A g \in g_peers[b] : g.ip # ip
  BY DEF CanAdd, v2v_is_ip_connected
<1>5. e \notin g_peers[b]
  BY <1>2, <1>4
<1>6. IsFiniteSet(g_peers[b] \cup {e})
      /\ Cardinality(g_peers[b] \cup {e}) = Cardinality(g_peers[b]) + 1
  BY <1>1, <1>5, FS_AddElement DEF GoodTable
<1>7. Cardinality(g_peers[b] \cup {e}) <= MAX_PEER_CNT
  BY <1>1, <1>3, <1>6, FS_CardinalityType, LinkAssumption DEF GoodTable
<1>8. \A g, h \in g_peers[b] \cup {e} : g.ip = h.ip => g = h
  BY <1>1, <1>2, <1>4 DEF GoodTable
<1>9. \A g \in g_peers[b] \cup {e} :
        \E u \in receivers[b] \cup {t} : u.fd = g.fd
  BY <1>1, <1>2 DEF GoodTable
<1>10. QED
  BY <1>1, <1>2, <1>6, <1>7, <1>8, <1>9 DEF GoodTable

\* What AddOrClose leaves behind.
LEMMA AddOrCloseKeeps ==
  ASSUME IInv, NEW b \in Boards, NEW f \in Fds, NEW ip \in Boards,
         AddOrClose(b, f, ip)
  PROVE  /\ g_peers' = [a \in Boards |-> g_peers'[a]]
         /\ receivers' = [a \in Boards |-> receivers'[a]]
         /\ fd' \in [Boards -> [Fds -> Conns \cup {0}]]
         /\ TablesGood'
<1>1. CASE CanAdd(b, ip)
  <2>1. /\ g_peers' = [g_peers EXCEPT
                         ![b] = @ \cup {[fd |-> f, ip |-> ip]}]
        /\ receivers' = [receivers EXCEPT
                           ![b] = @ \cup {[fd |-> f, conn |-> fd[b][f]]}]
        /\ fd' = fd
    BY <1>1 DEF AddOrClose
  <2>2. GoodTable(g_peers'[b], receivers'[b])
    BY <1>1, <2>1, TableGrows DEF IInv
  <2>3. \A a \in Boards \ {b} : GoodTable(g_peers'[a], receivers'[a])
    BY <2>1 DEF IInv, TablesGood
  <2>4. QED
    BY <2>1, <2>2, <2>3 DEF IInv, SocketsTyped, TablesGood
<1>2. CASE ~CanAdd(b, ip)
  <2>1. fd' = [fd EXCEPT ![b][f] = 0] /\ UNCHANGED <<g_peers, receivers>>
    BY <1>2 DEF AddOrClose
  <2>2. fd' \in [Boards -> [Fds -> Conns \cup {0}]]
    BY <2>1 DEF IInv, SocketsTyped
  <2>3. TablesGood'
    BY <2>1 DEF IInv, TablesGood
  <2>4. QED
    BY <2>1, <2>2, <2>3 DEF IInv
<1>3. QED
  BY <1>1, <1>2

(***************************************************************************)
(* The invariant is inductive: one step per action.                        *)
(***************************************************************************)

LEMMA InitGood == Init => IInv
<1> SUFFICES ASSUME Init PROVE IInv
  OBVIOUS
<1>1. SocketsTyped
  BY LinkAssumption DEF Init, SocketsTyped
<1>2. GoodTable({}, {})
  BY FS_EmptySet, LinkAssumption DEF GoodTable
<1>3. TablesGood /\ SaidByABoard
  BY <1>2 DEF Init, TablesGood, SaidByABoard
<1>4. /\ g_peers = [b \in Boards |-> g_peers[b]]
      /\ receivers = [b \in Boards |-> receivers[b]]
  BY DEF Init
<1>5. QED
  BY <1>1, <1>3, <1>4 DEF IInv

LEMMA ConnectKeeps ==
  ASSUME IInv, NEW a \in Boards, NEW b \in Boards, Connect(a, b)
  PROVE  IInv'
<1>1. PICK c \in Conns, f \in Fds :
        /\ fd' = [fd EXCEPT ![a][f] = c]
        /\ dialing' = [dialing EXCEPT ![a] = [fd |-> f, ip |-> b]]
        /\ backlog' = [backlog EXCEPT ![b] = @ \cup {c}]
        /\ ends' = [ends EXCEPT ![c] = [client |-> a, server |-> b,
                                        said |-> FALSE]]
        /\ silent' = {s \in silent : s[1] # c}
  BY DEF Connect
<1>2. late' \in 0..MaxLate
  BY LinkAssumption DEF Connect, IInv, SocketsTyped
<1>3. [fd |-> f, ip |-> b] \in Entry
  BY DEF Entry
<1>4. fd' \in [Boards -> [Fds -> Conns \cup {0}]]
  BY <1>1 DEF IInv, SocketsTyped
<1>5. dialing' \in [Boards -> Entry \cup {NoEntry}]
  BY <1>1, <1>3 DEF IInv, SocketsTyped
<1>6. ends' \in [Conns -> [client : Boards \cup {0}, server : Boards \cup {0},
                           said : BOOLEAN]]
  BY <1>1 DEF IInv, SocketsTyped
<1>7. backlog' \in [Boards -> SUBSET Conns] /\ silent' \subseteq Conns \X Boards
  BY <1>1 DEF IInv, SocketsTyped
<1>8. SocketsTyped'
  BY <1>2, <1>4, <1>5, <1>6, <1>7 DEF Connect, IInv, SocketsTyped
<1>9. SaidByABoard'
  BY <1>1 DEF IInv, SocketsTyped, SaidByABoard
<1>10. QED
  BY <1>8, <1>9 DEF Connect, IInv, TablesGood

LEMMA AnnounceKeeps ==
  ASSUME IInv, NEW a \in Boards, Announce(a)
  PROVE  IInv'
<1>1. dialing[a] \in Entry
  BY DEF Announce, IInv, SocketsTyped
<1>2. dialing[a].fd \in Fds /\ dialing[a].ip \in Boards
  BY <1>1 DEF Entry
<1>3. /\ g_peers' = [b \in Boards |-> g_peers'[b]]
      /\ receivers' = [b \in Boards |-> receivers'[b]]
      /\ fd' \in [Boards -> [Fds -> Conns \cup {0}]]
      /\ TablesGood'
  BY <1>2, AddOrCloseKeeps DEF Announce
<1>4. ends' = [c \in Conns |->
                [ends[c] EXCEPT !.said =
                   @ \/ (c = fd[a][dialing[a].fd] /\ ends[c].client = a)]]
  BY DEF Announce
<1>5. \A c \in Conns :
        /\ ends'[c].client = ends[c].client
        /\ ends'[c].server = ends[c].server
        /\ ends'[c].said \in BOOLEAN
        /\ ends'[c].said => ends[c].said \/ ends[c].client = a
  BY <1>4 DEF IInv, SocketsTyped
<1>6. ends' \in [Conns -> [client : Boards \cup {0}, server : Boards \cup {0},
                           said : BOOLEAN]]
  BY <1>4 DEF IInv, SocketsTyped
<1>7. SaidByABoard'
  BY <1>5 DEF IInv, SaidByABoard
<1>8. dialing' \in [Boards -> Entry \cup {NoEntry}]
  BY DEF Announce, IInv, SocketsTyped
<1>9. SocketsTyped'
  BY <1>3, <1>6, <1>8 DEF Announce, counters, IInv, SocketsTyped
<1>10. QED
  BY <1>3, <1>7, <1>9 DEF IInv

LEMMA AcceptKeeps ==
  ASSUME IInv, NEW b \in Boards, Accept(b)
  PROVE  IInv'
<1>1. PICK c \in backlog[b], f \in Fds :
        /\ backlog' = [backlog EXCEPT ![b] = @ \ {c}]
        /\ \/ UNCHANGED <<fd, accepting>>
           \/ /\ fd' = [fd EXCEPT ![b][f] = c]
              /\ accepting' = [accepting EXCEPT
                                 ![b] = [fd |-> f, conn |-> c]]
  BY DEF Accept
<1>2. c \in Conns
  BY DEF IInv, SocketsTyped
<1>3. fd' \in [Boards -> [Fds -> Conns \cup {0}]]
  <2>1. CASE fd' = fd
    BY <2>1 DEF IInv, SocketsTyped
  <2>2. CASE fd' = [fd EXCEPT ![b][f] = c]
    BY <1>2, <2>2 DEF IInv, SocketsTyped
  <2>3. QED
    BY <1>1, <2>1, <2>2
<1>4. accepting' \in [Boards -> [fd : Fds, conn : Conns] \cup {NoThread}]
  BY <1>1, <1>2 DEF IInv, SocketsTyped
<1>5. SocketsTyped'
  BY <1>1, <1>3, <1>4 DEF Accept, net, counters, IInv, SocketsTyped
<1>6. QED
  BY <1>5 DEF Accept, net, IInv, TablesGood, SaidByABoard

LEMMA ReadIdKeeps ==
  ASSUME IInv, NEW b \in Boards, ReadId(b)
  PROVE  IInv'
<1> DEFINE f == accepting[b].fd
           c == accepting[b].conn
<1>1. f \in Fds /\ c \in Conns
  <2>1. accepting[b] # NoThread
    BY DEF ReadId
  <2>2. accepting[b] \in [fd : Fds, conn : Conns]
    BY <2>1 DEF IInv, SocketsTyped
  <2>3. QED
    BY <2>2
<1>2. \/ ends[c].said /\ AddOrClose(b, f, ends[c].client)
      \/ fd' = [fd EXCEPT ![b][f] = 0] /\ UNCHANGED <<g_peers, receivers>>
  BY DEF ReadId
<1>3. ends[c].said => ends[c].client \in Boards
  BY <1>1 DEF IInv, SaidByABoard
<1>4. /\ g_peers' = [a \in Boards |-> g_peers'[a]]
      /\ receivers' = [a \in Boards |-> receivers'[a]]
      /\ fd' \in [Boards -> [Fds -> Conns \cup {0}]]
      /\ TablesGood'
  <2>1. CASE ends[c].said /\ AddOrClose(b, f, ends[c].client)
    BY <1>1, <1>3, <2>1, AddOrCloseKeeps
  <2>2. CASE fd' = [fd EXCEPT ![b][f] = 0] /\ UNCHANGED <<g_peers, receivers>>
    BY <2>2 DEF IInv, SocketsTyped, TablesGood
  <2>3. QED
    BY <1>2, <2>1, <2>2
<1>5. SocketsTyped'
  BY <1>4 DEF ReadId, net, counters, IInv, SocketsTyped
<1>6. SaidByABoard'
  BY DEF ReadId, net, IInv, SaidByABoard
<1>7. QED
  BY <1>4, <1>5, <1>6 DEF IInv

\* A thread that ends takes the entries of its descriptor with it, so every
\* entry that stays has another thread.
LEMMA RecvEndsKeeps ==
  ASSUME IInv, NEW b \in Boards, NEW t \in receivers[b], RecvEnds(b, t)
  PROVE  IInv'
<1>1. /\ g_peers' = [g_peers EXCEPT ![b] = Without(@, t.fd)]
      /\ receivers' = [receivers EXCEPT ![b] = @ \ {t}]
      /\ closing' = [closing EXCEPT ![b] = @ \cup {t}]
  BY DEF RecvEnds
<1>2. GoodTable(g_peers[b], receivers[b])
  BY DEF IInv, TablesGood
<1>3. Without(g_peers[b], t.fd) \in SUBSET g_peers[b]
      /\ receivers[b] \ {t} \in SUBSET Thread
  BY <1>2 DEF Without, GoodTable
<1>4. \A e \in Without(g_peers[b], t.fd) :
        \E u \in receivers[b] \ {t} : u.fd = e.fd
  BY <1>2 DEF Without, GoodTable
<1>5. GoodTable(Without(g_peers[b], t.fd), receivers[b] \ {t})
  BY <1>2, <1>3, <1>4, TableShrinks
<1>6. TablesGood'
  BY <1>1, <1>5 DEF IInv, TablesGood
<1>7. closing' \in [Boards -> SUBSET Thread]
  BY <1>1, <1>2 DEF IInv, SocketsTyped, GoodTable
<1>8. SocketsTyped' /\ SaidByABoard'
  BY <1>7 DEF RecvEnds, net, counters, IInv, SocketsTyped, SaidByABoard
<1>9. QED
  BY <1>1, <1>6, <1>8 DEF IInv

\* The close comes after the entry is gone, and may hit another's descriptor:
\* neither the table nor the threads change.
LEMMA CloseRemovedKeeps ==
  ASSUME IInv, NEW b \in Boards, NEW t \in closing[b], CloseRemoved(b, t)
  PROVE  IInv'
<1>1. t \in Thread
  BY DEF IInv, SocketsTyped
<1>2. fd' \in [Boards -> [Fds -> Conns \cup {0}]] /\ closing' \in [Boards -> SUBSET Thread]
  BY <1>1 DEF CloseRemoved, IInv, SocketsTyped, Thread
<1>3. SocketsTyped' /\ SaidByABoard' /\ TablesGood'
  BY <1>2 DEF CloseRemoved, net, counters, IInv, SocketsTyped, SaidByABoard, TablesGood
<1>4. QED
  BY <1>3 DEF CloseRemoved, IInv

LEMMA RecvAgainKeeps ==
  ASSUME IInv, NEW b \in Boards, NEW t \in receivers[b], RecvAgain(b, t)
  PROVE  IInv'
<1> DEFINE u == [t EXCEPT !.conn = fd[b][t.fd]]
<1>1. /\ receivers' = [receivers EXCEPT ![b] = (@ \ {t}) \cup {u}]
      /\ g_peers' = g_peers
  BY DEF RecvAgain
<1>2. GoodTable(g_peers[b], receivers[b])
  BY DEF IInv, TablesGood
<1>3. u \in Thread /\ u.fd = t.fd
  BY <1>2 DEF IInv, SocketsTyped, GoodTable, Thread
<1>4. GoodTable(g_peers[b], (receivers[b] \ {t}) \cup {u})
  <2>1. (receivers[b] \ {t}) \cup {u} \in SUBSET Thread
    BY <1>2, <1>3 DEF GoodTable
  <2>2. \A e \in g_peers[b] :
          \E w \in (receivers[b] \ {t}) \cup {u} : w.fd = e.fd
    BY <1>2, <1>3 DEF GoodTable
  <2>3. QED
    BY <1>2, <2>1, <2>2, TableShrinks
<1>5. TablesGood'
  BY <1>1, <1>4 DEF IInv, TablesGood
<1>6. SocketsTyped' /\ SaidByABoard'
  BY DEF RecvAgain, net, counters, IInv, SocketsTyped, SaidByABoard
<1>7. QED
  BY <1>1, <1>5, <1>6 DEF IInv

LEMMA BroadcastKeeps ==
  ASSUME IInv, NEW b \in Boards, Broadcast(b)
  PROVE  IInv'
<1>1. PICK failed \in SUBSET g_peers[b] :
        /\ g_peers' = [g_peers EXCEPT ![b] = @ \ failed]
        /\ fd' = [fd EXCEPT ![b] = [f \in Fds |->
                    IF \E e \in failed : e.fd = f THEN 0 ELSE fd[b][f]]]
  BY DEF Broadcast
<1>2. GoodTable(g_peers[b], receivers[b])
  BY DEF IInv, TablesGood
<1>3. GoodTable(g_peers[b] \ failed, receivers[b])
  <2>1. receivers[b] \in SUBSET Thread
        /\ \A e \in g_peers[b] \ failed : \E t \in receivers[b] : t.fd = e.fd
    BY <1>2 DEF GoodTable
  <2>2. QED
    BY <1>2, <2>1, TableShrinks
<1>4. TablesGood'
  BY <1>1, <1>3 DEF Broadcast, IInv, TablesGood
<1>5. fd' \in [Boards -> [Fds -> Conns \cup {0}]]
  BY <1>1 DEF IInv, SocketsTyped
<1>6. silent' \subseteq Conns \X Boards
  BY DEF Broadcast, IInv, SocketsTyped
<1>7. SocketsTyped' /\ SaidByABoard'
  BY <1>5, <1>6 DEF Broadcast, counters, IInv, SocketsTyped, SaidByABoard
<1>8. QED
  BY <1>1, <1>4, <1>7 DEF Broadcast, IInv

LEMMA OutageKeeps ==
  ASSUME IInv, NEW b \in Boards, NEW kind \in Outages, Outage(b, kind)
  PROVE  IInv'
<1>1. GoodTable({}, {})
  BY FS_EmptySet, LinkAssumption DEF GoodTable
<1>2. TablesGood'
  BY <1>1 DEF Outage, IInv, TablesGood
<1>3. outages' \in 0..MaxOutages
  BY LinkAssumption DEF Outage, IInv, SocketsTyped
<1>4. silent' \subseteq Conns \X Boards
  BY DEF Outage, IInv, SocketsTyped
<1>5. fd' \in [Boards -> [Fds -> Conns \cup {0}]] /\ closing' \in [Boards -> SUBSET Thread]
  BY DEF Outage, IInv, SocketsTyped
<1>6. SocketsTyped' /\ SaidByABoard'
  BY <1>3, <1>4, <1>5 DEF Outage, IInv, SocketsTyped, SaidByABoard
<1>7. QED
  BY <1>2, <1>6 DEF Outage, IInv

LEMMA StepKeeps == IInv /\ [Next]_vars => IInv'
<1> SUFFICES ASSUME IInv, [Next]_vars PROVE IInv'
  OBVIOUS
<1>1. ASSUME NEW a \in Boards, NEW b \in Boards, Connect(a, b) PROVE IInv'
  BY <1>1, ConnectKeeps
<1>2. ASSUME NEW b \in Boards, Announce(b) PROVE IInv'
  BY <1>2, AnnounceKeeps
<1>3. ASSUME NEW b \in Boards, Accept(b) PROVE IInv'
  BY <1>3, AcceptKeeps
<1>4. ASSUME NEW b \in Boards, ReadId(b) PROVE IInv'
  BY <1>4, ReadIdKeeps
<1>5. ASSUME NEW b \in Boards, NEW t \in receivers[b], RecvEnds(b, t)
      PROVE IInv'
  BY <1>5, RecvEndsKeeps
<1>6. ASSUME NEW b \in Boards, NEW t \in closing[b], CloseRemoved(b, t)
      PROVE IInv'
  BY <1>6, CloseRemovedKeeps
<1>7. ASSUME NEW b \in Boards, NEW t \in receivers[b], RecvAgain(b, t)
      PROVE IInv'
  BY <1>7, RecvAgainKeeps
<1>8. ASSUME NEW b \in Boards, Broadcast(b) PROVE IInv'
  BY <1>8, BroadcastKeeps
<1>9. ASSUME NEW b \in Boards, NEW kind \in Outages, Outage(b, kind)
      PROVE IInv'
  BY <1>9, OutageKeeps
<1>10. ASSUME NEW b \in Boards, Boot(b) PROVE IInv'
  BY <1>10 DEF Boot, tables, net, counters, IInv, SocketsTyped, TablesGood,
               SaidByABoard
<1>11. CASE UNCHANGED vars
  BY <1>11 DEF vars, tables, net, counters, IInv, SocketsTyped, TablesGood,
               SaidByABoard
<1>12. QED
  BY <1>1, <1>2, <1>3, <1>4, <1>5, <1>6, <1>7, <1>8, <1>9, <1>10, <1>11 DEF Next

LEMMA AlwaysGood == Spec => []IInv
  BY InitGood, StepKeeps, PTL DEF Spec

(***************************************************************************)
(* Theorems.                                                               *)
(***************************************************************************)

\* Types, and the table never holds more than MAX_PEER_CNT entries.
THEOREM TypeCorrect == Spec => []TypeOK
<1>1. IInv => TypeOK
  <2> SUFFICES ASSUME IInv PROVE TypeOK
    OBVIOUS
  <2>1. g_peers \in [Boards -> SUBSET Entry]
        /\ receivers \in [Boards -> SUBSET Thread]
    BY DEF IInv, TablesGood, GoodTable
  <2>2. \A b \in Boards : v2v_peer_count(b) <= MAX_PEER_CNT
    BY DEF IInv, TablesGood, GoodTable, v2v_peer_count
  <2>3. QED
    BY <2>1, <2>2 DEF IInv, SocketsTyped, TypeOK
<1>2. QED
  BY <1>1, AlwaysGood, PTL

\* Two links to the same board never coexist in a table.
THEOREM NoDuplicateLinks == Spec => []OneEntryPerPeer
<1>1. IInv => OneEntryPerPeer
  BY DEF IInv, TablesGood, GoodTable, OneEntryPerPeer
<1>2. QED
  BY <1>1, AlwaysGood, PTL

\* No entry is left without a receive thread on its descriptor, whichever
\* threads close under each other's feet.
THEOREM EntriesAreWatched == Spec => []EveryEntryIsWatched
<1>1. IInv => EveryEntryIsWatched
  BY DEF IInv, TablesGood, GoodTable, EveryEntryIsWatched
<1>2. QED
  BY <1>1, AlwaysGood, PTL

(***************************************************************************)
(* The driver's port.  SerialPort is a thread of the car's program that    *)
(* works on the same descriptors: a number it has closed is taken over by  *)
(* a link or a queue, and its next close must not hit that.                *)
(***************************************************************************)

Owners == {"none", "port", "dead", "other"}

LEMMA PortFile ==
  ASSUME PortTypeOK
  PROVE  File(g_serial_fd) \in Owners
  BY DEF PortTypeOK, File, Owners

LEMMA PortCloses ==
  ASSUME PortTypeOK, NEW d \in Numbers \cup {None}, Close(d)
  PROVE  owner' \in [Numbers -> Owners]
  BY DEF PortTypeOK, Close, Owners

\* Whatever the device, the other threads and serial_gui_stop() do, the count
\* of the ends stays below its limit and the descriptor is a number or none.
THEOREM PortTypeCorrect == PortSpec => []PortTypeOK
  <1> USE EofAssumption, EventsAssumption
  <1>1. PortInit => PortTypeOK
    <2> SUFFICES ASSUME PortInit PROVE PortTypeOK
      OBVIOUS
    <2>1. /\ owner \in [Numbers -> Owners] /\ g_serial_fd \in Numbers \cup {None}
          /\ err_cnt \in 0..(EofLimit - 1) /\ g_sg_event \in Events
          /\ secondCloses \in [Numbers -> 0..MaxSecondCloses]
      BY DEF PortInit, Owners
    <2>2. /\ device \in BOOLEAN /\ g_sg_running \in BOOLEAN /\ taken \in BOOLEAN
      BY Zenon DEF PortInit
    <2> QED BY <2>1, <2>2 DEF PortInit, PortTypeOK, Owners
  <1>2. PortTypeOK /\ [PortNext]_portVars => PortTypeOK'
    <2> SUFFICES ASSUME PortTypeOK, [PortNext]_portVars PROVE PortTypeOK'
      OBVIOUS
    <2>0. g_serial_fd \in Numbers \cup {None}
      BY DEF PortTypeOK
    <2> USE DEF PortTypeOK, outside, stopping
    <2>1. CASE UNCHANGED portVars
      BY <2>1 DEF portVars
    <2>2. CASE Check
      BY <2>2 DEF Check
    <2>3. CASE Call
      BY <2>3, PortFile DEF Call, Owners
    <2>4. CASE Character
      BY <2>4 DEF Character
    <2>5. CASE EndOfFile
      <3>1. CASE err_cnt + 1 >= EofLimit
        BY <2>0, <2>5, <3>1, PortCloses DEF EndOfFile, Owners
      <3>2. CASE ~(err_cnt + 1 >= EofLimit)
        BY <2>5, <3>2 DEF EndOfFile
      <3> QED BY <3>1, <3>2
    <2>6. CASE ReadFails
      BY <2>0, <2>6, PortCloses DEF ReadFails, Owners
    <2>7. CASE Reopen
      BY <2>7 DEF Reopen, NoDescriptor
    <2>8. CASE Stop
      BY <2>0, <2>8, PortCloses DEF Stop, Owners
    <2>9. CASE StopEnds
      BY <2>9 DEF StopEnds
    <2>10. CASE Others
      BY <2>10, PortCloses DEF Others, Owners
    <2>11. CASE Device
      BY <2>11 DEF Device, Gone
    <2>12. CASE SendCloses
      <3>1. owner' \in [Numbers -> Owners]
        BY <2>12, PortCloses DEF SendCloses
      <3>2. secondCloses' \in [Numbers -> 0..MaxSecondCloses]
        BY <2>12 DEF SendCloses
      <3> QED BY <2>12, <3>1, <3>2 DEF SendCloses, Owners
    <2>13. CASE RecvCloses
      <3>1. owner' \in [Numbers -> Owners]
        BY <2>13, PortCloses DEF RecvCloses
      <3>2. secondCloses' \in [Numbers -> 0..MaxSecondCloses]
        BY <2>13 DEF RecvCloses
      <3>3. taken' \in BOOLEAN
        BY <2>13, Zenon DEF RecvCloses
      <3> QED BY <2>13, <3>1, <3>2, <3>3 DEF RecvCloses, Owners
    <2> QED BY <2>1, <2>2, <2>3, <2>4, <2>5, <2>6, <2>7, <2>8, <2>9, <2>10, <2>11,
               <2>12, <2>13 DEF PortNext, Reader
  <1> QED BY <1>1, <1>2, PTL DEF PortSpec

\* While the receiver runs, the number it remembers is its own, but between
\* a close and the reopening, when it does not use it, and after another
\* thread has closed it.
PortInv ==
  g_sg_running =>
    /\ stop = "no"
    /\ ~taken /\ reader # "reopen" /\ g_serial_fd # None =>
         g_serial_fd \in Numbers /\ owner[g_serial_fd] \in {"port", "dead"}

LEMMA PortInvariant == PortSpec => []PortInv
  <1>1. PortInit => PortInv
    BY DEF PortInit, PortInv
  <1>2. PortTypeOK /\ PortInv /\ [PortNext]_portVars => PortInv'
    <2> SUFFICES ASSUME PortTypeOK, PortInv, [PortNext]_portVars,
                        g_sg_running'
                 PROVE  /\ stop' = "no"
                        /\ ~taken' /\ reader' # "reopen" /\ g_serial_fd' # None =>
                             /\ g_serial_fd' \in Numbers
                             /\ owner'[g_serial_fd'] \in {"port", "dead"}
      BY DEF PortInv
    <2>0. g_sg_running =>
            /\ stop = "no"
            /\ ~taken /\ reader # "reopen" /\ g_serial_fd # None =>
                 /\ g_serial_fd \in Numbers
                 /\ owner[g_serial_fd] \in {"port", "dead"}
      BY DEF PortInv
    <2> USE DEF outside, stopping
    <2>1. CASE UNCHANGED portVars
      BY <2>0, <2>1 DEF portVars
    <2>2. CASE Check
      BY <2>0, <2>2 DEF Check
    <2>3. CASE Call
      BY <2>0, <2>3 DEF Call
    <2>4. CASE Character
      BY <2>0, <2>4 DEF Character
    <2>5. CASE EndOfFile
      <3>1. CASE err_cnt + 1 >= EofLimit
        BY <2>0, <2>5, <3>1 DEF EndOfFile
      <3>2. CASE ~(err_cnt + 1 >= EofLimit)
        BY <2>0, <2>5, <3>2 DEF EndOfFile
      <3> QED BY <3>1, <3>2
    <2>6. CASE ReadFails
      BY <2>0, <2>6 DEF ReadFails
    <2>7. CASE Reopen
      BY <2>0, <2>7 DEF Reopen, NoDescriptor, PortTypeOK
    <2>8. CASE Stop
      BY <2>8 DEF Stop
    <2>9. CASE StopEnds
      BY <2>0, <2>9 DEF StopEnds
    <2>10. CASE Others
      BY <2>0, <2>10 DEF Others, Close, PortTypeOK
    <2>11. CASE Device
      BY <2>0, <2>11 DEF Device, Gone, PortTypeOK
    <2>12. CASE SendCloses
      BY <2>0, <2>12 DEF SendCloses, Close, PortTypeOK
    <2>13. CASE RecvCloses
      <3>1. stop' = "no"
        BY <2>0, <2>13 DEF RecvCloses
      <3>2. ASSUME ~taken', reader' # "reopen", g_serial_fd' # None
            PROVE  /\ g_serial_fd' \in Numbers
                   /\ owner'[g_serial_fd'] \in {"port", "dead"}
        <4>1. PICK d \in Numbers :
                /\ owner' = [n \in Numbers |-> IF n = d THEN "none" ELSE owner[n]]
                /\ taken' = (taken \/ (d = g_serial_fd
                                          /\ owner[d] \in {"port", "dead"}))
          BY <2>13 DEF RecvCloses, Close
        <4>2. ~taken /\ ~(d = g_serial_fd /\ owner[d] \in {"port", "dead"})
          BY <3>2, <4>1, Zenon
        <4>3. UNCHANGED <<g_serial_fd, reader, g_sg_running>>
          BY <2>13 DEF RecvCloses
        <4> QED BY <2>0, <3>2, <4>1, <4>2, <4>3
      <3> QED BY <3>1, <3>2
    <2> QED BY <2>1, <2>2, <2>3, <2>4, <2>5, <2>6, <2>7, <2>8, <2>9, <2>10, <2>11,
               <2>12, <2>13 DEF PortNext, Reader
  <1> QED BY <1>1, <1>2, PortTypeCorrect, PTL DEF PortSpec

\* However often the port fails and whoever takes its number in between, the
\* running receiver closes no file but its own (serial_gui.c:96-147), unless
\* a receiving thread of a link has closed the port's descriptor first.
THEOREM PortClosesItsOwn == PortSpec => ClosesItsOwn
  <1>1. ASSUME PortTypeOK, PortInv, [PortNext]_portVars, NEW n \in Numbers,
               reader' # reader, owner[n] = "other", owner'[n] # "other"
        PROVE  taken \/ ~g_sg_running
    <2> SUFFICES ASSUME ~taken, g_sg_running PROVE FALSE
      OBVIOUS
    <2>1. /\ reader # "reopen" /\ g_serial_fd # None =>
               owner[g_serial_fd] \in {"port", "dead"}
          /\ None \notin Numbers
      BY <1>1, NumbersAssumption DEF PortInv
    <2>2. CASE EndOfFile
      BY <1>1, <2>1, <2>2 DEF EndOfFile, Close
    <2>3. CASE ReadFails
      BY <1>1, <2>1, <2>3 DEF ReadFails, Close
    <2>4. CASE Reopen
      BY <1>1, <2>4 DEF Reopen, PortTypeOK
    <2>5. CASE Check \/ Call \/ Character
      BY <1>1, <2>5 DEF Check, Call, Character
    <2>6. CASE Stop \/ StopEnds \/ Others \/ SendCloses \/ RecvCloses \/ Device
               \/ UNCHANGED portVars
      BY <1>1, <2>6 DEF Stop, StopEnds, Others, SendCloses, RecvCloses, Device,
                        portVars
    <2> QED BY <1>1, <2>2, <2>3, <2>4, <2>5, <2>6 DEF PortNext, Reader
  <1>2. PortTypeOK /\ PortInv /\ [PortNext]_portVars =>
          [\A n \in Numbers :
             reader' # reader /\ owner[n] = "other" /\ owner'[n] # "other"
               => taken \/ ~g_sg_running]_portVars
    BY <1>1
  <1> QED BY <1>2, PortTypeCorrect, PortInvariant, PTL DEF PortSpec, ClosesItsOwn

(***************************************************************************)
(* The reports of the ministry's board, which travel over these links.     *)
(***************************************************************************)

LEMMA MinistryConstants ==
  /\ WEATHER_SUNNY \in Weathers /\ TRAFFIC_SMOOTH \in Congestions
  /\ Interval \in Nat \ {0} /\ MaxBack \in Nat /\ MaxSetBacks \in Nat
  /\ MaxOnWay \in Nat
  /\ Nothing \notin Report /\ Foreign \notin Report
  BY ValuesAssumption, BoundsAssumption, MailboxAssumption

Elements(q) == {q[n] : n \in DOMAIN q}

\* What a connection carries when a report enters or leaves it.
LEMMA Carried ==
  ASSUME NEW T, NEW q \in Seq(T), NEW e \in T
  PROVE  /\ Append(q, e) \in Seq(T) /\ Len(Append(q, e)) = Len(q) + 1
         /\ Elements(Append(q, e)) = Elements(q) \cup {e}
         /\ q # <<>> => /\ Head(q) \in Elements(q) /\ Head(q) \in T
                        /\ Tail(q) \in Seq(T) /\ Len(Tail(q)) <= Len(q)
                        /\ Elements(Tail(q)) \subseteq Elements(q)
  <1>1. /\ Append(q, e) \in Seq(T) /\ Len(Append(q, e)) = Len(q) + 1
        /\ Append(q, e)[Len(q) + 1] = e
        /\ \A n \in 1..Len(q) : Append(q, e)[n] = q[n]
        /\ Len(q) \in Nat /\ DOMAIN q = 1..Len(q)
        /\ DOMAIN Append(q, e) = 1..(Len(q) + 1)
    OBVIOUS
  <1>2. Elements(Append(q, e)) = Elements(q) \cup {e}
    <2>1. Elements(Append(q, e)) \subseteq Elements(q) \cup {e}
      BY <1>1 DEF Elements
    <2>2. \A n \in 1..Len(q) : q[n] \in Elements(Append(q, e))
      BY <1>1 DEF Elements
    <2>3. e \in Elements(Append(q, e))
      <3>1. Len(q) + 1 \in DOMAIN Append(q, e)
        BY <1>1
      <3> QED BY <1>1, <3>1 DEF Elements
    <2> QED BY <1>1, <2>1, <2>2, <2>3 DEF Elements
  <1>3. ASSUME q # <<>>
        PROVE  /\ Head(q) \in Elements(q) /\ Head(q) \in T
               /\ Tail(q) \in Seq(T) /\ Len(Tail(q)) <= Len(q)
               /\ Elements(Tail(q)) \subseteq Elements(q)
    <2>1. /\ Head(q) = q[1] /\ 1 \in 1..Len(q)
          /\ Tail(q) \in Seq(T) /\ Len(Tail(q)) = Len(q) - 1
          /\ \A n \in 1..(Len(q) - 1) : Tail(q)[n] = q[n + 1]
      BY <1>3
    <2>2. DOMAIN Tail(q) = 1..(Len(q) - 1)
      BY <2>1
    <2>3. Head(q) \in Elements(q) /\ Head(q) \in T
      BY <1>1, <2>1 DEF Elements
    <2>4. \A n \in 1..(Len(q) - 1) : Tail(q)[n] \in Elements(q)
      BY <1>1, <2>1 DEF Elements
    <2> QED BY <1>1, <2>1, <2>2, <2>3, <2>4 DEF Elements
  <1> QED BY <1>1, <1>2, <1>3

LEMMA Translated ==
  ASSUME MinistryTypeOK, NEW named \in BOOLEAN
  PROVE  /\ v2v_molit_weather_str_to_enum(named) \in {buffer0, last_known}
         /\ v2v_molit_weather_str_to_enum(named) \in Weathers
  BY DEF v2v_molit_weather_str_to_enum, MinistryTypeOK

\* Whatever the boards, the clock and the links do, a car holds a condition
\* and no connection carries more than it may.
THEOREM MinistryTypeCorrect == MinistrySpec => []MinistryTypeOK
  <1>0. Report = [brake : Weathers, lane : Congestions]
    BY DEF Report
  <1>1. MinistryInit => MinistryTypeOK
    <2> SUFFICES ASSUME MinistryInit PROVE MinistryTypeOK
      OBVIOUS
    <2>1. <<>> \in Seq(Report) /\ Len(<<>>) = 0
      OBVIOUS
    <2>2. road.brake \in Weathers /\ road.lane \in Congestions
      BY <1>0 DEF MinistryInit
    <2>3. Fine \in Report
      BY <1>0, MinistryConstants DEF Fine
    <2> QED BY <2>1, <2>2, <2>3, MinistryConstants DEF MinistryInit, MinistryTypeOK
  <1>2. MinistryTypeOK /\ [MinistryNext]_ministryVars => MinistryTypeOK'
    <2> SUFFICES ASSUME MinistryTypeOK, [MinistryNext]_ministryVars
                 PROVE  MinistryTypeOK'
      OBVIOUS
    <2> USE DEF MinistryTypeOK, scene, clock, connections, car
    <2>0. Interval \in Nat /\ MaxBack \in Nat /\ MaxSetBacks \in Nat
          /\ MaxOnWay \in Nat
      BY MinistryConstants
    <2>a. road.brake \in Weathers /\ road.lane \in Congestions
      BY <1>0
    <2>b. <<>> \in Seq(Report) /\ Len(<<>>) = 0
      OBVIOUS
    <2>1. CASE UNCHANGED ministryVars
      BY <2>1 DEF ministryVars
    <2>2. CASE RoadChanges
      BY <2>2 DEF RoadChanges
    <2>3. CASE Picture
      BY <2>3, <2>a DEF Picture
    <2>4. CASE Result
      BY <2>4, <2>a DEF Result
    <2>5. CASE Second
      BY <2>5, <2>0 DEF Second
    <2>6. CASE SetBack
      BY <2>6, <2>0 DEF SetBack
    <2>7. ASSUME NEW named \in BOOLEAN, Analyze(named)
          PROVE  MinistryTypeOK'
      <3> DEFINE w == v2v_molit_weather_str_to_enum(named)
                 r == [brake |-> w, lane |-> det_buf]
      <3>1. w \in Weathers /\ r \in Report
        BY <1>0, Translated
      <3>2. /\ Send(r) /\ last_known' = w /\ since' = 0
            /\ UNCHANGED <<scene, setbacks, linked, delayed,
                           car>>
        BY <2>7 DEF Analyze
      <3> HIDE DEF w, r
      <3>3. /\ link' \in [Cars -> Seq(Report)]
            /\ \A c \in Cars : Len(link'[c]) <= MaxOnWay
        <4>1. ASSUME NEW c \in Cars
              PROVE  /\ Append(link[c], r) \in Seq(Report)
                     /\ Len(Append(link[c], r)) = Len(link[c]) + 1
                     /\ Len(link[c]) \in Nat
          BY <3>1, Carried
        <4> QED BY <2>0, <3>2, <4>1 DEF Send
      <3> QED BY <2>0, <3>1, <3>2, <3>3
    <2>8. CASE BoardRestarts
      <3>1. /\ since' = Interval /\ last_known' = WEATHER_SUNNY /\ linked' = {}
            /\ link' = [c \in Cars |-> <<>>]
            /\ delayed' = link \/ delayed' = [c \in Cars |-> <<>>]
            /\ UNCHANGED <<scene, setbacks, car>>
        BY <2>8 DEF BoardRestarts
      <3>2. WEATHER_SUNNY \in Weathers
        BY MinistryConstants
      <3>3. {link', delayed'} \subseteq [Cars -> Seq(Report)]
        BY <2>b, <3>1
      <3>4. ASSUME NEW c \in Cars
            PROVE  Len(link'[c]) <= MaxOnWay /\ Len(delayed'[c]) <= MaxOnWay
        <4>1. /\ link'[c] = <<>> \/ link'[c] = link[c]
              /\ \/ delayed'[c] = <<>> \/ delayed'[c] = link[c]
                 \/ delayed'[c] = delayed[c]
          BY <3>1
        <4> QED BY <2>0, <2>b, <4>1
      <3> QED BY <2>0, <3>1, <3>2, <3>3, <3>4
    <2>9. CASE Reconnect
      BY <2>9 DEF Reconnect
    <2>10. CASE Disconnect
      <3>1. PICK c \in linked : Lose(c)
        BY <2>10 DEF Disconnect
      <3>2. /\ linked' = linked \ {c} /\ link' = [link EXCEPT ![c] = <<>>]
            /\ \/ delayed' = [delayed EXCEPT ![c] = <<>>]
               \/ delayed' = [delayed EXCEPT ![c] = link[c]]
        BY <3>1 DEF Lose
      <3>3. {link', delayed'} \subseteq [Cars -> Seq(Report)]
        BY <2>b, <3>2
      <3>4. ASSUME NEW d \in Cars
            PROVE  Len(link'[d]) <= MaxOnWay /\ Len(delayed'[d]) <= MaxOnWay
        <4>1. /\ link'[d] = <<>> \/ link'[d] = link[d]
              /\ \/ delayed'[d] = <<>> \/ delayed'[d] = link[d]
                 \/ delayed'[d] = delayed[d]
          BY <3>2
        <4> QED BY <2>0, <2>b, <4>1
      <3> QED BY <2>10, <3>2, <3>3, <3>4 DEF Disconnect
    <2>11. ASSUME NEW c \in Cars, CarRestarts(c)
           PROVE  MinistryTypeOK'
      <3>1. Fine \in Report
        BY <1>0, MinistryConstants DEF Fine
      <3> QED BY <2>11, <2>0, <2>b, <3>1 DEF CarRestarts
    <2>12. ASSUME NEW c \in Cars, Deliver(c)
           PROVE  MinistryTypeOK'
      <3>1. ASSUME NEW q \in Seq(Report), q # <<>>
            PROVE  /\ Head(q) \in Report
                   /\ Tail(q) \in Seq(Report)
                   /\ Len(Tail(q)) <= Len(q)
                   /\ Len(Tail(q)) \in Nat /\ Len(q) \in Nat
        BY <3>1
      <3>2. CASE /\ link[c] # <<>> /\ Store(c, Head(link[c]))
                 /\ link' = [link EXCEPT ![c] = Tail(@)]
                 /\ UNCHANGED delayed
        BY <2>12, <2>0, <3>1, <3>2 DEF Deliver, Store
      <3>3. CASE /\ delayed[c] # <<>>
                 /\ Store(c, Head(delayed[c]))
                 /\ delayed' = [delayed EXCEPT ![c] = Tail(@)]
                 /\ UNCHANGED link
        BY <2>12, <2>0, <3>1, <3>3 DEF Deliver, Store
      <3> QED BY <2>12, <3>2, <3>3 DEF Deliver
    <2>13. ASSUME NEW c \in Cars, OtherMessage(c)
           PROVE  MinistryTypeOK'
      BY <2>13 DEF OtherMessage, Store
    <2>14. ASSUME NEW c \in Cars, PollOther(c)
           PROVE  MinistryTypeOK'
      BY <2>14 DEF PollOther, Store
    <2>15. ASSUME NEW c \in Cars, PollReport(c)
           PROVE  MinistryTypeOK'
      BY <2>15 DEF PollReport, Store
    <2> QED
      BY <2>1, <2>2, <2>3, <2>4, <2>5, <2>6, <2>7, <2>8, <2>9, <2>10, <2>11, <2>12,
         <2>13, <2>14, <2>15
      DEF MinistryNext, Environment, Board, Car
  <1> QED BY <1>1, <1>2, PTL DEF MinistrySpec

\* Agreement, part by part.
AgreedParts(c) ==
  /\ buffer0 = road.brake /\ det_buf = road.lane /\ last_known = road.brake
  /\ condition[c] = road
  /\ Elements(link[c]) \subseteq {road} /\ Elements(delayed[c]) \subseteq {road}
  /\ mailbox[c] \in Report => mailbox[c] = road

LEMMA Parts ==
  ASSUME NEW c
  PROVE  Agreed(c) <=> AgreedParts(c)
  BY DEF Agreed, OnItsWay, AgreedParts, Elements

\* A step that leaves the road, the board and the car in place keeps them
\* agreed: what enters the connection is the road as it is.
LEMMA AgreementStep ==
  ASSUME MinistryTypeOK, NEW c \in Cars, AgreedParts(c),
         MinistryNext, road' = road, ~BoardRestarts, ~CarRestarts(c)
  PROVE  AgreedParts(c)'
  <1> USE DEF scene, clock, connections, car
  <1>0. /\ link \in [Cars -> Seq(Report)]
        /\ delayed \in [Cars -> Seq(Report)]
        /\ mailbox \in [Cars -> Report \cup {Nothing, Foreign}]
        /\ condition \in [Cars -> Report]
        /\ road \in Report
    BY DEF MinistryTypeOK
  <1>a. Elements(<<>>) = {}
    BY DEF Elements
  <1>b. /\ Nothing \notin Report /\ Foreign \notin Report
    BY MinistryConstants
  <1>1. CASE RoadChanges
    BY <1>1 DEF RoadChanges
  <1>2. CASE Picture
    BY <1>2 DEF Picture, AgreedParts
  <1>3. CASE Result
    BY <1>3 DEF Result, AgreedParts
  <1>4. CASE Second
    BY <1>4 DEF Second, AgreedParts
  <1>5. CASE SetBack
    BY <1>5 DEF SetBack, AgreedParts
  <1>6. ASSUME NEW named \in BOOLEAN, Analyze(named)
        PROVE  AgreedParts(c)'
    <2> DEFINE w == v2v_molit_weather_str_to_enum(named)
               r == [brake |-> w, lane |-> det_buf]
    <2>1. w = road.brake /\ det_buf = road.lane
      BY Translated DEF AgreedParts
    <2>2. r = road
      BY <1>0, <2>1 DEF Report
    <2>3. /\ Send(r) /\ last_known' = w
          /\ UNCHANGED <<scene, delayed, car>>
      BY <1>6 DEF Analyze
    <2> HIDE DEF w, r
    <2>4. link'[c] = Append(link[c], road) \/ link'[c] = link[c]
      BY <2>2, <2>3 DEF Send
    <2>5. Elements(Append(link[c], road)) = Elements(link[c]) \cup {road}
      BY <1>0, Carried
    <2>6. Elements(link'[c]) \subseteq {road}
      BY <2>4, <2>5 DEF AgreedParts
    <2> QED BY <2>1, <2>3, <2>6 DEF AgreedParts
  <1>7. CASE Reconnect
    BY <1>7 DEF Reconnect, AgreedParts
  <1>8. CASE Disconnect
    <2>1. PICK d \in linked : Lose(d)
      BY <1>8 DEF Disconnect
    <2>2. /\ link'[c] = <<>> \/ link'[c] = link[c]
          /\ \/ delayed'[c] = <<>> \/ delayed'[c] = link[c]
             \/ delayed'[c] = delayed[c]
      BY <1>0, <2>1 DEF Lose
    <2>3. /\ Elements(link'[c]) \subseteq {road}
          /\ Elements(delayed'[c]) \subseteq {road}
      BY <1>a, <2>2 DEF AgreedParts
    <2> QED BY <1>8, <2>3 DEF Disconnect, AgreedParts
  <1>9. ASSUME NEW d \in Cars, d # c, Car(d)
        PROVE  AgreedParts(c)'
    <2>1. /\ link'[c] = link[c] /\ delayed'[c] = delayed[c]
          /\ mailbox'[c] = mailbox[c] /\ condition'[c] = condition[c]
      BY <1>0, <1>9 DEF Car, CarRestarts, Deliver,
         OtherMessage, PollOther, PollReport,
         Store
    <2>2. UNCHANGED <<scene, last_known>>
      BY <1>9 DEF Car, CarRestarts, Deliver,
         OtherMessage, PollOther, PollReport
    <2> QED BY <2>1, <2>2 DEF AgreedParts
  <1>10. CASE Deliver(c)
    <2>1. UNCHANGED <<scene, last_known, condition>>
      BY <1>10 DEF Deliver
    <2>2. CASE /\ link[c] # <<>> /\ Store(c, Head(link[c]))
               /\ link' = [link EXCEPT ![c] = Tail(@)]
               /\ UNCHANGED delayed
      <3>1. /\ mailbox'[c] = Head(link[c]) /\ link'[c] = Tail(link[c])
        BY <1>0, <2>2 DEF Store
      <3>2. /\ Head(link[c]) \in Elements(link[c])
            /\ Elements(Tail(link[c])) \subseteq Elements(link[c])
        BY <1>0, <2>2, Carried
      <3> QED BY <2>1, <2>2, <3>1, <3>2 DEF AgreedParts
    <2>3. CASE /\ delayed[c] # <<>>
               /\ Store(c, Head(delayed[c]))
               /\ delayed' = [delayed EXCEPT ![c] = Tail(@)]
               /\ UNCHANGED link
      <3>1. /\ mailbox'[c] = Head(delayed[c])
            /\ delayed'[c] = Tail(delayed[c])
        BY <1>0, <2>3 DEF Store
      <3>2. /\ Head(delayed[c]) \in Elements(delayed[c])
            /\ Elements(Tail(delayed[c])) \subseteq Elements(delayed[c])
        BY <1>0, <2>3, Carried
      <3> QED BY <2>1, <2>3, <3>1, <3>2 DEF AgreedParts
    <2> QED BY <1>10, <2>2, <2>3 DEF Deliver
  <1>11. CASE OtherMessage(c)
    BY <1>0, <1>b, <1>11 DEF OtherMessage, Store, AgreedParts
  <1>12. CASE PollOther(c)
    BY <1>0, <1>b, <1>12 DEF PollOther, Store, AgreedParts
  <1>13. CASE PollReport(c)
    BY <1>0, <1>b, <1>13 DEF PollReport, Store, AgreedParts
  <1> QED
    BY <1>1, <1>2, <1>3, <1>4, <1>5, <1>6, <1>7, <1>8, <1>9, <1>10, <1>11, <1>12,
       <1>13
    DEF MinistryNext, Environment, Board, Car

\* For any number of cars, whatever is lost, late or overwritten and however
\* the clock is set: a car and the board that agree with the road go on doing
\* so until the road changes or one of them restarts
\* (v2v_molit_payload.c, nc_v2v_decide).
THEOREM MinistryAgreement == MinistrySpec => AgreementLasts
  <1>1. MinistryTypeOK /\ [MinistryNext]_ministryVars =>
          [\A c \in Cars : Agreed(c) =>
             Agreed(c)' \/ road' # road \/ BoardRestarts
               \/ CarRestarts(c)]_ministryVars
    <2> SUFFICES ASSUME MinistryTypeOK, MinistryNext, NEW c \in Cars,
                        Agreed(c), road' = road, ~BoardRestarts,
                        ~CarRestarts(c)
                 PROVE  Agreed(c)'
      OBVIOUS
    <2>1. AgreedParts(c)'
      BY Parts, AgreementStep
    <2>2. Agreed(c)' <=> AgreedParts(c)'
      BY DEF Agreed, OnItsWay, AgreedParts, Elements
    <2> QED BY <2>1, <2>2
  <1>2. MinistrySpec => []MinistryTypeOK
    BY MinistryTypeCorrect
  <1> QED BY <1>1, <1>2, PTL DEF MinistrySpec, AgreementLasts

=============================================================================
