------------------------------ MODULE V2VLink ------------------------------
(***************************************************************************)
(* The TCP links between the boards: v2v_comm.c with the dial lists of     *)
(* v2v_topology.c.  On every board three kinds of threads work on the peer *)
(* table g_peers: one dials the boards it is not connected to, one accepts *)
(* connections, and one per connection receives.  The render thread sends  *)
(* its status to every entry of the table once a second.                   *)
(*                                                                         *)
(* A board can exit and start again, or lose power and start again.  The   *)
(* kernel tells the other end of the first (recv returns 0); the second is *)
(* silent until the other end sends something to the restarted board.      *)
(*                                                                         *)
(* Descriptors are numbers the kernel hands out again, lowest first.  Two  *)
(* threads may close the same one, and the second close then hits whatever *)
(* has been given the number since.  A thread that is inside recv keeps    *)
(* its connection alive even if another thread closes the descriptor.      *)
(***************************************************************************)
EXTENDS Integers, FiniteSets

CONSTANTS
  Boards,        \* vehicle ids
  Fds, Conns,    \* descriptors and connections (bounds: 1..n)
  MAX_PEER_CNT,
  MaxOutages,    \* how many restarts happen at most
  Outages,       \* which kinds: "exit", "power"
  MaxLate        \* how many dials at most overtake a thread that is ready

ASSUME LinkAssumption ==
  /\ Boards \subseteq Nat \ {0} /\ IsFiniteSet(Boards)
  /\ Fds \subseteq Nat \ {0} /\ Conns \subseteq Nat \ {0}
  /\ MAX_PEER_CNT \in Nat \ {0} /\ MaxOutages \in Nat /\ MaxLate \in Nat
  /\ Outages \subseteq {"exit", "power"}

VARIABLES
  up,          \* is the program of the board running?
  fd,          \* the connection behind each descriptor, 0 when closed
  g_peers,     \* the connected entries of the table
  receivers,   \* receive threads: their descriptor, and the connection they
               \* are blocked on (0: recv finds the descriptor closed)
  closing,     \* receive threads between v2v_remove_peer() and close()
  dialing,     \* what the retry thread has connected and not yet entered
  accepting,   \* the accept thread inside recv of the id
  backlog,     \* connections not yet accepted
  ends,        \* the boards of each connection, has the client sent its id?
  silent,      \* <<c, b>>: b's end of c is gone and the other does not know
  outages,     \* restarts so far
  late         \* dials so far that overtook a thread

tables == <<fd, g_peers, receivers, closing, dialing, accepting, backlog>>
net == <<ends, silent>>
counters == <<outages, late>>
vars == <<up, tables, net, counters>>

Entry == [fd : Fds, ip : Boards]
Thread == [fd : Fds, conn : Conns \cup {0}]
NoEntry == [fd |-> 0, ip |-> 0]
NoThread == [fd |-> 0, conn |-> 0]

\* v2v_topology_init(): a board dials the boards with larger ids.
DialPeers(a) == {b \in Boards : b > a}

Init ==
  /\ up = [b \in Boards |-> TRUE]
  /\ fd = [b \in Boards |-> [f \in Fds |-> 0]]
  /\ g_peers = [b \in Boards |-> {}] /\ receivers = [b \in Boards |-> {}]
  /\ closing = [b \in Boards |-> {}]
  /\ dialing = [b \in Boards |-> NoEntry]
  /\ accepting = [b \in Boards |-> NoThread]
  /\ backlog = [b \in Boards |-> {}]
  /\ ends = [c \in Conns |-> [client |-> 0, server |-> 0, said |-> FALSE]]
  /\ silent = {} /\ outages = 0 /\ late = 0

-----------------------------------------------------------------------------
(* Sockets.                                                                *)

Other(c, b) == IF ends[c].client = b THEN ends[c].server ELSE ends[c].client

\* Board b's end of the connection exists.
Holds(b, c) ==
  \/ \E f \in Fds : fd[b][f] = c
  \/ \E t \in receivers[b] \cup {accepting[b]} : t.conn = c
  \/ c \in backlog[b]

\* recv at b reports the end of the connection, or a closed descriptor.
Ended(b, c) ==
  c # 0 => /\ ~Holds(Other(c, b), c)
           /\ <<c, Other(c, b)>> \notin silent

Unused(c) == \A b \in Boards : ~Holds(b, c)

\* c names the new connection; f is the descriptor the kernel hands out.
NextConn(c) == Unused(c) /\ \A d \in Conns : Unused(d) => c <= d
NextFd(b, f) ==
  fd[b][f] = 0 /\ \A g \in Fds : fd[b][g] = 0 => f <= g

-----------------------------------------------------------------------------
(* The peer table.                                                         *)

v2v_is_ip_connected(b, ip) == \E e \in g_peers[b] : e.ip = ip
v2v_peer_count(b) == Cardinality(g_peers[b])

\* Mutant: the duplicate check is dropped.
CanAddTwice(b, ip) == v2v_peer_count(b) < MAX_PEER_CNT

\* v2v_add_peer(): no entry of this board yet, and a free slot.
CanAdd(b, ip) ==
  ~v2v_is_ip_connected(b, ip) /\ v2v_peer_count(b) < MAX_PEER_CNT

\* v2v_add_peer(); when it succeeds a receive thread starts on the
\* descriptor, else the descriptor is closed.
AddOrClose(b, f, ip) ==
  IF CanAdd(b, ip)
    THEN /\ g_peers' = [g_peers EXCEPT ![b] = @ \cup {[fd |-> f, ip |-> ip]}]
         /\ receivers' = [receivers EXCEPT
                            ![b] = @ \cup {[fd |-> f, conn |-> fd[b][f]]}]
         /\ UNCHANGED fd
    ELSE /\ fd' = [fd EXCEPT ![b][f] = 0]
         /\ UNCHANGED <<g_peers, receivers>>

\* v2v_remove_peer(f)
Without(entries, f) == {e \in entries : e.fd # f}

-----------------------------------------------------------------------------
(* The retry thread.                                                       *)

\* No thread of any board is ready to run: it would have during the sleep of
\* V2V_CONNECT_RETRY_SEC seconds.
AllWait ==
  \A b \in Boards :
    /\ accepting[b] = NoThread => backlog[b] = {} \/ ~up[b]
    /\ accepting[b] # NoThread =>
         LET c == accepting[b].conn IN ~ends[c].said /\ ~Ended(b, c)
    /\ closing[b] = {} /\ \A t \in receivers[b] : ~Ended(b, t.conn)

\* v2v_connect_retry_task() up to connect() in v2v_try_connect_one().
Connect(a, b) ==
  /\ up[a] /\ up[b] /\ b \in DialPeers(a)
  /\ late' = IF AllWait THEN late ELSE late + 1
  /\ late' <= MaxLate
  /\ dialing[a] = NoEntry /\ ~v2v_is_ip_connected(a, b)
  /\ \E c \in Conns, f \in Fds :
       /\ NextConn(c) /\ NextFd(a, f)
       /\ fd' = [fd EXCEPT ![a][f] = c]
       /\ dialing' = [dialing EXCEPT ![a] = [fd |-> f, ip |-> b]]
       /\ backlog' = [backlog EXCEPT ![b] = @ \cup {c}]
       /\ ends' = [ends EXCEPT ![c] = [client |-> a, server |-> b,
                                       said |-> FALSE]]
       /\ silent' = {s \in silent : s[1] # c}
  /\ UNCHANGED <<up, g_peers, receivers, closing, accepting, outages>>

\* The rest of v2v_try_connect_one().  Nobody looks at the result of send.
Announce(a) ==
  /\ dialing[a] # NoEntry
  /\ AddOrClose(a, dialing[a].fd, dialing[a].ip)
  /\ ends' = [c \in Conns |->
                [ends[c] EXCEPT !.said =
                   @ \/ (c = fd[a][dialing[a].fd] /\ ends[c].client = a)]]
  /\ dialing' = [dialing EXCEPT ![a] = NoEntry]
  /\ UNCHANGED <<up, closing, accepting, backlog, silent, counters>>

-----------------------------------------------------------------------------
(* The accept thread.                                                      *)

\* accept(), the count, and the start of recv_all() of the id.
Accept(b) ==
  /\ up[b] /\ accepting[b] = NoThread
  /\ \E c \in backlog[b], f \in Fds :
       /\ NextFd(b, f)
       /\ backlog' = [backlog EXCEPT ![b] = @ \ {c}]
       /\ IF v2v_peer_count(b) >= MAX_PEER_CNT
            THEN UNCHANGED <<fd, accepting>>           \* closed at once
            ELSE /\ fd' = [fd EXCEPT ![b][f] = c]
                 /\ accepting' = [accepting EXCEPT
                                    ![b] = [fd |-> f, conn |-> c]]
  /\ UNCHANGED <<up, g_peers, receivers, closing, dialing, net, counters>>

\* recv_all() of the id returns: with the id, or with the end of the
\* connection.
ReadId(b) ==
  /\ accepting[b] # NoThread
  /\ LET f == accepting[b].fd
         c == accepting[b].conn
     IN  \/ ends[c].said /\ AddOrClose(b, f, ends[c].client)
         \/ /\ ~ends[c].said /\ Ended(b, c)
            /\ fd' = [fd EXCEPT ![b][f] = 0]
            /\ UNCHANGED <<g_peers, receivers>>
  /\ accepting' = [accepting EXCEPT ![b] = NoThread]
  /\ UNCHANGED <<up, closing, dialing, backlog, net, counters>>

-----------------------------------------------------------------------------
(* The receive threads and the sender.                                     *)

\* Mutant: the thread only closes its descriptor.
RecvEndsClosing(b, t) ==
  /\ t \in receivers[b] /\ Ended(b, t.conn)
  /\ receivers' = [receivers EXCEPT ![b] = @ \ {t}]
  /\ closing' = [closing EXCEPT ![b] = @ \cup {t}]
  /\ UNCHANGED <<up, fd, g_peers, dialing, accepting, backlog, net, counters>>

\* recv_all() of thread t fails: v2v_remove_peer().
RecvEnds(b, t) ==
  /\ t \in receivers[b] /\ Ended(b, t.conn)
  /\ g_peers' = [g_peers EXCEPT ![b] = Without(@, t.fd)]
  /\ receivers' = [receivers EXCEPT ![b] = @ \ {t}]
  /\ closing' = [closing EXCEPT ![b] = @ \cup {t}]
  /\ UNCHANGED <<up, fd, dialing, accepting, backlog, net, counters>>

\* close() and the end of the thread; the number may be another's by now.
CloseRemoved(b, t) ==
  /\ t \in closing[b]
  /\ fd' = [fd EXCEPT ![b][t.fd] = 0]
  /\ closing' = [closing EXCEPT ![b] = @ \ {t}]
  /\ UNCHANGED <<up, g_peers, receivers, dialing, accepting, backlog, net, counters>>

\* A thread whose descriptor was closed under it gets a message and calls
\* recv() again, on whatever the number stands for now.
RecvAgain(b, t) ==
  /\ t \in receivers[b] /\ t.conn # 0 /\ fd[b][t.fd] # t.conn
  /\ \E e \in g_peers[Other(t.conn, b)] :
       fd[Other(t.conn, b)][e.fd] = t.conn             \* the other end sends
  /\ receivers' = [receivers EXCEPT
                     ![b] = (@ \ {t}) \cup {[t EXCEPT !.conn = fd[b][t.fd]]}]
  /\ UNCHANGED <<up, fd, g_peers, closing, dialing, accepting, backlog, net,
                 counters>>

\* Mutant: a failed entry is closed and not cleared.
BroadcastClosing(b) ==
  /\ up[b]
  /\ \E failed \in SUBSET {e \in g_peers[b] : Ended(b, fd[b][e.fd])} :
       /\ \A e \in g_peers[b] : fd[b][e.fd] = 0 => e \in failed
       /\ fd' = [fd EXCEPT ![b] = [f \in Fds |->
                   IF \E e \in failed : e.fd = f THEN 0 ELSE fd[b][f]]]
  /\ silent' = {s \in silent :
                  ~ \E e \in g_peers[b] : fd[b][e.fd] = s[1] /\ up[s[2]]}
  /\ UNCHANGED <<up, g_peers, receivers, closing, dialing, accepting, backlog, ends,
                 counters>>

\* v2v_send_event(): sends to every entry.  On a closed descriptor send
\* fails; where the other end has closed, it may fail (the first send after
\* the close does not).  A failed entry is closed and cleared; its thread
\* stays.  A restarted board answers with a reset.
Broadcast(b) ==
  /\ up[b]
  /\ \E failed \in SUBSET {e \in g_peers[b] : Ended(b, fd[b][e.fd])} :
       /\ \A e \in g_peers[b] : fd[b][e.fd] = 0 => e \in failed
       /\ g_peers' = [g_peers EXCEPT ![b] = @ \ failed]
       /\ fd' = [fd EXCEPT ![b] = [f \in Fds |->
                   IF \E e \in failed : e.fd = f THEN 0 ELSE fd[b][f]]]
  /\ silent' = {s \in silent :
                  ~ \E e \in g_peers[b] : fd[b][e.fd] = s[1] /\ up[s[2]]}
  /\ UNCHANGED <<up, receivers, closing, dialing, accepting, backlog, ends,
                 counters>>

-----------------------------------------------------------------------------
(* The boards.                                                             *)

\* The program exits or the board loses power.
Outage(b, kind) ==
  /\ up[b] /\ outages < MaxOutages
  /\ up' = [up EXCEPT ![b] = FALSE]
  /\ silent' = silent \cup {<<c, b>> : c \in {d \in Conns :
                                                kind = "power" /\ Holds(b, d)}}
  /\ fd' = [fd EXCEPT ![b] = [f \in Fds |-> 0]]
  /\ g_peers' = [g_peers EXCEPT ![b] = {}]
  /\ receivers' = [receivers EXCEPT ![b] = {}]
  /\ closing' = [closing EXCEPT ![b] = {}]
  /\ dialing' = [dialing EXCEPT ![b] = NoEntry]
  /\ accepting' = [accepting EXCEPT ![b] = NoThread]
  /\ backlog' = [backlog EXCEPT ![b] = {}]
  /\ outages' = outages + 1
  /\ UNCHANGED <<ends, late>>

\* main() runs v2v_init() again.
Boot(b) ==
  /\ ~up[b]
  /\ up' = [up EXCEPT ![b] = TRUE]
  /\ UNCHANGED <<tables, net, counters>>

Next ==
  \/ \E a, b \in Boards : Connect(a, b)
  \/ \E b \in Boards : \/ Announce(b) \/ Accept(b) \/ ReadId(b)
                       \/ Broadcast(b) \/ Boot(b)
                       \/ \E t \in receivers[b] : RecvEnds(b, t)
                       \/ \E t \in closing[b] : CloseRemoved(b, t)
                       \/ \E t \in receivers[b] : RecvAgain(b, t)
                       \/ \E kind \in Outages : Outage(b, kind)

Spec == Init /\ [][Next]_vars

\* Every thread goes on, the status goes out every second, and a board that
\* is down is started again.
FairSpec ==
  /\ Spec
  /\ \A a, b \in Boards : WF_vars(Connect(a, b))
  /\ \A b \in Boards :
       /\ WF_vars(Announce(b)) /\ WF_vars(Accept(b)) /\ WF_vars(ReadId(b))
       /\ SF_vars(Broadcast(b)) /\ WF_vars(Boot(b))
       /\ WF_vars(\E t \in receivers[b] : RecvEnds(b, t))
       /\ WF_vars(\E t \in closing[b] : CloseRemoved(b, t))
       /\ WF_vars(\E t \in receivers[b] : RecvAgain(b, t))

-----------------------------------------------------------------------------
(* Properties.                                                             *)

\* The table never overflows and every thread works on a known descriptor.
TypeOK ==
  /\ up \in [Boards -> BOOLEAN]
  /\ fd \in [Boards -> [Fds -> Conns \cup {0}]]
  /\ g_peers \in [Boards -> SUBSET Entry]
  /\ \A b \in Boards : v2v_peer_count(b) <= MAX_PEER_CNT
  /\ receivers \in [Boards -> SUBSET Thread]
  /\ closing \in [Boards -> SUBSET Thread]
  /\ dialing \in [Boards -> Entry \cup {NoEntry}]
  /\ accepting \in [Boards -> [fd : Fds, conn : Conns] \cup {NoThread}]
  /\ backlog \in [Boards -> SUBSET Conns]
  /\ ends \in [Conns -> [client : Boards \cup {0}, server : Boards \cup {0},
                         said : BOOLEAN]]
  /\ silent \subseteq Conns \X Boards /\ outages \in 0..MaxOutages
  /\ late \in 0..MaxLate

\* v2v_add_peer(): two links to the same board never coexist in a table,
\* whichever threads add, remove and close at the same time.
OneEntryPerPeer ==
  \A b \in Boards : \A e, f \in g_peers[b] : e.ip = f.ip => e = f

\* Whatever threads close under each other's feet, every entry has a receive
\* thread on its descriptor.  An entry without one would outlive its
\* connection and keep the retry thread from dialing that board again.
EveryEntryIsWatched ==
  \A b \in Boards : \A e \in g_peers[b] :
    \E t \in receivers[b] : t.fd = e.fd

\* Both boards have the same connection in their tables.
Linked(a, b) ==
  \E e \in g_peers[a], f \in g_peers[b] :
    e.ip = b /\ f.ip = a /\ fd[a][e.fd] = fd[b][f.fd] /\ fd[a][e.fd] # 0

\* The accept thread of b waits for an id that has not been sent.
WaitsForId(b) == accepting[b] # NoThread /\ ~ends[accepting[b].conn].said

\* README 3: after restarts and power losses the retries of the smaller id
\* link the boards again, for good, but for one thing: the accept thread,
\* which reads the id itself, may wait for ever for an id that a power loss
\* or a descriptor closed under the dialing thread has swallowed.
LinksComeBackUnlessHeld ==
  <>[](\A a, b \in Boards : a < b => Linked(a, b) \/ WaitsForId(b))

=============================================================================
