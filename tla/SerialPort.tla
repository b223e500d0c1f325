----------------------------- MODULE SerialPort -----------------------------
(***************************************************************************)
(* The receiver of the driver's buttons, 차량 보드/serial_gui.c: a thread   *)
(* reads characters from the serial port, reopens the port when it fails   *)
(* or stays at its end, and keeps the last button; the main thread may     *)
(* stop it.  A descriptor of a device that went away stays dead when the   *)
(* device is back.  Descriptors are numbers, which the other threads take  *)
(* for their sockets and queues as soon as they are closed; and they close *)
(* some numbers twice: a link that v2v_send_event() has closed is closed   *)
(* again by its receiving thread, whatever the number stands for by then.  *)
(***************************************************************************)
EXTENDS Naturals, FiniteSets

CONSTANTS
  Numbers,              \* descriptor numbers
  None,                 \* -1
  EofLimit,             \* ends of file in a row before the port is reopened
  MaxSecondCloses,      \* bound: second closes of one number under way
  Events, InitialEvent, \* what the characters of the buttons mean
  MayStop               \* whether the program may be stopped

ASSUME NumbersAssumption ==
  IsFiniteSet(Numbers) /\ Cardinality(Numbers) > 1 /\ None \notin Numbers
ASSUME EofAssumption == EofLimit \in Nat \ {0} /\ MaxSecondCloses \in Nat
ASSUME EventsAssumption == InitialEvent \in Events /\ MayStop \in BOOLEAN

VARIABLES
  owner,                \* what a number stands for: nothing, the port, the port
                        \* of a device that is gone, a file of other threads
  device,               \* whether the serial device is there
  g_serial_fd, g_sg_running, g_sg_event,
  reader,               \* where serial_gui_task is
  reading,              \* what its read() is on, as in owner
  err_cnt,
  stop,                 \* where serial_gui_stop() is: no, closed, done
  secondCloses,         \* per number, the receiving threads yet to close it
  taken                 \* history: one of them closed the port's descriptor

outside == <<device, g_sg_event>>
stopping == <<g_sg_running, stop>>
portVars == <<owner, g_serial_fd, outside, stopping, reader, reading, err_cnt,
              secondCloses, taken>>

File(d) == IF d = None THEN "none" ELSE owner[d]

\* serial_gui_init has opened the port and created the thread.
PortInit ==
  /\ \E d \in Numbers :
       /\ g_serial_fd = d
       /\ owner = [n \in Numbers |-> IF n = d THEN "port" ELSE "none"]
  /\ device = TRUE /\ g_sg_running = TRUE /\ g_sg_event = InitialEvent
  /\ reader = "check" /\ reading = "none" /\ err_cnt = 0
  /\ stop = "no"
  /\ secondCloses = [n \in Numbers |-> 0] /\ taken = FALSE

\* close() of whatever has the number now.
Close(d) == owner' = [n \in Numbers |-> IF n = d THEN "none" ELSE owner[n]]

-----------------------------------------------------------------------------
(* serial_gui_task.                                                        *)

Check ==
  /\ reader = "check" /\ reader' = IF g_sg_running THEN "call" ELSE "ended"
  /\ UNCHANGED <<owner, g_serial_fd, outside, stopping, reading, err_cnt,
                 secondCloses, taken>>

\* read() goes on with the file the number stood for when it was called.
Call ==
  /\ reader = "call" /\ reader' = "read" /\ reading' = File(g_serial_fd)
  /\ UNCHANGED <<owner, g_serial_fd, outside, stopping, err_cnt, secondCloses,
                 taken>>

\* A character: a button, or one that is ignored.
Character ==
  /\ reader = "read" /\ reader' = "check" /\ reading' = "none"
  /\ reading \in {"port", "other"}
  /\ err_cnt' = 0
  /\ \E e \in Events \cup {g_sg_event} : g_sg_event' = e
  /\ UNCHANGED <<owner, g_serial_fd, device, stopping, secondCloses, taken>>

\* Mutant: the end of the file is waited out.
EndOfFileWaits ==
  /\ reader = "read" /\ reader' = "check" /\ reading' = "none"
  /\ reading \in {"dead", "other"}
  /\ UNCHANGED <<owner, g_serial_fd, outside, stopping, err_cnt, secondCloses,
                 taken>>

\* Mutant: the count of the ends is not reset when the port is reopened.
EndOfFileKeepsCount ==
  /\ reader = "read" /\ reading' = "none"
  /\ reading \in {"dead", "other"}
  /\ err_cnt' = err_cnt + 1
  /\ IF err_cnt + 1 >= EofLimit
       THEN Close(g_serial_fd) /\ reader' = "reopen"
       ELSE reader' = "check" /\ UNCHANGED owner
  /\ UNCHANGED <<g_serial_fd, outside, stopping, secondCloses, taken>>

\* read() returns 0; the last of EofLimit in a row closes the port.
EndOfFile ==
  /\ reader = "read" /\ reading' = "none"
  /\ reading \in {"dead", "other"}
  /\ IF err_cnt + 1 >= EofLimit
       THEN Close(g_serial_fd) /\ reader' = "reopen" /\ err_cnt' = 0
       ELSE /\ reader' = "check" /\ err_cnt' = err_cnt + 1
            /\ UNCHANGED owner
  /\ UNCHANGED <<g_serial_fd, outside, stopping, secondCloses, taken>>

\* read() fails, at once when there is no descriptor.
ReadFails ==
  /\ reader = "read" /\ reader' = "reopen" /\ reading' = "none"
  /\ reading \in {"dead", "none", "other"}
  /\ Close(g_serial_fd)
  /\ UNCHANGED <<g_serial_fd, outside, stopping, err_cnt, secondCloses, taken>>

\* Mutant: a failed open leaves the old number.
NoDescriptorOld == UNCHANGED g_serial_fd

NoDescriptor == g_serial_fd' = None

\* open_and_setup, a while after the port was closed.
Reopen ==
  /\ reader = "reopen" /\ reader' = "check"
  /\ \/ /\ device
        /\ \E d \in Numbers :
             /\ owner[d] = "none" /\ owner' = [owner EXCEPT ![d] = "port"]
             /\ g_serial_fd' = d
     \/ ~device /\ NoDescriptor /\ UNCHANGED owner
  /\ taken' = FALSE
  /\ UNCHANGED <<outside, stopping, reading, err_cnt, secondCloses>>

-----------------------------------------------------------------------------
(* serial_gui_stop.                                                        *)

Stop ==
  /\ MayStop /\ stop = "no"
  /\ g_sg_running' = FALSE
  /\ IF g_serial_fd = None THEN stop' = "done" /\ UNCHANGED owner
                           ELSE stop' = "closed" /\ Close(g_serial_fd)
  /\ UNCHANGED <<g_serial_fd, outside, reader, reading, err_cnt, secondCloses,
                 taken>>

StopEnds ==
  /\ stop = "closed" /\ stop' = "done"
  /\ g_serial_fd' = None
  /\ UNCHANGED <<owner, outside, g_sg_running, reader, reading, err_cnt,
                 secondCloses, taken>>

-----------------------------------------------------------------------------
(* The rest of the program, and the device.                                *)

\* Other threads open and close files; there is always a number left.
Others ==
  /\ \E d \in Numbers :
       \/ /\ owner[d] = "none" /\ \E n \in Numbers \ {d} : owner[n] = "none"
          /\ owner' = [owner EXCEPT ![d] = "other"]
       \/ owner[d] = "other" /\ Close(d)
  /\ UNCHANGED <<g_serial_fd, outside, stopping, reader, reading, err_cnt,
                 secondCloses, taken>>

\* v2v_send_event() closes a link it cannot send on; the receiving thread of
\* that link keeps the number.
SendCloses ==
  /\ \E d \in Numbers :
       /\ owner[d] = "other" /\ Close(d)
       /\ secondCloses[d] < MaxSecondCloses
       /\ secondCloses' = [secondCloses EXCEPT ![d] = @ + 1]
  /\ UNCHANGED <<g_serial_fd, outside, stopping, reader, reading, err_cnt,
                 taken>>

\* The receiving thread ends and closes its number.
RecvCloses ==
  /\ \E d \in Numbers :
       /\ secondCloses[d] > 0
       /\ secondCloses' = [secondCloses EXCEPT ![d] = @ - 1]
       /\ Close(d)
       /\ taken' = (taken \/ (d = g_serial_fd /\ owner[d] \in {"port", "dead"}))
  /\ UNCHANGED <<g_serial_fd, outside, stopping, reader, reading, err_cnt>>

\* What a file becomes when the device goes away.
Gone(f) == IF f = "port" THEN "dead" ELSE f

Device ==
  /\ device' = ~device
  /\ IF device THEN /\ owner' = [n \in Numbers |-> Gone(owner[n])]
                    /\ reading' = Gone(reading)
               ELSE UNCHANGED <<owner, reading>>
  /\ UNCHANGED <<g_serial_fd, g_sg_event, stopping, reader, err_cnt,
                 secondCloses, taken>>

Reader == Check \/ Call \/ Character \/ EndOfFile \/ ReadFails \/ Reopen

PortNext ==
  Reader \/ Stop \/ StopEnds \/ Others \/ SendCloses \/ RecvCloses \/ Device

PortSpec == PortInit /\ [][PortNext]_portVars

\* What the receiver gets done however long nothing comes; a read of another
\* thread's file may block.
Proceeds ==
  Check \/ Call \/ Reopen \/ (reading # "other" /\ (EndOfFile \/ ReadFails))

FairPortSpec == PortSpec /\ WF_portVars(Proceeds)

-----------------------------------------------------------------------------
(* Properties.                                                             *)

PortTypeOK ==
  /\ owner \in [Numbers -> {"none", "port", "dead", "other"}]
  /\ device \in BOOLEAN
  /\ g_serial_fd \in Numbers \cup {None}
  /\ g_sg_running \in BOOLEAN /\ g_sg_event \in Events
  /\ reader \in {"check", "call", "read", "reopen", "ended"}
  /\ reading \in {"none", "port", "dead", "other"}
  /\ err_cnt \in 0..(EofLimit - 1)
  /\ stop \in {"no", "closed", "done"}
  /\ secondCloses \in [Numbers -> 0..MaxSecondCloses] /\ taken \in BOOLEAN

\* While the program is not stopped the receiver closes no descriptor but its
\* own, however often the port fails and whoever takes its number in between;
\* unless a receiving thread of a link, closing its number a second time
\* (v2v_comm.c:158 after 261), has closed the port's descriptor.
ClosesItsOwn ==
  [][\A n \in Numbers :
       reader' # reader /\ owner[n] = "other" /\ owner'[n] # "other"
         => taken \/ ~g_sg_running]_portVars

\* Once the device is there for good the receiver listens to it again, however
\* often it went away, while it was read or while it was reopened; unless its
\* descriptor was closed by another thread, and it reads whatever file has the
\* number since.
PortComesBack ==
  <>[](device /\ g_sg_running) => []<>(reading = "port" \/ taken)

=============================================================================
