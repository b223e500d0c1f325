---------------------------- MODULE MinistryBoard ----------------------------
(***************************************************************************)
(* The ministry's board (국토교통부 보드) tells the cars the weather and    *)
(* the congestion it sees: wayland_npu_app.c analyses at most every five   *)
(* seconds, v2v_molit_payload.c translates and sends, v2v_comm.c carries   *)
(* the report, and the car keeps it (차량 보드, nc_v2v_decide).            *)
(***************************************************************************)
EXTENDS Integers, Sequences

CONSTANTS
  Cars,
  Weathers, WEATHER_SUNNY, Congestions, TRAFFIC_SMOOTH,
  Interval,             \* seconds between two reports: 5 in the code
  MaxBack, MaxSetBacks, \* bounds: how far and how often the clock is set back
  MaxOnWay,             \* bound: reports on one connection
  Nothing, Foreign      \* an empty mailbox; a message of another car

ASSUME ValuesAssumption ==
  WEATHER_SUNNY \in Weathers /\ TRAFFIC_SMOOTH \in Congestions
ASSUME BoundsAssumption ==
  Interval \in Nat \ {0} /\ {MaxBack, MaxSetBacks, MaxOnWay} \subseteq Nat

Report == [brake : Weathers, lane : Congestions]
ASSUME MailboxAssumption ==
  Nothing # Foreign /\ {Nothing, Foreign} \cap Report = {}

VARIABLES
  road,                 \* what there is to be seen
  buffer0,              \* the weather of the picture in buffers[0]
  det_buf,              \* the congestion of the network's result
  since,                \* current_time - last_print_time, as far as it matters
  setbacks,
  last_known,
  linked,               \* cars the board has in its table of peers
  link,                 \* reports on the connection to a car
  delayed,              \* reports on a connection that was replaced
  mailbox,              \* g_last_event, g_has_new_event of a car
  condition             \* g_molit_weather, g_molit_congestion of a car

scene == <<road, buffer0, det_buf>>
clock == <<since, setbacks>>
connections == <<linked, link, delayed>>
car == <<mailbox, condition>>
ministryVars == <<scene, clock, last_known, connections, car>>

Fine == [brake |-> WEATHER_SUNNY, lane |-> TRAFFIC_SMOOTH]

MinistryInit ==
  /\ road \in Report /\ buffer0 = road.brake /\ det_buf = road.lane
  /\ since = Interval /\ setbacks = 0 /\ last_known = WEATHER_SUNNY
  /\ linked = {}
  /\ link = [c \in Cars |-> <<>>] /\ delayed = link
  /\ mailbox = [c \in Cars |-> Nothing] /\ condition = [c \in Cars |-> Fine]

-----------------------------------------------------------------------------
(* The road, the camera, the network and the clock.                        *)

RoadChanges ==
  /\ road' \in Report \ {road}
  /\ UNCHANGED <<buffer0, det_buf, clock, last_known, connections, car>>

\* The weather is read from buffers[0] whichever buffer the result belongs to.
Picture ==
  /\ buffer0' = road.brake
  /\ UNCHANGED <<road, det_buf, clock, last_known, connections, car>>

Result ==
  /\ det_buf' = road.lane
  /\ UNCHANGED <<road, buffer0, clock, last_known, connections, car>>

Second ==
  /\ since < Interval /\ since' = since + 1
  /\ UNCHANGED <<scene, setbacks, last_known, connections, car>>

\* time() is the wall clock, which may be set back.
SetBack ==
  /\ setbacks < MaxSetBacks /\ setbacks' = setbacks + 1
  /\ since' \in (-MaxBack)..(since - 1)
  /\ UNCHANGED <<scene, last_known, connections, car>>

-----------------------------------------------------------------------------
(* nc_board1_front_car_analyze and v2v_molit_send_payload.                 *)

\* Mutant: a result that names no weather is told as the default.
MolitWeatherDefault(named) == IF named THEN buffer0 ELSE WEATHER_SUNNY

\* "분석 중...", "전환 중..." and the like name no weather.
v2v_molit_weather_str_to_enum(named) == IF named THEN buffer0 ELSE last_known

\* v2v_send_event to every peer in the table.
Send(r) ==
  /\ \A c \in linked : Len(link[c]) < MaxOnWay
  /\ link' = [c \in Cars |-> IF c \in linked THEN Append(link[c], r) ELSE link[c]]

\* Mutant: a report that says nothing new is not sent.
AnalyzeOnChange(named) ==
  /\ since >= Interval
  /\ LET w == v2v_molit_weather_str_to_enum(named)
     IN  /\ last_known' = w
         /\ IF w = last_known THEN UNCHANGED link
                              ELSE Send([brake |-> w, lane |-> det_buf])
  /\ since' = 0
  /\ UNCHANGED <<scene, setbacks, linked, delayed, car>>

Analyze(named) ==
  /\ since >= Interval
  /\ LET w == v2v_molit_weather_str_to_enum(named)
     IN  last_known' = w /\ Send([brake |-> w, lane |-> det_buf])
  /\ since' = 0
  /\ UNCHANGED <<scene, setbacks, linked, delayed, car>>

-----------------------------------------------------------------------------
(* Connections, and the boards' restarts.                                  *)

\* The connection to c is lost with what is on it, or its receive thread still
\* finds the reports there while a new connection is made.
Lose(c) ==
  /\ linked' = linked \ {c} /\ link' = [link EXCEPT ![c] = <<>>]
  /\ delayed' \in {[delayed EXCEPT ![c] = <<>>], [delayed EXCEPT ![c] = link[c]]}

Disconnect ==
  /\ \E c \in linked : Lose(c)
  /\ UNCHANGED <<scene, clock, last_known, car>>

Reconnect ==
  /\ \E c \in Cars \ linked : linked' = linked \cup {c}
  /\ UNCHANGED <<scene, clock, last_known, link, delayed, car>>

\* The board's program starts again: last_print_time is 0, all it knew is gone.
BoardRestarts ==
  /\ since' = Interval /\ last_known' = WEATHER_SUNNY
  /\ linked' = {} /\ link' = [c \in Cars |-> <<>>]
  /\ delayed' \in {link, [c \in Cars |-> <<>>]}
  /\ UNCHANGED <<scene, setbacks, car>>

CarRestarts(c) ==
  /\ linked' = linked \ {c}
  /\ link' = [link EXCEPT ![c] = <<>>]
  /\ delayed' = [delayed EXCEPT ![c] = <<>>]
  /\ mailbox' = [mailbox EXCEPT ![c] = Nothing]
  /\ condition' = [condition EXCEPT ![c] = Fine]
  /\ UNCHANGED <<scene, clock, last_known>>

-----------------------------------------------------------------------------
(* The car: store_received_event, v2v_poll_event, nc_v2v_decide.           *)

\* One slot, and the last message stored wins.
Store(c, m) == mailbox' = [mailbox EXCEPT ![c] = m]

Deliver(c) ==
  /\ \/ /\ link[c] # <<>> /\ Store(c, Head(link[c]))
        /\ link' = [link EXCEPT ![c] = Tail(@)] /\ UNCHANGED delayed
     \/ /\ delayed[c] # <<>> /\ Store(c, Head(delayed[c]))
        /\ delayed' = [delayed EXCEPT ![c] = Tail(@)] /\ UNCHANGED link
  /\ UNCHANGED <<scene, clock, last_known, linked, condition>>

OtherMessage(c) ==
  /\ Store(c, Foreign)
  /\ UNCHANGED <<scene, clock, last_known, connections, condition>>

PollOther(c) ==
  /\ mailbox[c] = Foreign /\ Store(c, Nothing)
  /\ UNCHANGED <<scene, clock, last_known, connections, condition>>

PollReport(c) ==
  /\ mailbox[c] \in Report
  /\ condition' = [condition EXCEPT ![c] = mailbox[c]]
  /\ Store(c, Nothing)
  /\ UNCHANGED <<scene, clock, last_known, connections>>

-----------------------------------------------------------------------------
Environment == RoadChanges \/ Picture \/ Result \/ Second \/ SetBack

Board == (\E named \in BOOLEAN : Analyze(named)) \/ BoardRestarts

Car(c) ==
  CarRestarts(c) \/ Deliver(c) \/ OtherMessage(c) \/ PollOther(c) \/ PollReport(c)

MinistryNext ==
  \/ Environment
  \/ Board
  \/ Reconnect \/ Disconnect
  \/ \E c \in Cars : Car(c)

MinistrySpec == MinistryInit /\ [][MinistryNext]_ministryVars

\* The camera, the network, the clock and the receive threads go on; the
\* weather is named again and again; cars send once a second and a frame polls
\* thirty times a second, so that a report is polled before it is overwritten
\* every now and then.
FairMinistrySpec ==
  /\ MinistrySpec
  /\ WF_ministryVars(Picture) /\ WF_ministryVars(Result)
  /\ WF_ministryVars(Second)
  /\ SF_ministryVars(Analyze(TRUE))
  /\ \A c \in Cars :
       WF_ministryVars(Deliver(c)) /\ SF_ministryVars(PollReport(c))

-----------------------------------------------------------------------------
(* Properties.                                                             *)

MinistryTypeOK ==
  /\ road \in Report /\ buffer0 \in Weathers /\ det_buf \in Congestions
  /\ since \in (-MaxBack)..Interval /\ setbacks \in 0..MaxSetBacks
  /\ last_known \in Weathers /\ linked \subseteq Cars
  /\ {link, delayed} \subseteq [Cars -> Seq(Report)]
  /\ \A c \in Cars : Len(link[c]) <= MaxOnWay /\ Len(delayed[c]) <= MaxOnWay
  /\ mailbox \in [Cars -> Report \cup {Nothing, Foreign}]
  /\ condition \in [Cars -> Report]

\* What is on its way to c: a report nobody has taken yet.
OnItsWay(c) ==
  {link[c][i] : i \in DOMAIN link[c]} \cup {delayed[c][i] : i \in DOMAIN delayed[c]}
    \cup ({mailbox[c]} \cap Report)

Agreed(c) ==
  /\ buffer0 = road.brake /\ det_buf = road.lane /\ last_known = road.brake
  /\ OnItsWay(c) \cup {condition[c]} = {road}

\* A car that holds the true condition, as the board does, never loses it to
\* an analysis without a name, a lost, late or overwritten report or another
\* car's message, as long as the road stays as it is and nobody restarts.
AgreementLasts ==
  [][\A c \in Cars : Agreed(c) =>
       Agreed(c)' \/ road' # road \/ BoardRestarts \/ CarRestarts(c)]_ministryVars

\* A car that stays linked learns the condition of a road that stays as it is,
\* although its one mailbox slot is shared with the messages of other cars,
\* results name no weather and the clock is set back.
ConditionArrives ==
  \A c \in Cars : \A r \in Report :
    <>[](road = r /\ c \in linked) => <>[](condition[c] = r)

=============================================================================
