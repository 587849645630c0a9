----------------------- MODULE ContinuousNode_proofs -----------------------
(***************************************************************************)
(* Theorems about ContinuousNode, for every length of the clock, of the    *)
(* delays and of the intervals its assumptions allow, and for every build. *)
(***************************************************************************)
EXTENDS ContinuousNode, TLAPS

-----------------------------------------------------------------------------
(* The clock *)

LEMMA LaterType ==
    ASSUME NEW t \in Instants, NEW d \in Nat, d < ClockModulus
    PROVE  Later(t, d) \in Instants
BY ClockAssumption DEF Later, Instants

LEMMA ElapsedType ==
    ASSUME NEW t \in Instants, NEW s \in Instants
    PROVE  Elapsed(t, s) \in Instants
BY ClockAssumption DEF Elapsed, Instants

LEMMA ElapsedSelf ==
    ASSUME NEW t \in Instants
    PROVE  Elapsed(t, t) = 0
BY DEF Elapsed, Instants

\* One millisecond later the difference is one more, or starts again.
LEMMA ElapsedTick ==
    ASSUME NEW t \in Instants, NEW s \in Instants, 1 < ClockModulus
    PROVE  Elapsed(Later(t, 1), s) =
               IF Elapsed(t, s) + 1 < ClockModulus THEN Elapsed(t, s) + 1 ELSE 0
BY ClockAssumption DEF Elapsed, Later, Instants

-----------------------------------------------------------------------------
(* The relay module, whatever composes it *)

LEMMA RelayInitType == RelayInit => RelayTypeOK
BY RelayAssumption, ClockAssumption DEF RelayInit, RelayTypeOK, Untracked, Instants

LEMMA ToggleType ==
    ASSUME RelayTypeOK, NEW r \in Relays, handle_relay_toggle(r)
    PROVE  RelayTypeOK'
BY RelayAssumption, ClockAssumption DEF RelayTypeOK, handle_relay_toggle, Untracked, Instants

LEMMA ContactType ==
    ASSUME RelayTypeOK, NEW r \in Relays, NEW d \in ContactDelays, handle_relay_contact(r, d)
    PROVE  RelayTypeOK'
BY RelayAssumption, ClockAssumption
   DEF RelayTypeOK, handle_relay_contact, ContactDelays, Untracked, Instants

LEMMA RelayTimeType ==
    ASSUME RelayTypeOK, RelayTime
    PROVE  RelayTypeOK'
BY ClockAssumption DEF RelayTypeOK, RelayTime, Untracked

LEMMA ResolvedType ==
    ASSUME RelayTypeOK, NEW t \in Instants, NEW r \in Relays
    PROVE  Resolved(r, t) \in Instants
<1>1. pending_delay[r] \in 0 .. MAX_CONTACT_DELAY /\ deadline[r] \in Instants
  BY DEF RelayTypeOK
<1>2. pending_delay[r] \in Nat /\ pending_delay[r] < ClockModulus
  BY <1>1, RelayAssumption, ClockAssumption
<1>3. QED
  BY <1>1, <1>2, LaterType DEF Resolved

LEMMA RelayTickType ==
    ASSUME RelayTypeOK, NEW t \in Instants, relay_module_tick(t)
    PROVE  RelayTypeOK'
<1>1. \A r \in Relays : Resolved(r, t) \in Instants
  BY ResolvedType
<1>2. 0 \in Instants
  BY ClockAssumption DEF Instants
<1>3. pending_delay' \in [Relays -> 0 .. MAX_CONTACT_DELAY] /\ deadline' \in [Relays -> Instants]
  BY <1>1, <1>2, RelayAssumption DEF relay_module_tick
<1>4. relay_state' \in [Relays -> BOOLEAN]
  BY DEF relay_module_tick
<1>5. \A r \in Relays : pending_delay[r] \in Int /\ left[r] \in Int
  BY RelayAssumption DEF RelayTypeOK
<1>6. left' \in [Relays -> Int]
  BY <1>5, ClockAssumption DEF relay_module_tick, Untracked
<1>7. QED
  BY <1>3, <1>4, <1>6 DEF RelayTypeOK

-----------------------------------------------------------------------------
(* Type correctness *)

\* The time since a reading is bounded because every pass of loop() looks at it.
TypeInv ==
    /\ TypeOK
    /\ since_read <= MaxInterval + pass

LEMMA NextPageType ==
    ASSUME NEW m \in 0 .. Pages - 1
    PROVE  NextPage(m) \in 0 .. Pages - 1
<1>1. CASE Pages = 3
  BY <1>1 DEF NextPage
<1>2. CASE Pages = 2
  BY <1>2 DEF NextPage
<1>3. QED
  BY <1>1, <1>2 DEF Pages

LEMMA ZeroTypes ==
    /\ Blank \in Shown
    /\ NoData \in SensorData
    /\ \A m \in 0 .. 2, d \in SensorData : Encoded(m, d) \in Shown
BY ContinuousAssumption DEF Blank, Shown, NoData, SensorData, Encoded

\* A valid reading as it is measured, and as it is published.
LEMMA ReadingTypes ==
    ASSUME NEW v \in Readings, offset \in Offsets,
           NEW data, data = [valid |-> TRUE, value |-> v, offset |-> 0]
    PROVE  data \in SensorData /\ Corrected(data) \in SensorData
<1>1. \A o \in Offsets : [valid |-> TRUE, value |-> v, offset |-> o] \in SensorData
  BY DEF SensorData
<1>2. 0 \in Offsets /\ 0 + offset = offset
  BY ContinuousAssumption
<1>3. Corrected(data) = [valid |-> TRUE, value |-> v, offset |-> offset]
  BY <1>2 DEF Corrected
<1>4. QED
  BY <1>1, <1>2, <1>3

LEMMA TypeInvInit == Init => TypeInv
<1> SUFFICES ASSUME Init PROVE TypeInv
  OBVIOUS
<1>1. RelayTypeOK
  BY RelayInitType DEF Init
<1>2. now \in Instants /\ last_sensor_read \in Instants /\ last_button_change \in Instants
  BY ClockAssumption, ContinuousAssumption DEF Init, Instants
<1>3. since_read \in 0 .. MaxInterval + MaxPass /\ since_read <= MaxInterval + pass
  BY ContinuousAssumption DEF Init
<1>4. since_turn \in 0 .. NotYet
  BY ContinuousAssumption DEF Init, NotYet
<1>5. current_mode \in 0 .. Pages - 1
  BY DEF Init, Pages
<1>6. last_data \in SensorData /\ shown \in Shown /\ told \in SensorData
  BY ZeroTypes DEF Init
<1>7. QED
  BY <1>1, <1>2, <1>3, <1>4, <1>5, <1>6, ContinuousAssumption DEF Init, TypeInv, TypeOK, Intervals

LEMMA TickType ==
    ASSUME TypeInv, Tick
    PROVE  TypeInv'
<1>1. RelayTypeOK'
  BY RelayTimeType DEF TypeInv, TypeOK, Tick
<1>2. pass' \in 0 .. MaxPass
  BY ContinuousAssumption DEF TypeInv, TypeOK, Tick
<1>3. now' \in Instants
  BY LaterType, ContinuousAssumption, ClockAssumption DEF TypeInv, TypeOK, Tick
<1>4. since_read' \in 0 .. MaxInterval + MaxPass /\ since_read' <= MaxInterval + pass'
  BY ContinuousAssumption DEF TypeInv, TypeOK, Tick
<1>5. since_turn' \in 0 .. NotYet
  BY ContinuousAssumption DEF TypeInv, TypeOK, Tick, Cap, NotYet
<1>6. QED
  BY <1>1, <1>2, <1>3, <1>4, <1>5 DEF TypeInv, TypeOK, Tick, Pages, displayVars

LEMMA CommandType ==
    ASSUME TypeInv, Commands
    PROVE  TypeInv'
<1>1. CASE SetInterval
  BY <1>1 DEF TypeInv, TypeOK, RelayTypeOK, SetInterval, buttonVars, displayVars, relayVars, Pages
<1>2. CASE RelayToggle
  <2>1. RelayTypeOK'
    BY <1>2, ToggleType DEF TypeInv, TypeOK, RelayToggle
  <2>2. QED
    BY <1>2, <2>1 DEF TypeInv, TypeOK, RelayToggle, scheduleVars, buttonVars, displayVars, Pages
<1>3. CASE RelayContact
  <2>1. RelayTypeOK'
    BY <1>3, ContactType DEF TypeInv, TypeOK, RelayContact
  <2>2. QED
    BY <1>3, <2>1 DEF TypeInv, TypeOK, RelayContact, scheduleVars, buttonVars, displayVars, Pages
<1>4. CASE SetOffset
  BY <1>4 DEF TypeInv, TypeOK, RelayTypeOK, SetOffset, scheduleVars, buttonVars, displayVars,
     relayVars, Pages
<1>5. QED
  BY <1>1, <1>2, <1>3, <1>4 DEF Commands

LEMMA ButtonTakenType ==
    ASSUME TypeInv, ButtonTaken, UNCHANGED <<build, last_data>>
    PROVE  /\ last_button_state' \in BOOLEAN
           /\ last_button_change' \in Instants
           /\ since_turn' \in 0 .. NotYet
           /\ current_mode' \in 0 .. Pages' - 1
           /\ shown' \in Shown
<1>1. last_button_state' \in BOOLEAN /\ last_button_change' \in Instants
  BY DEF TypeInv, TypeOK, ButtonTaken
<1>2. since_turn' \in 0 .. NotYet
  BY ContinuousAssumption DEF TypeInv, TypeOK, ButtonTaken, NotYet
<1>3. current_mode' \in 0 .. Pages - 1 /\ Pages' = Pages
  BY NextPageType DEF TypeInv, TypeOK, ButtonTaken, Pages
<1>4. current_mode' \in 0 .. 2
  BY <1>3 DEF Pages
<1>5. shown' \in Shown
  <2>1. CASE button
    BY <2>1 DEF TypeInv, TypeOK, ButtonTaken
  <2>2. CASE ~button
    BY <2>2, <1>4, ZeroTypes DEF TypeInv, TypeOK, ButtonTaken
  <2>3. QED
    BY <2>1, <2>2
<1>6. QED
  BY <1>1, <1>2, <1>3, <1>5

LEMMA HandleButtonType ==
    ASSUME TypeInv, HandleButton
    PROVE  TypeInv'
<1>1. CASE ButtonIgnored
  BY <1>1 DEF TypeInv, TypeOK, RelayTypeOK, HandleButton, ButtonIgnored, scheduleVars, buttonVars,
     relayVars, Pages
<1>2. CASE ButtonTaken
  BY <1>2, ButtonTakenType DEF TypeInv, TypeOK, RelayTypeOK, HandleButton, scheduleVars, relayVars
<1>3. QED
  BY <1>1, <1>2 DEF HandleButton

LEMMA RelayTickStepType ==
    ASSUME TypeInv, RelayTick
    PROVE  TypeInv'
<1>1. RelayTypeOK'
  BY RelayTickType DEF TypeInv, TypeOK, RelayTick
<1>2. QED
  BY <1>1 DEF TypeInv, TypeOK, RelayTick, scheduleVars, buttonVars, displayVars, Pages

\* What a reading that falls due does to the schedule and to the display.
LEMMA ReadType ==
    ASSUME TypeInv, ReadAndPublish
    PROVE  /\ last_sensor_read' \in Instants
           /\ since_read' = 0
           /\ last_data' \in SensorData
           /\ shown' \in Shown
           /\ told' \in SensorData
<1>1. last_sensor_read' \in Instants /\ since_read' = 0
  BY DEF TypeInv, TypeOK, ReadAndPublish
<1>2. CASE build \in DisplayBuilds /\ ReadInvalid
  BY <1>1, <1>2, ZeroTypes DEF TypeInv, TypeOK, ReadInvalid
<1>3. CASE build \in DisplayBuilds /\ ReadValid
  <2> DEFINE Fresh(v) == [valid |-> TRUE, value |-> v, offset |-> 0]
  <2>1. PICK v \in Readings :
           /\ shown' = IF build = "bme280" THEN Encoded(current_mode, Fresh(v)) ELSE shown
           /\ KeepReading(Fresh(v)) \/ PublishReading(Fresh(v))
    BY <1>3 DEF ReadValid
  <2>2. Fresh(v) \in SensorData /\ Corrected(Fresh(v)) \in SensorData
    BY ReadingTypes DEF TypeInv, TypeOK
  <2> HIDE DEF Fresh
  <2>3. last_data' \in SensorData /\ told' \in SensorData
    BY <2>1, <2>2, ZeroTypes DEF KeepReading, PublishReading
  <2>4. current_mode \in 0 .. 2
    BY DEF TypeInv, TypeOK, Pages
  <2>5. shown' \in Shown
    BY <2>1, <2>2, <2>4, ZeroTypes DEF TypeInv, TypeOK
  <2>6. QED
    BY <1>1, <2>3, <2>5
<1>4. CASE UNCHANGED displayVars
  BY <1>1, <1>4 DEF TypeInv, TypeOK, displayVars
<1>5. QED
  BY <1>2, <1>3, <1>4 DEF ReadAndPublish

\* A pass that reads nothing saw less than the interval go by, if the clock agrees
\* with the time that passed.
Scheduled == Elapsed(now, last_sensor_read) = since_read

LEMMA RestType ==
    ASSUME TypeInv, Scheduled, Rest
    PROVE  TypeInv'
<1>1. /\ last_sensor_read' \in Instants
      /\ since_read' \in 0 .. MaxInterval
      /\ last_data' \in SensorData
      /\ shown' \in Shown
      /\ told' \in SensorData
  <2>1. CASE NotDue
    <3>1. publish_interval \in Int /\ since_read \in Int /\ publish_interval <= MaxInterval
      BY ContinuousAssumption DEF TypeInv, TypeOK, Intervals
    <3>2. since_read < publish_interval
      BY <2>1, <3>1 DEF Scheduled, NotDue, Due
    <3>3. since_read' = since_read /\ 0 <= since_read
      BY <2>1, ContinuousAssumption DEF NotDue, TypeInv, TypeOK
    <3>4. since_read' \in 0 .. MaxInterval
      BY <3>1, <3>2, <3>3, ContinuousAssumption
    <3>5. QED
      BY <2>1, <3>4 DEF NotDue, TypeInv, TypeOK, displayVars
  <2>2. CASE ReadAndPublish
    BY <2>2, ReadType, ContinuousAssumption
  <2>3. QED
    BY <2>1, <2>2 DEF Rest
<1>2. pass' = 0 /\ pass' \in 0 .. MaxPass
  BY ContinuousAssumption DEF Rest
<1>3. since_read' \in 0 .. MaxInterval + MaxPass /\ since_read' <= MaxInterval + pass'
  BY <1>1, <1>2, ContinuousAssumption
<1>4. QED
  BY <1>1, <1>2, <1>3 DEF TypeInv, TypeOK, RelayTypeOK, Rest, buttonVars, relayVars, Pages

LEMMA StutterType ==
    ASSUME TypeInv, UNCHANGED vars
    PROVE  TypeInv'
BY DEF TypeInv, TypeOK, RelayTypeOK, vars, scheduleVars, buttonVars, displayVars, relayVars, Pages

\* The clock and the history agree, because the clock cannot wrap between two looks at
\* the schedule.
ScheduleInv == TypeInv /\ Scheduled

LEMMA ScheduledNext ==
    ASSUME ScheduleInv, [Next]_vars
    PROVE  Scheduled'
<1>1. CASE Tick
  <2>1. now \in Instants /\ last_sensor_read \in Instants /\ 1 < ClockModulus
    BY ContinuousAssumption, ClockAssumption DEF ScheduleInv, TypeInv, TypeOK
  <2>2. since_read + 1 < ClockModulus
    <3>1. since_read \in Int /\ pass \in Int /\ pass < MaxPass /\ since_read <= MaxInterval + pass
      BY <1>1, ContinuousAssumption DEF ScheduleInv, TypeInv, TypeOK, Tick
    <3>2. QED
      BY <3>1, ContinuousAssumption, ClockAssumption
  <2>3. QED
    BY <1>1, <2>1, <2>2, ElapsedTick DEF ScheduleInv, Scheduled, Tick
<1>2. CASE Rest
  <2>1. CASE NotDue
    BY <1>2, <2>1 DEF ScheduleInv, Scheduled, Rest, NotDue
  <2>2. CASE ReadAndPublish
    <3>1. now' = now /\ last_sensor_read' = now /\ since_read' = 0
      BY <1>2, <2>2 DEF Rest, ReadAndPublish
    <3>2. Elapsed(now, now) = 0
      BY ElapsedSelf DEF ScheduleInv, TypeInv, TypeOK
    <3>3. QED
      BY <3>1, <3>2 DEF Scheduled
  <2>3. QED
    BY <1>2, <2>1, <2>2 DEF Rest
<1>3. CASE ButtonMoves \/ SetInterval \/ SetOffset \/ RelayToggle \/ RelayContact
           \/ NetworkDone \/ HandleButton \/ RelayTick \/ UNCHANGED vars
  BY <1>3 DEF ScheduleInv, Scheduled, ButtonMoves, SetInterval, SetOffset, RelayToggle,
     RelayContact, NetworkDone, HandleButton, RelayTick, vars, scheduleVars
<1>4. QED
  BY <1>1, <1>2, <1>3 DEF Next, Commands, LoopStep

LEMMA ScheduleInvInit == Init => ScheduleInv
<1> SUFFICES ASSUME Init PROVE ScheduleInv
  OBVIOUS
<1>1. TypeInv
  BY TypeInvInit
<1>2. Scheduled
  BY ContinuousAssumption, ClockAssumption DEF Init, Scheduled, Elapsed
<1>3. QED
  BY <1>1, <1>2 DEF ScheduleInv

LEMMA ScheduleInvNext ==
    ASSUME ScheduleInv, [Next]_vars
    PROVE  ScheduleInv'
<1>1. TypeInv
  BY DEF ScheduleInv
<1>2. TypeInv'
  <2>1. CASE ButtonMoves
    BY <1>1, <2>1 DEF TypeInv, TypeOK, RelayTypeOK, ButtonMoves, scheduleVars, buttonVars,
       displayVars, relayVars, Pages
  <2>2. CASE NetworkDone
    BY <1>1, <2>2 DEF TypeInv, TypeOK, RelayTypeOK, NetworkDone, scheduleVars, buttonVars,
       displayVars, relayVars, Pages
  <2>3. QED
    BY <1>1, <2>1, <2>2, TickType, CommandType, HandleButtonType, RelayTickStepType, RestType,
       StutterType DEF Next, LoopStep, ScheduleInv
<1>3. QED
  BY <1>2, ScheduledNext DEF ScheduleInv

LEMMA ScheduleInvariant == Spec => []ScheduleInv
BY ScheduleInvInit, ScheduleInvNext, PTL DEF Spec

\* Every variable keeps its type; the digits never show a page the build does not have,
\* and no reading is ever further away than an interval and a pass of loop().
THEOREM ContinuousTypeCorrectness == Spec => []TypeOK
<1>1. ScheduleInv => TypeOK
  BY DEF ScheduleInv, TypeInv
<1>2. QED
  BY <1>1, ScheduleInvariant, PTL

\* The schedule is exact at every wrap of the clock and every change of the interval.
THEOREM ReadsExactlyWhenDue == Spec => ReadWhenDue
<1>1. ASSUME ScheduleInv, [Next]_vars
      PROVE  [pc = "rest" /\ pc' = "net"
                => since_read' = IF since_read >= publish_interval THEN 0 ELSE since_read]_vars
  <2> SUFFICES ASSUME Next, pc = "rest", pc' = "net"
               PROVE  since_read' = IF since_read >= publish_interval THEN 0 ELSE since_read
    BY <1>1
  <2>1. Rest
    BY DEF Next, Commands, LoopStep, Tick, ButtonMoves, SetInterval, SetOffset, RelayToggle,
       RelayContact, NetworkDone, HandleButton, RelayTick
  <2>2. Due <=> since_read >= publish_interval
    BY <1>1 DEF ScheduleInv, Scheduled, Due
  <2>3. QED
    BY <2>1, <2>2 DEF Rest, NotDue, ReadAndPublish
<1>2. QED
  BY <1>1, ScheduleInvariant, PTL DEF Spec, ReadWhenDue

-----------------------------------------------------------------------------
(* The button *)

\* PageTurnsApart is not inductive: the time since a page turn is bounded from below by
\* what the clock says of the last change of the button, and a released button has
\* changed twice since.
SinceTurnAtLeast ==
    (IF last_button_state THEN Debounce ELSE 0) + Elapsed(now, last_button_change)

ButtonInv == since_turn >= NotYet \/ since_turn >= SinceTurnAtLeast

LEMMA ButtonNumbers ==
    ASSUME TypeInv
    PROVE  /\ since_turn \in Int
           /\ NotYet = 2 * Debounce
           /\ Debounce \in Nat
           /\ Elapsed(now, last_button_change) \in Nat
<1>1. Elapsed(now, last_button_change) \in Instants
  BY ElapsedType DEF TypeInv, TypeOK
<1>2. Debounce \in Nat
  BY ContinuousAssumption
<1>3. since_turn \in Int
  BY <1>2 DEF TypeInv, TypeOK, NotYet
<1>4. QED
  BY <1>1, <1>2, <1>3, ClockAssumption DEF Instants, NotYet

LEMMA ButtonInvNext ==
    ASSUME TypeInv, ButtonInv, [Next]_vars
    PROVE  ButtonInv'
<1>1. /\ since_turn \in Int
      /\ NotYet = 2 * Debounce
      /\ Debounce \in Nat
      /\ Elapsed(now, last_button_change) \in Nat
  BY ButtonNumbers
<1>2. CASE Tick
  <2>1. 1 < ClockModulus
    BY ContinuousAssumption, ClockAssumption
  <2>2. Elapsed(now', last_button_change) <= Elapsed(now, last_button_change) + 1
        /\ Elapsed(now', last_button_change) \in Int
    BY <1>1, <1>2, <2>1, ElapsedTick DEF Tick, TypeInv, TypeOK
  <2>3. SinceTurnAtLeast' <= SinceTurnAtLeast + 1
        /\ SinceTurnAtLeast' \in Int /\ SinceTurnAtLeast \in Int
    BY <1>1, <1>2, <2>2 DEF SinceTurnAtLeast, Tick
  <2>4. since_turn' = IF since_turn + 1 < NotYet THEN since_turn + 1 ELSE NotYet
    BY <1>2 DEF Tick, Cap
  <2>5. NotYet' = NotYet /\ NotYet \in Int
    BY <1>1 DEF NotYet
  <2>6. since_turn' >= NotYet \/ since_turn' >= SinceTurnAtLeast'
    BY <1>1, <2>3, <2>4, <2>5 DEF ButtonInv
  <2>7. QED
    BY <2>5, <2>6 DEF ButtonInv
<1>3. CASE HandleButton /\ ButtonTaken
  <2>1. now' = now /\ last_button_change' = now /\ Elapsed(now, now) = 0
    BY <1>3, ElapsedSelf DEF HandleButton, ButtonTaken, TypeInv, TypeOK
  <2>2. CASE button
    <3>1. last_button_state = FALSE /\ last_button_state' = TRUE /\ since_turn' = since_turn
      BY <1>3, <2>2 DEF ButtonTaken, TypeInv, TypeOK
    <3>2. Elapsed(now, last_button_change) >= Debounce
      BY <1>3 DEF ButtonTaken, Debounced
    <3>3. SinceTurnAtLeast = Elapsed(now, last_button_change) /\ SinceTurnAtLeast' = Debounce
      BY <1>1, <2>1, <3>1 DEF SinceTurnAtLeast
    <3>4. NotYet' = NotYet
      BY DEF NotYet
    <3>5. since_turn >= NotYet \/ since_turn >= Debounce
      BY <1>1, <3>2, <3>3 DEF ButtonInv
    <3>6. QED
      BY <3>1, <3>3, <3>4, <3>5 DEF ButtonInv
  <2>3. CASE ~button
    <3>1. last_button_state' = FALSE /\ since_turn' = 0
      BY <1>3, <2>3 DEF ButtonTaken, TypeInv, TypeOK
    <3>2. SinceTurnAtLeast' = 0
      BY <2>1, <3>1 DEF SinceTurnAtLeast
    <3>3. QED
      BY <3>1, <3>2 DEF ButtonInv
  <2>4. QED
    BY <2>2, <2>3
<1>4. CASE (HandleButton /\ ButtonIgnored) \/ ButtonMoves \/ SetInterval \/ SetOffset
           \/ RelayToggle \/ RelayContact \/ NetworkDone \/ RelayTick \/ Rest
           \/ UNCHANGED vars
  <2>1. UNCHANGED <<now, since_turn, last_button_state, last_button_change>>
    BY <1>4 DEF HandleButton, ButtonIgnored, ButtonMoves, SetInterval, SetOffset, RelayToggle,
       RelayContact, NetworkDone, RelayTick, Rest, vars, buttonVars
  <2>2. QED
    BY <2>1 DEF ButtonInv, SinceTurnAtLeast, NotYet
<1>5. QED
  BY <1>2, <1>3, <1>4 DEF Next, Commands, LoopStep, HandleButton

LEMMA ButtonInvariant == Spec => []ButtonInv
<1>1. Init => ButtonInv
  BY ContinuousAssumption DEF Init, ButtonInv, NotYet
<1>2. ScheduleInv /\ ButtonInv /\ [Next]_vars => ButtonInv'
  BY ButtonInvNext DEF ScheduleInv
<1>3. QED
  BY <1>1, <1>2, ScheduleInvariant, PTL DEF Spec

\* Only a press that is taken turns the page.
LEMMA TurnByPress ==
    ASSUME Next, current_mode' # current_mode
    PROVE  HandleButton /\ ButtonTaken
BY DEF Next, Commands, LoopStep, Tick, ButtonMoves, SetInterval, SetOffset, RelayToggle,
   RelayContact, NetworkDone, HandleButton, ButtonIgnored, RelayTick, Rest, buttonVars

\* A debounced button cannot turn two pages in less than two debounce times, even when
\* the clock wraps between the press and the release.
THEOREM PageTurnsAreApart == Spec => PageTurnsApart
<1>1. ASSUME ScheduleInv, ButtonInv, [Next]_vars
      PROVE  [current_mode' # current_mode => since_turn >= 2 * Debounce]_vars
  <2> SUFFICES ASSUME Next, current_mode' # current_mode
               PROVE  since_turn >= 2 * Debounce
    BY <1>1
  <2>1. HandleButton /\ ButtonTaken
    BY TurnByPress
  <2>2. last_button_state = TRUE /\ Elapsed(now, last_button_change) >= Debounce
    BY <1>1, <2>1 DEF ButtonTaken, Debounced, ScheduleInv, TypeInv, TypeOK
  <2>3. /\ since_turn \in Int
        /\ Debounce \in Nat
        /\ Elapsed(now, last_button_change) \in Nat
    BY <1>1, ButtonNumbers DEF ScheduleInv
  <2>4. SinceTurnAtLeast = Debounce + Elapsed(now, last_button_change)
    BY <2>2 DEF SinceTurnAtLeast
  <2>5. QED
    BY <1>1, <2>2, <2>3, <2>4 DEF ButtonInv, NotYet
<1>2. QED
  BY <1>1, ScheduleInvariant, ButtonInvariant, PTL DEF Spec, PageTurnsApart

-----------------------------------------------------------------------------
(* The display *)

\* Publishing corrects the reading that the button shows, not a copy of it, and nothing
\* corrects it again.
ToldInv == told.valid => last_data = told

LEMMA ToldNext ==
    ASSUME ToldInv, [Next]_vars
    PROVE  ToldInv'
<1>1. CASE Rest
  <2>1. CASE UNCHANGED displayVars
    BY <2>1 DEF ToldInv, displayVars
  <2>2. CASE ReadInvalid
    BY <2>2 DEF ToldInv, ReadInvalid, NoData
  <2>3. CASE ReadValid
    BY <2>3 DEF ToldInv, ReadValid, KeepReading, PublishReading, NoData
  <2>4. QED
    BY <1>1, <2>1, <2>2, <2>3 DEF Rest, NotDue, ReadAndPublish
<1>2. CASE Tick \/ ButtonMoves \/ SetInterval \/ SetOffset \/ RelayToggle \/ RelayContact
           \/ NetworkDone \/ HandleButton \/ RelayTick \/ UNCHANGED vars
  <2>1. UNCHANGED <<last_data, told>>
    BY <1>2 DEF Tick, ButtonMoves, SetInterval, SetOffset, RelayToggle, RelayContact,
       NetworkDone, HandleButton, RelayTick, vars, displayVars
  <2>2. QED
    BY <2>1 DEF ToldInv
<1>3. QED
  BY <1>1, <1>2 DEF Next, Commands, LoopStep

\* A page turn never shows a reading otherwise than the server was told it, in either
\* display build and with any offsets.
THEOREM PressesShowPublished == Spec => PressShowsPublished
<1>1. Init => ToldInv
  BY DEF Init, ToldInv, NoData
<1>2. ToldInv /\ [Next]_vars => ToldInv'
  BY ToldNext
<1>3. ASSUME ToldInv, [Next]_vars
      PROVE  [current_mode' # current_mode /\ told.valid
                => shown' = Encoded(current_mode', told)]_vars
  <2> SUFFICES ASSUME Next, current_mode' # current_mode, told.valid
               PROVE  shown' = Encoded(current_mode', told)
    BY <1>3
  <2>1. HandleButton /\ ButtonTaken
    BY TurnByPress
  <2>2. shown' = Encoded(current_mode', last_data)
    BY <2>1 DEF ButtonTaken
  <2>3. QED
    BY <1>3, <2>2 DEF ToldInv
<1>4. QED
  BY <1>1, <1>2, <1>3, PTL DEF Spec, PressShowsPublished

-----------------------------------------------------------------------------
(* The relays *)

LEMMA TimerNext ==
    ASSUME TypeInv, TimerMeansOn, [Next]_vars
    PROVE  TimerMeansOn'
<1>1. CASE RelayTick
  <2> SUFFICES ASSUME NEW r \in Relays, pending_delay'[r] > 0 \/ deadline'[r] > 0
               PROVE  relay_state'[r]
    BY DEF TimerMeansOn
  <2>1. /\ pending_delay'[r] = 0
        /\ deadline'[r] = IF Expired(r, now) THEN 0 ELSE Resolved(r, now)
        /\ relay_state'[r] = (relay_state[r] /\ ~Expired(r, now))
    BY <1>1 DEF RelayTick, relay_module_tick
  <2>2. ~Expired(r, now) /\ Resolved(r, now) > 0
    BY <2>1
  <2>3. pending_delay[r] > 0 \/ deadline[r] > 0
    BY <2>2 DEF Resolved
  <2>4. QED
    BY <2>1, <2>2, <2>3 DEF TimerMeansOn
<1>2. CASE RelayToggle
  <2>1. PICK r \in Relays : handle_relay_toggle(r)
    BY <1>2 DEF RelayToggle
  <2>2. QED
    BY <2>1 DEF handle_relay_toggle, TimerMeansOn, TypeInv, TypeOK, RelayTypeOK
<1>3. CASE RelayContact
  <2>1. PICK r \in Relays, delay \in ContactDelays : handle_relay_contact(r, delay)
    BY <1>3 DEF RelayContact
  <2>2. QED
    BY <2>1 DEF handle_relay_contact, TimerMeansOn, TypeInv, TypeOK, RelayTypeOK
<1>4. CASE Tick \/ ButtonMoves \/ SetInterval \/ SetOffset \/ NetworkDone \/ HandleButton
           \/ Rest \/ UNCHANGED vars
  BY <1>4 DEF Tick, RelayTime, ButtonMoves, SetInterval, SetOffset, NetworkDone, HandleButton,
     Rest, vars, relayVars, TimerMeansOn
<1>5. QED
  BY <1>1, <1>2, <1>3, <1>4 DEF Next, Commands, LoopStep

\* No command leaves the timer of a pulse behind on a relay that is off.
THEOREM TimersMeanOn == Spec => []TimerMeansOn
<1>1. Init => TimerMeansOn
  BY DEF Init, RelayInit, TimerMeansOn
<1>2. ScheduleInv /\ TimerMeansOn /\ [Next]_vars => TimerMeansOn'
  BY TimerNext DEF ScheduleInv
<1>3. QED
  BY <1>1, <1>2, ScheduleInvariant, PTL DEF Spec

\* A tracked pulse has a deadline that the clock reaches without wrapping, and was
\* looked at in this pass of loop() or in the one before.
Margin == IF pc = "rest" THEN 0 ELSE MaxPass

PulseOf(r) ==
    /\ pending_delay[r] = 0
    /\ deadline[r] > 0
    /\ deadline[r] = now + left[r]
    /\ deadline[r] + MaxGap < ClockModulus
    /\ left[r] >= 1 - pass - Margin

PulseInv ==
    /\ build # "relay" => \A r \in Relays : left[r] = Untracked
    /\ pc = "button" => build # "relay"
    /\ pc = "relay" => build = "relay"
    /\ \A r \in Relays : left[r] # Untracked => PulseOf(r)

LEMMA PulseTick ==
    ASSUME TypeInv, PulseInv, Tick
    PROVE  PulseInv'
<1>1. \A r \in Relays : left'[r] = IF left[r] = Untracked THEN Untracked ELSE left[r] - 1
  BY DEF Tick, RelayTime
<1>2. build' = build /\ pc' = pc /\ Untracked' = Untracked
  BY DEF Tick, Untracked
<1>3. ASSUME NEW r \in Relays, left'[r] # Untracked
      PROVE  PulseOf(r)'
  <2>1. left[r] # Untracked /\ left'[r] = left[r] - 1 /\ PulseOf(r)
    BY <1>1, <1>3 DEF PulseInv
  <2>2. /\ pending_delay'[r] = pending_delay[r]
        /\ deadline'[r] = deadline[r]
        /\ pass' = pass + 1
        /\ Margin' = Margin
    BY <1>2 DEF Tick, RelayTime, Margin
  <2>3. /\ left[r] \in Int /\ deadline[r] \in Int /\ now \in Int /\ pass \in Int
        /\ MaxPass \in Nat /\ pass < MaxPass /\ MaxGap = 2 * MaxPass /\ ClockModulus \in Int
    BY ContinuousAssumption, ClockAssumption DEF TypeInv, TypeOK, RelayTypeOK, Instants, Tick
  <2>4. Margin \in Int /\ Margin <= MaxPass
    BY <2>3 DEF Margin
  <2>5. now + 1 < ClockModulus
    BY <2>1, <2>3, <2>4, SMTT(60) DEF PulseOf
  <2>6. now' = now + 1
    BY <2>5 DEF Tick, Later
  <2>7. QED
    BY <2>1, <2>2, <2>3, <2>4, <2>6, SMTT(60) DEF PulseOf
<1>4. QED
  BY <1>1, <1>2, <1>3 DEF PulseInv, Untracked

\* A tick of the relay module arms a tracked pulse, keeps it, or ends it.
LEMMA PulseRelayTick ==
    ASSUME TypeInv, PulseInv, RelayTick
    PROVE  PulseInv'
<1>1. pc' = "rest" /\ UNCHANGED <<build, now, pass>> /\ Untracked' = Untracked
  BY DEF RelayTick, Untracked
<1>2. \A r \in Relays :
         /\ pending_delay'[r] = 0
         /\ deadline'[r] = IF Expired(r, now) THEN 0 ELSE Resolved(r, now)
         /\ left'[r] = IF pending_delay[r] > 0
                       THEN IF Tracked(now, pending_delay[r]) THEN pending_delay[r]
                                                              ELSE Untracked
                       ELSE IF Expired(r, now) THEN Untracked ELSE left[r]
  BY DEF RelayTick, relay_module_tick
<1>3. ASSUME NEW r \in Relays, left'[r] # Untracked
      PROVE  PulseOf(r)'
  <2>1. /\ left[r] \in Int /\ deadline[r] \in Nat /\ pending_delay[r] \in Nat /\ now \in Nat
        /\ pass \in Nat /\ MaxPass \in Nat /\ MaxGap = 2 * MaxPass /\ ClockModulus \in Int
    BY ContinuousAssumption, ClockAssumption, RelayAssumption
       DEF TypeInv, TypeOK, RelayTypeOK, Instants
  <2>2. Margin' = 0
    BY <1>1 DEF Margin
  <2>3. CASE pending_delay[r] > 0
    <3>1. left'[r] = pending_delay[r] /\ Tracked(now, pending_delay[r])
      BY <1>2, <1>3, <2>3
    <3>2. Resolved(r, now) = now + pending_delay[r]
      BY <2>1, <2>3, <3>1 DEF Resolved, Later, Tracked
    <3>3. deadline'[r] = now + pending_delay[r]
      BY <1>2, <2>1, <2>3, <3>2 DEF Expired
    <3>4. QED
      BY <1>1, <1>2, <2>1, <2>2, <2>3, <3>1, <3>3 DEF PulseOf, Tracked
  <2>4. CASE ~(pending_delay[r] > 0)
    <3>1. ~Expired(r, now) /\ left'[r] = left[r] /\ PulseOf(r)
      BY <1>2, <1>3, <2>4 DEF PulseInv
    <3>2. Resolved(r, now) = deadline[r] /\ deadline'[r] = deadline[r]
      BY <1>2, <2>4, <3>1 DEF Resolved
    <3>3. left[r] >= 1
      BY <2>1, <3>1, <3>2 DEF Expired, PulseOf
    <3>4. QED
      BY <1>1, <1>2, <2>1, <2>2, <3>1, <3>2, <3>3 DEF PulseOf
  <2>5. QED
    BY <2>3, <2>4
<1>4. build = "relay"
  BY DEF PulseInv, RelayTick
<1>5. QED
  BY <1>1, <1>3, <1>4 DEF PulseInv

\* A command on a relay gives up its pulse and leaves those of the others alone.
LEMMA PulseCommand ==
    ASSUME TypeInv, PulseInv, Commands
    PROVE  PulseInv'
<1>1. CASE SetInterval \/ SetOffset
  BY <1>1 DEF SetInterval, SetOffset, relayVars, PulseInv, PulseOf, Margin, Untracked
<1>2. ASSUME build = "relay", UNCHANGED <<build, now, pc, pass>>, NEW s \in Relays,
             left' = [left EXCEPT ![s] = Untracked],
             \A r \in Relays \ {s} : pending_delay'[r] = pending_delay[r] /\ deadline'[r] = deadline[r]
      PROVE  PulseInv'
  <2>1. \A r \in Relays : left'[r] = IF r = s THEN Untracked ELSE left[r]
    BY <1>2 DEF TypeInv, TypeOK, RelayTypeOK
  <2>2. \A r \in Relays : left'[r] # Untracked => PulseOf(r)'
    BY <1>2, <2>1 DEF PulseInv, PulseOf, Margin
  <2>3. QED
    BY <1>2, <2>2 DEF PulseInv, Untracked
<1>3. CASE RelayToggle
  <2>1. PICK s \in Relays : handle_relay_toggle(s)
    BY <1>3 DEF RelayToggle
  <2>2. \A r \in Relays \ {s} : pending_delay'[r] = pending_delay[r] /\ deadline'[r] = deadline[r]
    BY <2>1 DEF handle_relay_toggle, TypeInv, TypeOK, RelayTypeOK
  <2>3. QED
    BY <1>2, <1>3, <2>1, <2>2 DEF RelayToggle, handle_relay_toggle
<1>4. CASE RelayContact
  <2>1. PICK s \in Relays, delay \in ContactDelays : handle_relay_contact(s, delay)
    BY <1>4 DEF RelayContact
  <2>2. \A r \in Relays \ {s} : pending_delay'[r] = pending_delay[r] /\ deadline'[r] = deadline[r]
    BY <2>1 DEF handle_relay_contact, TypeInv, TypeOK, RelayTypeOK
  <2>3. QED
    BY <1>2, <1>4, <2>1, <2>2 DEF RelayContact, handle_relay_contact
<1>5. QED
  BY <1>1, <1>3, <1>4 DEF Commands

\* The end of a pass: what it took moves from pass to Margin.
LEMMA PulseRest ==
    ASSUME TypeInv, PulseInv, Rest
    PROVE  PulseInv'
<1>1. /\ UNCHANGED <<build, now, pending_delay, deadline, left>>
      /\ pc = "rest" /\ pc' = "net" /\ pass' = 0
  BY DEF Rest, relayVars
<1>2. pass \in Int /\ pass <= MaxPass /\ MaxPass \in Nat
  BY ContinuousAssumption DEF TypeInv, TypeOK
<1>3. \A r \in Relays : left[r] \in Int
  BY DEF TypeInv, TypeOK, RelayTypeOK
<1>4. Margin = 0 /\ Margin' = MaxPass
  BY <1>1 DEF Margin
<1>5. \A r \in Relays : left'[r] # Untracked => PulseOf(r)'
  BY <1>1, <1>2, <1>3, <1>4 DEF PulseInv, PulseOf
<1>6. QED
  BY <1>1, <1>5 DEF PulseInv, Untracked

LEMMA PulseInvNext ==
    ASSUME TypeInv, PulseInv, [Next]_vars
    PROVE  PulseInv'
<1>1. CASE NetworkDone
  <2>1. UNCHANGED <<build, now, pass, pending_delay, deadline, left>> /\ Margin' = Margin
    BY <1>1 DEF NetworkDone, relayVars, Margin
  <2>2. pc' = IF build = "relay" THEN "relay" ELSE "button"
    BY <1>1 DEF NetworkDone
  <2>3. QED
    BY <2>1, <2>2 DEF PulseInv, PulseOf, Untracked
<1>2. CASE HandleButton
  <2>1. UNCHANGED <<build, left>> /\ pc' = "rest" /\ build # "relay"
    BY <1>2 DEF HandleButton, relayVars, PulseInv
  <2>2. QED
    BY <2>1 DEF PulseInv, Untracked
<1>3. CASE ButtonMoves \/ UNCHANGED vars
  BY <1>3 DEF ButtonMoves, vars, relayVars, PulseInv, PulseOf, Margin, Untracked
<1>4. QED
  BY <1>1, <1>2, <1>3, PulseTick, PulseRelayTick, PulseCommand, PulseRest DEF Next, LoopStep

LEMMA PulseInvariant == Spec => []PulseInv
<1>1. Init => PulseInv
  BY DEF Init, RelayInit, PulseInv
<1>2. ScheduleInv /\ PulseInv /\ [Next]_vars => PulseInv'
  BY PulseInvNext DEF ScheduleInv
<1>3. QED
  BY <1>1, <1>2, ScheduleInvariant, PTL DEF Spec

\* However long the passes of loop() are, a pulse that is not too close to the end of
\* the clock ends at the first tick after its delay, and at no earlier one.
THEOREM PulsesEndWhenDue == Spec => PulseEndsWhenDue
<1>1. ASSUME ScheduleInv, TimerMeansOn, PulseInv, [Next]_vars
      PROVE  [\A r \in Relays :
                 pc = "relay" /\ pc' = "rest" /\ left[r] # Untracked
                     => (relay_state'[r] <=> left[r] > 0)]_vars
  <2> SUFFICES ASSUME Next, NEW r \in Relays, pc = "relay", pc' = "rest", left[r] # Untracked
               PROVE  relay_state'[r] <=> left[r] > 0
    BY <1>1
  <2>1. RelayTick
    BY DEF Next, Commands, LoopStep, Tick, ButtonMoves, SetInterval, SetOffset, RelayToggle,
       RelayContact, NetworkDone, HandleButton, Rest
  <2>2. PulseOf(r)
    BY <1>1 DEF PulseInv
  <2>3. left[r] \in Int /\ deadline[r] \in Int /\ now \in Int
    BY <1>1 DEF ScheduleInv, TypeInv, TypeOK, RelayTypeOK, Instants
  <2>4. relay_state[r] /\ Resolved(r, now) = deadline[r]
    BY <1>1, <2>2 DEF TimerMeansOn, PulseOf, Resolved
  <2>5. Expired(r, now) <=> ~(left[r] > 0)
    BY <2>2, <2>3, <2>4 DEF Expired, PulseOf
  <2>6. QED
    BY <2>1, <2>4, <2>5 DEF RelayTick, relay_module_tick
<1>2. QED
  BY <1>1, ScheduleInvariant, TimersMeanOn, PulseInvariant, PTL DEF Spec, PulseEndsWhenDue
=============================================================================
