------------------------------ MODULE Monitor ------------------------------
(* The monitor on the PC (monitor/MonitorMain.py, UdpListener.py): which     *)
(* nodes it knows, and what its operator commands them.  The listener thread *)
(* queues what it receives for the GUI thread, which handles one event at a  *)
(* time; a modal dialog lets the queue go on but not the main window.        *)
(* monitor_ui.py has no widget ZECU_List, so that get_active_ecu_name gives  *)
(* None: every command is for all nodes.  DISABLE_KEEPALIVE_TRACK is True.   *)
EXTENDS Integers, SequencesExt

CONSTANTS
  ZoneOf,        \* the zone that each name tells, or "none"
  Heartbeats,    \* those received: [name, address, speeds]
  Challenges,    \* AuthTX frames received: [name, address]
  Broadcasts,    \* Broadcast frames received: [name, address]
  Speeds,        \* that the operator sets, and heartbeats report
  MaxNum,        \* MAX_NUM_FRONT_ZECU, MAX_NUM_BACK_ZECU
  MaxPending     \* bound on the queue of Qt's events

Zones == {"Front", "Back"}
Sides == {"L", "R"}
Motors == Zones \X Sides
NoDrag == [zone |-> "none"]

(* A zone has room for one node at least, and a heartbeat names a node and   *)
(* reports both of its motors.                                               *)
ASSUME MaxNumAssumption == MaxNum \in Nat \ {0}
ASSUME HeartbeatsAssumption ==
  \A h \in Heartbeats : h.name \in DOMAIN ZoneOf /\ DOMAIN h.speeds = Sides

VARIABLES
  replace,        \* ALLOW_AUTO_REPACE_ZECU, 0 as committed
  running,        \* udp_thread.is_running
  pending,        \* payloads emitted and not handled
  zone_ecus,      \* of each zone, the nodes known: [name, address]
  ecu_registry,   \* names whose telemetry is recorded
  motor_states,
  drag,           \* the slider held by the mouse: where, what it shows,
                  \* and the values that operator or telemetry gave it
  dialog,         \* DiscoveryDialog is open
  discovered,     \* discovered_ecus: at most one item for each address
  started,        \* sys_engine_started
  tx,             \* the frames sent by the last event
  latest          \* the address in the last heartbeat handled of each name

monitorVars == <<replace, running, pending, zone_ecus, ecu_registry, motor_states, drag, dialog,
                 discovered, started, tx, latest>>
registries == <<zone_ecus, ecu_registry>>
dialogs == <<dialog, discovered>>

Init ==
  /\ replace \in BOOLEAN
  /\ running = TRUE /\ pending = <<>>
  /\ zone_ecus = [z \in Zones |-> <<>>] /\ ecu_registry = {}
  /\ motor_states = [z \in Zones |-> [s \in Sides |-> 0]]
  /\ drag = NoDrag
  /\ dialog = FALSE /\ discovered = {}
  /\ started = FALSE
  /\ tx = {}
  /\ latest = [n \in DOMAIN ZoneOf |-> "none"]

(* UdpListenerThread.run: frames of other types, too short ones and those    *)
(* with wrong magic bytes are left out.  While the dialog is open, its       *)
(* socket, bound to the same port, may take a frame from this one.           *)
Receive ==
  /\ running /\ Len(pending) < MaxPending
  /\ \E p \in {[type |-> "HeartBeat", payload |-> h] : h \in Heartbeats}
            \cup {[type |-> "AuthTX", payload |-> c] : c \in Challenges} :
       pending' = Append(pending, p)
  /\ tx' = {}
  /\ UNCHANGED <<replace, running, registries, motor_states, drag, dialogs, started, latest>>

(* handle_auth_tx: the answer, unless the socket is closed by now.           *)
HandleAuthTx ==
  /\ pending # <<>> /\ Head(pending).type = "AuthTX"
  /\ pending' = Tail(pending)
  /\ tx' = IF running THEN {[type |-> "AuthRX", to |-> Head(pending).payload.address]} ELSE {}
  /\ UNCHANGED <<replace, running, registries, motor_states, drag, dialogs, started, latest>>

Index(list, name) == {i \in DOMAIN list : list[i].name = name}

(* remove_ecu: out of both zones and of the registry.  A list never has a    *)
(* name twice (CommandsFitRegistry), so one removal is all there is.         *)
Without(list, name) ==
  IF Index(list, name) = {} THEN list ELSE RemoveAt(list, CHOOSE i \in Index(list, name) : TRUE)

Removed(name) == [z \in Zones |-> Without(zone_ecus[z], name)]

(* The node of a heartbeat: known, and then at the address it now has; or    *)
(* new, where the zone has room or gives up its oldest node.                 *)
Admit(node) ==
  LET zone == ZoneOf[node.name]
      list == zone_ecus[zone]
      oldest == Head(list).name
  IN  IF Index(list, node.name) # {} THEN
        /\ zone_ecus' = [zone_ecus EXCEPT ![zone] = [i \in DOMAIN list |->
                           IF i \in Index(list, node.name) THEN node ELSE list[i]]]
        /\ ecu_registry' = ecu_registry \cup {node.name}
      ELSE IF Len(list) < MaxNum THEN
        /\ zone_ecus' = [zone_ecus EXCEPT ![zone] = Append(@, node)]
        /\ ecu_registry' = ecu_registry \cup {node.name}
      ELSE
        /\ replace
        /\ zone_ecus' = [Removed(oldest) EXCEPT ![zone] = Append(@, node)]
        /\ ecu_registry' = (ecu_registry \ {oldest}) \cup {node.name}

(* update_gui_elements: telemetry moves the sliders, a held one too.         *)
UpdateGui(zone, speeds) ==
  /\ motor_states' = [motor_states EXCEPT ![zone] = speeds]
  /\ drag' = IF drag.zone # zone THEN drag
             ELSE [drag EXCEPT !.shown = speeds[drag.side], !.meant = @ \cup {speeds[drag.side]}]

(* process_incoming_data, of a heartbeat from a node that is let in.         *)
ProcessHeartbeat ==
  /\ pending # <<>> /\ Head(pending).type = "HeartBeat"
  /\ LET beat == Head(pending).payload IN
     /\ ZoneOf[beat.name] \in Zones
     /\ Admit([name |-> beat.name, address |-> beat.address])
     /\ UpdateGui(ZoneOf[beat.name], beat.speeds)
     /\ latest' = [latest EXCEPT ![beat.name] = beat.address]
  /\ pending' = Tail(pending)
  /\ tx' = {}
  /\ UNCHANGED <<replace, running, dialogs, started>>

(* The early returns of process_incoming_data.                               *)
DropHeartbeat ==
  /\ pending # <<>> /\ Head(pending).type = "HeartBeat"
  /\ LET beat == Head(pending).payload  zone == ZoneOf[beat.name] IN
     \/ zone \notin Zones
     \/ /\ zone \in Zones /\ ~replace
        /\ Index(zone_ecus[zone], beat.name) = {} /\ Len(zone_ecus[zone]) >= MaxNum
  /\ pending' = Tail(pending)
  /\ tx' = {}
  /\ UNCHANGED <<replace, running, registries, motor_states, drag, dialogs, started, latest>>

-----------------------------------------------------------------------------
(* DiscoveryDialog.                                                          *)
OpenDiscoveryDialog ==
  /\ running /\ ~dialog /\ drag = NoDrag
  /\ dialog' = TRUE /\ discovered' = {}
  /\ tx' = {}
  /\ UNCHANGED <<replace, running, pending, registries, motor_states, drag, started, latest>>

(* poll_udp, parse_broadcast: the first frame from an address.               *)
ParseBroadcast ==
  /\ dialog
  /\ \E b \in Broadcasts :
       /\ \A item \in discovered : item.address # b.address
       /\ discovered' = discovered \cup {b}
  /\ tx' = {}
  /\ UNCHANGED <<replace, running, pending, registries, motor_states, drag, dialog, started, latest>>

(* The menu of an item, connect_to_ecu, and accept.                          *)
ConnectToEcu ==
  /\ dialog
  /\ \E item \in discovered : tx' = {[type |-> "PairingRequest", to |-> item.address]}
  /\ dialog' = FALSE /\ discovered' = {}
  /\ UNCHANGED <<replace, running, pending, registries, motor_states, drag, started, latest>>

(* on_remove_zecu_clicked: nothing stops the node's next heartbeat, perhaps  *)
(* pending already, from letting it in again.                                *)
RemoveZecu ==
  /\ dialog
  /\ \E item \in discovered :
       /\ zone_ecus' = Removed(item.name)
       /\ ecu_registry' = ecu_registry \ {item.name}
       /\ discovered' = discovered \ {item}
  /\ tx' = {}
  /\ UNCHANGED <<replace, running, pending, motor_states, drag, dialog, started, latest>>

Cleanup ==
  /\ dialog
  /\ dialog' = FALSE /\ discovered' = {}
  /\ tx' = {}
  /\ UNCHANGED <<replace, running, pending, registries, motor_states, drag, started, latest>>

-----------------------------------------------------------------------------
(* Commands, from the main window.                                           *)
FrameType(sides) ==
  CASE sides = {"L"} -> "EngineControl1" [] sides = {"R"} -> "EngineControl2" [] OTHER -> "EngineControl3"

Frames(zone, type, speeds, meant) ==
  {[type |-> type, to |-> zone_ecus[zone][i].address, zone |-> zone, speeds |-> speeds, meant |-> meant] :
     i \in DOMAIN zone_ecus[zone]}

TransmitMotorUpdate_both(zone, sides, states, meant) ==
  IF sides = {} THEN {} ELSE Frames(zone, "EngineControl3", [s \in Sides |-> states[zone][s]], meant)

(* _transmit_motor_update names only the motors just set.                    *)
TransmitMotorUpdate(zone, sides, states, meant) ==
  IF sides = {} THEN {} ELSE Frames(zone, FrameType(sides), [s \in sides |-> states[zone][s]], meant)

Set(values) ==
  LET states == [z \in Zones |-> [s \in Sides |-> IF <<z, s>> \in DOMAIN values THEN values[<<z, s>>]
                                                  ELSE motor_states[z][s]]]
      sides(z) == {s \in Sides : <<z, s>> \in DOMAIN values}
  IN  /\ running /\ ~dialog /\ drag = NoDrag
      /\ motor_states' = states
      /\ tx' = UNION {TransmitMotorUpdate(z, sides(z), states, [s \in sides(z) |-> {values[<<z, s>>]}]) :
                        z \in Zones}
      /\ UNCHANGED <<replace, running, pending, registries, drag, dialogs, started, latest>>

(* on_vis_speed_set: of the engines toggled, each one's spin box or, in      *)
(* common mode, the one for all.                                             *)
OnVisSpeedSet == \E chosen \in SUBSET Motors : \E values \in [chosen -> Speeds] : Set(values)

(* on_control_combo_speed_set: one value, both sides of a zone, one, or none. *)
OnControlComboSpeedSet ==
  \E v \in Speeds, front \in SUBSET Sides, back \in SUBSET Sides :
    Set([m \in ({"Front"} \X front) \cup ({"Back"} \X back) |-> v])

(* A slider is dragged, and what it shows when it is released is sent.       *)
DragSlider ==
  /\ running /\ ~dialog /\ drag = NoDrag
  /\ \E z \in Zones, s \in Sides, v \in Speeds :
       drag' = [zone |-> z, side |-> s, shown |-> v, meant |-> {v}]
  /\ tx' = {}
  /\ UNCHANGED <<replace, running, pending, registries, motor_states, dialogs, started, latest>>

OnSliderReleased ==
  /\ drag # NoDrag
  /\ motor_states' = [motor_states EXCEPT ![drag.zone][drag.side] = drag.shown]
  /\ tx' = TransmitMotorUpdate(drag.zone, {drag.side}, motor_states', [s \in {drag.side} |-> drag.meant])
  /\ drag' = NoDrag
  /\ UNCHANGED <<replace, running, pending, registries, dialogs, started, latest>>

ToAll(type, v) ==
  UNION {Frames(z, type, [s \in Sides |-> v], [s \in Sides |-> {v}]) : z \in Zones}

(* on_start_stop_clicked, on_forward_clicked, on_backward_clicked: none of   *)
(* them writes motor_states.                                                 *)
OnStartStopClicked ==
  /\ running /\ ~dialog /\ drag = NoDrag
  /\ started' = ~started
  /\ tx' = IF started THEN ToAll("EmergencyStop", 0) ELSE ToAll("EngineControl3", 0)
  /\ UNCHANGED <<replace, running, pending, registries, motor_states, drag, dialogs, latest>>

OnForwardClicked ==
  /\ running /\ ~dialog /\ drag = NoDrag
  /\ tx' \in {ToAll("EngineControl3", 100), ToAll("EngineControl3", -100)}
  /\ UNCHANGED <<replace, running, pending, registries, motor_states, drag, dialogs, started, latest>>

(* closeEvent waits for the listener, which closes the socket.               *)
CloseEvent ==
  /\ running /\ ~dialog /\ drag = NoDrag
  /\ running' = FALSE
  /\ tx' = {}
  /\ UNCHANGED <<replace, pending, registries, motor_states, drag, dialogs, started, latest>>

Next ==
  \/ Receive \/ HandleAuthTx \/ ProcessHeartbeat \/ DropHeartbeat
  \/ OpenDiscoveryDialog \/ ParseBroadcast \/ ConnectToEcu \/ RemoveZecu \/ Cleanup
  \/ OnVisSpeedSet \/ OnControlComboSpeedSet \/ DragSlider \/ OnSliderReleased
  \/ OnStartStopClicked \/ OnForwardClicked \/ CloseEvent

Spec == Init /\ [][Next]_monitorVars

-----------------------------------------------------------------------------
(* However heartbeats, removals and commands interleave: the zones and the   *)
(* plots know the same nodes, each once, in the zone of its name, no more    *)
(* than fit, at the address of its last heartbeat (MonitorMain.py:475, 968); *)
(* and each frame commanded goes to such an address, with no speed for a     *)
(* motor other than what the operator has just set, or what telemetry wrote  *)
(* over it while the mouse held the slider (MonitorMain.py:1071, 1420).      *)
CommandsFitRegistry ==
  /\ \A z \in Zones :
       /\ Len(zone_ecus[z]) <= MaxNum
       /\ \A i \in DOMAIN zone_ecus[z] :
            /\ ZoneOf[zone_ecus[z][i].name] = z
            /\ Index(zone_ecus[z], zone_ecus[z][i].name) = {i}
            /\ zone_ecus[z][i].address = latest[zone_ecus[z][i].name]
  /\ ecu_registry = UNION {{zone_ecus[z][i].name : i \in DOMAIN zone_ecus[z]} : z \in Zones}
  /\ \A f \in {g \in tx : g.type \notin {"AuthRX", "PairingRequest"}} :
       /\ f.to \in {zone_ecus[f.zone][i].address : i \in DOMAIN zone_ecus[f.zone]}
       /\ \A s \in DOMAIN f.speeds : s \in DOMAIN f.meant /\ f.speeds[s] \in f.meant[s]
=============================================================================
