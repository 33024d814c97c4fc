-------------------------------- MODULE Vpn ---------------------------------
(***************************************************************************)
(* internal/vpn: Up and Down of the split tunnel, command by command, and  *)
(* what a dial makes of it.  wg-quick and ip are modelled from how they    *)
(* are used: adding what is there is an error, and so is removing what is  *)
(* not, which the code ignores.  One hmt command runs at a time; it may be *)
(* killed, and a reboot takes what the kernel holds while files stay.      *)
(***************************************************************************)
EXTENDS Integers

CONSTANTS MaxFaults, MaxCommands    \* bounds: failures and kills, and commands of hmt

VARIABLES
    have,           \* what there is: the kernel's part, the generated file, the state file
    step, inside,     \* the next command of Up or Down, and whose Down it is
    said,           \* how the last command of hmt ended
    disturbed,      \* a command failed that could have succeeded, since Up or Down began
    faults, commands

vpnVars == <<have, step, inside, said, disturbed, faults, commands>>

Kernel == {"iface", "rule", "route"}    \* hmtvpn, the fwmark rule, the default route of its table
Things == Kernel \cup {"conf", "mark"}

VpnInit ==
    /\ have = {} /\ step = "idle" /\ inside = "none" /\ said = "none"
    /\ disturbed = FALSE /\ faults = 0 /\ commands = 0

\* a socket carries the mark of the state file; without a rule or a route for it, it goes by the
\* main table
DialContext == IF {"mark", "rule", "route"} \subseteq have THEN "tunnel" ELSE "normal"

Fault == faults < MaxFaults /\ faults' = faults + 1 /\ disturbed' = TRUE
NoFault == UNCHANGED <<faults, disturbed>>

Then(l) == step' = l /\ UNCHANGED <<inside, said, commands>>
Say(what) == step' = "idle" /\ inside' = "none" /\ said' = what /\ UNCHANGED commands

Begin(what, first) ==
    /\ step = "idle" /\ commands < MaxCommands
    /\ commands' = commands + 1
    /\ step' = first /\ inside' = what /\ said' = "none" /\ disturbed' = FALSE
    /\ UNCHANGED <<have, faults>>

Up == Begin("up", "writeConf")
Down == Begin("down", "routeDel")

\* Mutant: what is there is not taken down first.
WriteConfOnly ==
    /\ step = "writeConf"
    /\ have' = have \cup {"conf"} /\ Then("wgUp") /\ NoFault

WriteConf ==
    /\ step = "writeConf"
    /\ \/ have' = have \cup {"conf"} /\ Then("routeDel") /\ NoFault
       \/ UNCHANGED have /\ Say("upError") /\ Fault

\* a removal whose error is ignored
TakeDown(l, things, next) ==
    /\ step = l /\ Then(next)
    /\ (have' = have \ things /\ NoFault) \/ (UNCHANGED have /\ Fault)

RouteDel == TakeDown("routeDel", {"route"}, "ruleDel")
RuleDel == TakeDown("ruleDel", {"rule"}, "wgDown")

\* Mutant: the tunnel is taken down only if the state file says that it is up.
WgDownIfMarked ==
    TakeDown("wgDown", IF "mark" \in have THEN {"iface", "route"} ELSE {}, "clearState")

\* with the interface go the routes through it; without a generated file nothing is done
WgDown == TakeDown("wgDown", IF "conf" \in have THEN {"iface", "route"} ELSE {}, "clearState")

\* the end of Down: a command, the beginning of Up, or what Up does when writeState fails
ClearState ==
    /\ step = "clearState"
    /\ (have' = have \ {"mark"} /\ NoFault) \/ (UNCHANGED have /\ Fault)
    /\ \/ inside = "up" /\ Then("wgUp")
       \/ inside = "undo" /\ Say("upError")
       \/ inside = "down" /\ Say(IF "mark" \in have' THEN "downError" ELSE "downOk")

WgUp ==
    /\ step = "wgUp"
    /\ \/ "iface" \notin have /\ have' = have \cup {"iface"} /\ Then("ruleAdd") /\ NoFault
       \/ "iface" \in have /\ UNCHANGED have /\ Say("upError") /\ NoFault
       \/ UNCHANGED have /\ Say("upError") /\ Fault

RuleAdd ==
    /\ step = "ruleAdd"
    /\ \/ "rule" \notin have /\ have' = have \cup {"rule"} /\ Then("routeReplace") /\ NoFault
       \/ "rule" \in have /\ UNCHANGED have /\ Then("undoWg") /\ NoFault
       \/ UNCHANGED have /\ Then("undoWg") /\ Fault

\* Mutant: the error is not looked at.
RouteReplaceUnchecked ==
    /\ step = "routeReplace" /\ Then("writeState")
    /\ (have' = have \cup {"route"} /\ NoFault) \/ (UNCHANGED have /\ Fault)

RouteReplace ==
    /\ step = "routeReplace"
    /\ \/ have' = have \cup {"route"} /\ Then("writeState") /\ NoFault
       \/ UNCHANGED have /\ Then("undoRule") /\ Fault

UndoRule == TakeDown("undoRule", {"rule"}, "undoWg")

UndoWg ==
    /\ step = "undoWg" /\ Say("upError")
    /\ (have' = have \ {"iface", "route"} /\ NoFault) \/ (UNCHANGED have /\ Fault)

WriteState ==
    /\ step = "writeState"
    /\ \/ have' = have \cup {"mark"} /\ Say("upOk") /\ NoFault
       \/ /\ UNCHANGED have /\ Fault
          /\ step' = "routeDel" /\ inside' = "undo" /\ UNCHANGED <<said, commands>>

\* the end of the process, or of everything
Crash(lost) ==
    /\ step # "idle" \/ lost = Kernel
    /\ faults < MaxFaults /\ faults' = faults + 1
    /\ have' = have \ lost /\ Say("killed")
    /\ UNCHANGED disturbed

VpnNext ==
    \/ Up \/ Down
    \/ WriteConf \/ RouteDel \/ RuleDel \/ WgDown \/ ClearState
    \/ WgUp \/ RuleAdd \/ RouteReplace \/ UndoRule \/ UndoWg \/ WriteState
    \/ \E lost \in {{}, Kernel} : Crash(lost)

VpnSpec == VpnInit /\ [][VpnNext]_vpnVars
-----------------------------------------------------------------------------
(* Every variable has its type. *)
TypeOK ==
    /\ have \subseteq Things
    /\ step \in {"idle", "writeConf", "routeDel", "ruleDel", "wgDown", "clearState", "wgUp",
               "ruleAdd", "routeReplace", "undoRule", "undoWg", "writeState"}
    /\ inside \in {"none", "up", "down", "undo"}
    /\ said \in {"none", "upOk", "upError", "downOk", "downError", "killed"}
    /\ disturbed \in BOOLEAN /\ faults \in Nat /\ commands \in Nat

(* After "VPN on", and until the next command or a reboot, dials go through the tunnel,       *)
(* whatever failed, was killed or was left behind before.                                     *)
OnIsOn == said = "upOk" => DialContext = "tunnel" /\ "iface" \in have

(* An Up in which no command fails for a reason of its own succeeds: it takes down whatever   *)
(* an earlier Up or Down left, killed or failed half-way, with or without a state file.       *)
UpRepairs == said = "upError" => disturbed

(* A Down in which no command fails leaves no interface, no rule, no route and no mark, also  *)
(* of an Up that was killed before it wrote the state file.                                   *)
DownClears == (said = "downOk" /\ ~disturbed) => have \subseteq {"conf"}
=============================================================================
