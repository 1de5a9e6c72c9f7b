-------------------------------- MODULE MCDevices --------------------------------
(* The devices share no state within a tick but what one hands the next as a   *)
(* choice here, and a poll changes none of it, so they are explored one at a   *)
(* time: device names the one that moves.                                      *)
EXTENDS DeviceProperties, MapProperties, MCYear

VARIABLE device

vars == <<device, hvacVars, meterVars, pathVars, mapVars, yearVars>>

FirstStart == CHOOSE q \in Openings : \A r \in Openings : q <= r

NoPoll == /\ past = <<>> /\ windows = <<>> /\ wire = "closed"
          /\ request = Nothing.request /\ reply = Nothing /\ heard = <<Nothing, Nothing>>

Init == /\ device \in {"hvac", "meter", "path", "map", "year"}
        /\ IF device = "map" THEN MapInit ELSE NoPoll
        /\ HvacInit /\ MeterInit /\ PathInit
        /\ device # "hvac"  => air = Cool1Off
        /\ device # "meter" => now = 0
        /\ YearInit /\ (device # "year" => quarter = FirstStart)
        /\ device # "path"  => \A c \in Cells : rack[c].soc = SocMin

Next == /\ UNCHANGED device
        /\ \/ device = "hvac"  /\ HvacNext  /\ UNCHANGED <<meterVars, pathVars, mapVars, yearVars>>
           \/ device = "meter" /\ MeterNext /\ UNCHANGED <<hvacVars, pathVars, mapVars, yearVars>>
           \/ device = "path"  /\ PathNext  /\ UNCHANGED <<hvacVars, meterVars, mapVars, yearVars>>
           \/ device = "map"   /\ MapNext   /\ UNCHANGED <<hvacVars, meterVars, pathVars, yearVars>>
           \/ device = "year"  /\ YearNext  /\ UNCHANGED <<hvacVars, meterVars, pathVars, mapVars>>

StepHvac == device = "hvac" /\ StepContainer
            /\ UNCHANGED <<device, meterVars, pathVars, mapVars, yearVars>>

Spec == Init /\ [][Next]_vars /\ WF_vars(StepHvac)

HeatGains == -1..3
Air == 0..12
Powers == {-6, 0, 9}
SiteShares == {-4, -1, 0, 3}

OcvCurve == [x \in 0..10 |-> CASE x < 3 -> 2 * x [] x < 7 -> 6 [] OTHER -> 6 + 3 * (x - 6)]
--------------------------------------------------------------------------------
(* What the map reads: fields that differ from each other and from zero, a     *)
(* plant that exports and one that imports.                                    *)
PointOf(n) == CHOOSE p \in SignalTable : p.name = n /\ (p.node = Site \/ p.space = "holding")

Reads(Count(_)) == [n \in ReadFields |-> (1000 * Count(PointOf(n))) \div PointOf(n).scale]
Up(p)   == (IF Words(p.enc) = 2 THEN 300 ELSE 4) * p.addr + 7
Down(p) == -(19 * p.addr) - 1

MCRack(temp, dv, bits) == [temp |-> temp, dv |-> dv, bits |-> bits]
MCContainer(t, watts, does, racks) == [air |-> t, watts |-> watts, hvac |-> does, racks |-> racks]
MCBlock(ac, dc, state, containers, bits) ==
  [ac |-> ac, dc |-> dc, state |-> state, soc |-> 1490, mode |-> 0, containers |-> containers,
   bits |-> bits]

Idle == MCBlock(0, 0, 0, <<MCContainer(200, 0, 0, <<MCRack(2500, 1000, {})>>)>>, {})
Out  == MCBlock(2000, 100000, 1000,
          <<MCContainer(2049, 5, 1000, <<MCRack(2550, 4000, {5}), MCRack(-900, 9000, {1, 5})>>),
            MCContainer(990, 7, 2000, <<MCRack(0, 0, {2})>>)>>, {0})
In   == MCBlock(-90000, -2000, 1000,
          <<MCContainer(-2049, 5, 1000, <<MCRack(-2550, 4000, {5})>>)>>, {})

MCPlants == {[fields |-> Reads(Up), bits |-> {0, 3}, events |-> 3, blocks |-> (0 :> Out @@ 1 :> Idle)],
             [fields |-> Reads(Down), bits |-> {}, events |-> 0, blocks |-> (0 :> Idle @@ 1 :> In)]}

Req(space, addr, count) == [space |-> space, addr |-> addr, count |-> count]
MCRequests == {Req("input", 0, 52), Req("input", 1000, 20), Req("input", 2000, 14),
               Req("holding", 0, 3), Req("input", 2190, 11)}

Sel(kind) == [kind |-> kind, node |-> <<0>>]
Window(kind, sel, start, end, exponent) ==
  [surface |-> "modbus", kind |-> kind, points |-> Sel(sel), start |-> start, end |-> end,
   exponent |-> exponent, rate |-> 300, frozen |-> Forever]

MCFaults ==
  {<<>>,
   <<Window("dropout", "all", 1, 2, 0)>>,
   <<Window("freeze", "site", 1, Forever, 0), Window("unit_error", "all", 1, 3, 1)>>,
   <<Window("unit_error", "all", 0, Forever, 1), Window("freeze", "site", 0, 3, 0),
     Window("unit_error", "site", 1, Forever, -1), Window("freeze", "all", 1, 2, 0)>>,
   <<Window("chatter", "all", 0, 3, 0), Window("chatter", "block", 1, 3, 0)>>,
   <<Window("unit_error", "pcs", 0, 2, -1), Window("dropout", "all", 0, 1, 0)>>}
==================================================================================
