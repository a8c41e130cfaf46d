------------------------------- MODULE MCParts --------------------------------
(* An instance for TLC of the parts that share no state: the connections of   *)
(* the multiverse server, its wrangler, the lobby, and of snis_server and the *)
(* clients docking, the image loader, the callbacks of scripts, the talking   *)
(* sticks and fleets.  A behaviour is one of any one of them: "part" says of  *)
(* which, the others stay as they are.                                        *)
EXTENDS StarsystemSlots, Wrangler, Lobby, Docking, ImageLoader, LuaCallbacks,
        TalkingStick, Fleets

CONSTANTS fd1, fd2, gs1, gs2, player, npc1, npc2, file1, file2,
          name1, name2, worker1, worker2, item1, item2, item3, t1, t2, stick1,
          ship1, ship2, ship3

(* One connection more than there are entries, numbered as they come.         *)
ThreeConnections == 1 .. 3
TwoSlots == 1 .. 2
ThreeDescriptors == 1 .. 3

(* A solar system whose server comes again while its former entry is there.   *)
TwoFds == {fd1, fd2}
NoSystems == {}

(* More servers than the lobby has room for.                                  *)
TwoServers == {gs1, gs2}

OnePlayer == {player}
TwoNpcs == {npc1, npc2}

TwoFiles == {file1, file2}
TwoNames == {name1, name2}
TwoWorkers == {worker1, worker2}

ThreeItems == {item1, item2, item3}

(* More clients than sticks.                                                  *)
TwoTalkers == {t1, t2}
OneStick == {stick1}

(* More ships than a fleet holds.                                             *)
ThreeShips == {ship1, ship2, ship3}

VARIABLE part

partVars == <<part, vars, wranglerVars, lobbyVars, dockingVars, loaderVars,
              luaVars, stickVars, fleetVars>>

PartsInit ==
    /\ part \in {"connections", "wrangler", "lobby", "docking", "images",
                 "scripts", "sticks", "fleets"}
    /\ Init /\ WranglerInit /\ LobbyInit /\ DockingInit /\ LoaderInit
    /\ LuaInit /\ StickInit /\ FleetsInit

Only(p) ==
    /\ part = p
    /\ UNCHANGED part
    /\ p # "connections" => UNCHANGED vars
    /\ p # "wrangler" => UNCHANGED wranglerVars
    /\ p # "lobby" => UNCHANGED lobbyVars
    /\ p # "docking" => UNCHANGED dockingVars
    /\ p # "images" => UNCHANGED loaderVars
    /\ p # "scripts" => UNCHANGED luaVars
    /\ p # "sticks" => UNCHANGED stickVars
    /\ p # "fleets" => UNCHANGED fleetVars

(* What is alike is interchangeable: of two that are in the same state the    *)
(* first moves first.                                                         *)
ConnectionsInOrder ==
    /\ \A c \in 2 .. 3 :
          listener'.conn = c \/ pc'[<<c, "reader">>] # "unborn" =>
              pc'[<<c - 1, "reader">>] # "unborn"
    /\ \A c \in 1 .. 3 :
          pc[<<c, "reader">>] = pc[<<c, "writer">>] /\ pc'[<<c, "writer">>] # pc[<<c, "writer">>] =>
              pc'[<<c, "reader">>] # pc[<<c, "reader">>]

(* accept gives out the smallest descriptor that is closed.                   *)
DescriptorsInOrder == peer[fd1] = Nothing => peer'[fd2] \in {peer[fd2], Nothing}

(* Of two workers in the same state the first moves first; the first file to  *)
(* be loaded is file1, under name1.  Nothing goes on once a request has been  *)
(* given up.                                                                  *)
LoaderInOrder ==
    /\ worker[worker1] = worker[worker2] => worker'[worker2] = worker[worker2]
    /\ allocated = {} =>
          \A k \in DOMAIN todo' : todo'[k].file = file1 /\ todo'[k].name = name1
    /\ given_up = {}

StateOf(n) ==
    <<life[n], magnets[n], mode[n], port[n], top[n],
      {p \in Ports : guy[p] = n}, {p \in Ports : expected[p] = n}>>

NpcsInOrder == StateOf(npc1) = StateOf(npc2) => StateOf(npc2)' = StateOf(npc2)

PartsNext ==
    \/ Only("connections") /\ Next /\ ConnectionsInOrder
    \/ Only("wrangler") /\ WranglerNext /\ DescriptorsInOrder
    \/ Only("lobby") /\ LobbyNext
    \/ Only("docking") /\ DockingNext /\ NpcsInOrder
    \/ Only("images") /\ LoaderNext /\ LoaderInOrder
    \/ Only("scripts") /\ LuaNext
    \/ Only("sticks") /\ StickNext
    \/ Only("fleets") /\ FleetsNext

PartsSpec == PartsInit /\ [][PartsNext]_partVars

PartsTypeOK ==
    /\ part = "connections" => SlotsTypeOK
    /\ part = "wrangler" => WranglerTypeOK
    /\ part = "lobby" => LobbyTypeOK
    /\ part = "docking" => DockingTypeOK
    /\ part = "images" => LoaderTypeOK
    /\ part = "scripts" => LuaTypeOK
    /\ part = "sticks" => StickTypeOK
    /\ part = "fleets" => FleetsTypeOK
===============================================================================
