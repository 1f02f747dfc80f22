----------------------------- MODULE MCServices -----------------------------
(* The shared services, one part at a time: the registry with three slots, *)
(* the bus with two owners and a timer, the network, the file tree and the *)
(* record stores.                                                          *)
EXTENDS Registry, EventBus, Network, Storage

CONSTANTS o1, o2, up, none, t1

VARIABLE part

MCPayloads ==
  {[kind |-> "lifecycle", owner |-> o1, control |-> none, service |-> none],
   [kind |-> "repeat", owner |-> o1, control |-> up, service |-> none],
   [kind |-> "timer", owner |-> o2, control |-> none, service |-> t1]}

Key(ns, path) == [ns |-> ns, path |-> path]

\* Two private directories a and b that may hold a file c, or be files.
MCKeys ==
  {Key("private", <<"a">>), Key("private", <<"b">>),
   Key("private", <<"a", "c">>), Key("private", <<"b", "c">>),
   Key("temporary", <<"a">>), Key("package", <<"a", "c">>)}

MCPackages == {{}, {Key("package", <<"a", "c">>)}}

MCModes ==
  {{"read", "write", "create"}, {"read"}, {"write", "truncate", "append"}}

MCInit ==
  /\ part \in {"registry", "bus", "network", "files", "records"}
  /\ Init /\ BusInit /\ NetworkInit /\ StorageInit
  /\ part # "network" => replayMode = "record"

MCNext ==
  /\ \/ part = "registry" /\ Next /\ UNCHANGED <<busVars, netVars, storageVars>>
     \/ part = "bus" /\ BusNext /\ UNCHANGED <<vars, netVars, storageVars>>
     \/ part = "network" /\ NetworkNext /\ UNCHANGED <<vars, busVars, storageVars>>
     \/ part = "files" /\ (FileNext \/ Reset \/ Tick) /\ UNCHANGED <<vars, busVars, netVars>>
     \/ part = "records" /\ (RecordNext \/ Reset) /\ UNCHANGED <<vars, busVars, netVars>>
  /\ UNCHANGED part

MCSpec == MCInit /\ [][MCNext]_<<vars, busVars, netVars, storageVars, part>>
=============================================================================
