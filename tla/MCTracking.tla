------------------------------- MODULE MCTracking -------------------------------
(* A behaviour is one of the trackers (MCMotTrackers), of the assignment     *)
(* solver they match with, or of the registry they are built from: these     *)
(* share nothing, and while one is at work the others stay at an initial     *)
(* state.                                                                    *)
EXTENDS MCMotTrackers, Association, Registry

MCPreference == <<"native", "python">>

VARIABLE part

SomeMachine == [runs |-> {}, built |-> "absent", optedIn |-> FALSE]

PartsInit ==
    /\ part \in {"trackers", "solver", "registry"}
    /\ part # "trackers" => algorithm = [k \in Trackers |-> "sort"]
    /\ Init
    /\ part # "solver" => cost = <<>> /\ offered = <<>> /\ ages = <<>>
    /\ CascadeInit
    /\ part # "registry" => machine = SomeMachine
    /\ RegistryInit

Still(p) ==
    /\ p # "trackers" => UNCHANGED vars
    /\ p # "solver" => UNCHANGED association
    /\ p # "registry" => UNCHANGED registry

PartsNext ==
    /\ UNCHANGED part
    /\ \/ part = "trackers" /\ Next
       \/ part = "solver" /\ CascadeNext
       \/ part = "registry" /\ RegistryNext
    /\ Still(part)

PartsSpec == PartsInit /\ [][PartsNext]_<<part, vars, association, registry>>
================================================================================
