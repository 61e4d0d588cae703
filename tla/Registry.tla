-------------------------------- MODULE Registry --------------------------------
(***************************************************************************)
(* shipvision/registry.py: one family of implementations by name and        *)
(* backend, with aliases that are looked up before names, lazy entries that *)
(* are imported when they are first asked for, and a build that falls       *)
(* through to the next backend on a machine that cannot run the faster one. *)
(* Modules register in the order they happen to be imported in.             *)
(*                                                                          *)
(* The native backend runs where load_extension (shipvision/_native.py)     *)
(* once found an extension of this checkout, or was told to keep a foreign  *)
(* one.                                                                     *)
(***************************************************************************)
EXTENDS Integers, Sequences, FiniteSets, Functions, SequencesExt

CONSTANTS Spellings,   \* what an algorithm or an alias may be called
          Preference,  \* backends, fastest first
          MaxAliases,  \* bound: aliases of one registration
          Native       \* the backend of the compiled extension

ASSUME RegistryAssumption == Native \in Range(Preference)

VARIABLES entries,    \* <<name, backend>> of the classes at hand
          lazy,       \* <<name, backend>> of the targets not imported
          aliases,    \* what is looked up first, another spelling -> name
          machine,    \* which runtimes it has, and where an extension was built
          extension   \* the cached answer of load_extension, "unasked" before

registry == <<entries, lazy, aliases, machine, extension>>

Backends == Range(Preference)

Registered == entries \cup lazy

(* names                                                                     *)
Names == {key[1] : key \in Registered}

Resolve(name) == IF name \in DOMAIN aliases THEN aliases[name] ELSE name

(* backends: the places they have in the order of the preference.            *)
Candidates(name) == {i \in DOMAIN Preference : <<Resolve(name), Preference[i]>> \in Registered}

RegistryInit ==
    /\ entries = {} /\ lazy = {} /\ aliases = <<>>
    /\ machine \in [runs : SUBSET (Backends \ {Native}), built : {"absent", "here", "elsewhere"},
                    optedIn : BOOLEAN]
    /\ extension = "unasked"

(* Mutant of Shadows: a name may be registered over an alias of another.     *)
ShadowsOneWay(name, wanted) == \E a \in wanted : a \in Names /\ a # name

(* The two directions of a collision between a name and an alias.            *)
Shadows(name, wanted) ==
    \/ name \in DOMAIN aliases /\ aliases[name] # name
    \/ \E a \in wanted : a \in Names /\ a # name

(* _claim                                                                    *)
Claimable(name, backend, wanted) ==
    /\ <<name, backend>> \notin Registered
    /\ ~Shadows(name, wanted)
    /\ \A a \in wanted \cap DOMAIN aliases : aliases[a] = name

(* load_extension: asked once, remembered for good.                          *)
Extension ==
    IF extension # "unasked" THEN extension
    ELSE IF machine.built = "here" \/ (machine.built = "elsewhere" /\ machine.optedIn)
    THEN "loaded" ELSE "none"

(* register and register_lazy: all of it or nothing.  The module of a native *)
(* backend asks for the extension when it is imported, which registers it.   *)
Register ==
    \E name \in Spellings, backend \in Backends, wanted \in SUBSET Spellings, isLazy \in BOOLEAN :
        /\ Cardinality(wanted) <= MaxAliases
        /\ Claimable(name, backend, wanted)
        /\ aliases' = [a \in DOMAIN aliases \cup wanted |-> IF a \in wanted THEN name ELSE aliases[a]]
        /\ entries' = IF isLazy THEN entries ELSE entries \cup {<<name, backend>>}
        /\ lazy' = IF isLazy THEN lazy \cup {<<name, backend>>} ELSE lazy
        /\ extension' = IF backend = Native /\ ~isLazy THEN Extension ELSE extension
        /\ UNCHANGED machine

(* An operator turns the escape hatch on or off.                             *)
SetEnvironment ==
    /\ machine' = [machine EXCEPT !.optedIn = ~@]
    /\ UNCHANGED <<entries, lazy, aliases, extension>>

(* A constructor that does not raise BackendUnavailableError.                *)
Runs(backend) == IF backend = Native THEN Extension = "loaded" ELSE backend \in machine.runs

(* get: what is lazy is imported and stays.                                  *)
Imported(keys) == entries' = entries \cup keys /\ lazy' = lazy \ keys

(* build, with a backend: no fallback.                                       *)
BuildPinned ==
    \E name \in Spellings, backend \in Backends :
        /\ LET key == <<Resolve(name), backend>>
           IN /\ Imported({key} \cap Registered)
              /\ extension' = IF backend = Native /\ key \in Registered THEN Extension ELSE extension
        /\ UNCHANGED <<aliases, machine>>

(* build, without: the preference is walked until one runs.                  *)
Build ==
    \E name \in Spellings :
        /\ LET running == {i \in Candidates(name) : Runs(Preference[i])}
               tried == {Preference[i] : i \in {j \in Candidates(name) : \A k \in running : j <= k}}
           IN /\ Imported({Resolve(name)} \X tried)
              /\ extension' = IF Native \in tried THEN Extension ELSE extension
        /\ UNCHANGED <<aliases, machine>>

RegistryNext == Register \/ SetEnvironment \/ BuildPinned \/ Build

RegistrySpec == RegistryInit /\ [][RegistryNext]_registry

------------------------------------------------------------------------------
(* No registration makes another unreachable, whichever came first: a name   *)
(* that is listed is found under its own spelling, an alias leads to a name  *)
(* that is there (_claim).                                                   *)
EveryNameReachable ==
    /\ \A n \in Names : Resolve(n) = n
    /\ \A a \in DOMAIN aliases : aliases[a] \in Names
================================================================================
