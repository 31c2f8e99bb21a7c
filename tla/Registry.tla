------------------------------ MODULE Registry ------------------------------
(***************************************************************************)
(* What the daemon's scanner and core promise together, seen from D-Bus:   *)
(* a controller object is admitted under an id that no other object holds  *)
(* (0 is the id of a controller for which no id was left), is served by    *)
(* the core after it was admitted, keeps its id while it exists, and is    *)
(* retired once.  ScannerThread and Core implement this specification.     *)
(***************************************************************************)
EXTENDS Naturals

CONSTANTS Controllers,   \* the controller objects
          Size           \* ids are 0 .. Size - 1

VARIABLES ident,         \* the id of every admitted controller
          served         \* the controllers D-Bus clients can address

regvars == <<ident, served>>

Ids == 0 .. Size - 1
Unborn == Size           \* the id of a controller that does not exist

Admitted == {c \in Controllers : ident[c] # Unborn}

RegistryTypeOK ==
    /\ ident \in [Controllers -> Ids \cup {Unborn}]
    /\ served \subseteq Admitted

RegistryInit ==
    /\ ident = [c \in Controllers |-> Unborn]
    /\ served = {}

Admit(c, i) ==
    /\ ident[c] = Unborn
    /\ i # 0 => \A d \in Controllers : ident[d] # i
    /\ ident' = [ident EXCEPT ![c] = i]
    /\ UNCHANGED served

Serve(S) ==
    /\ S \subseteq Admitted
    /\ served' = served \cup S
    /\ UNCHANGED ident

Retire(c) ==
    /\ ident[c] # Unborn
    /\ ident' = [ident EXCEPT ![c] = Unborn]
    /\ served' = served \ {c}

RegistryNext ==
    \/ \E c \in Controllers, i \in Ids : Admit(c, i)
    \/ \E S \in SUBSET Controllers : Serve(S)
    \/ \E c \in Controllers : Retire(c)

RegistrySpec == RegistryInit /\ [][RegistryNext]_regvars

\* Two admitted controllers never answer to the same non-zero id.
DistinctIdents ==
    \A c, d \in Admitted : c # d /\ ident[c] = ident[d] => ident[c] = 0
=============================================================================
