------------------------------ MODULE OtaAccess ------------------------------
(***************************************************************************)
(* Who may send commands to the OTA provider: the access control list of    *)
(* the controller's fabric, and the test lo-ota-grant-access makes on it     *)
(* before it adds an entry.  Operators only; OtaProvider holds the list.     *)
(*                                                                         *)
(* An entry grants a privilege to subjects (none: everybody) on targets      *)
(* (none: everything).  A target restricts the endpoint, the cluster or the  *)
(* device type, or leaves each of them open.                                 *)
(***************************************************************************)
EXTENDS Integers, Sequences

Open       == "open"
Privileges == {"view", "proxy_view", "operate", "manage", "administer"}
Targets    == [endpoint : {Open, "provider", "root"}, cluster : {Open, "ota", "acl"},
               device : {Open, "ota_provider", "light"}]

AclEntries(Subjects) ==
    [auth : {"case", "group"}, privilege : Privileges,
     subjects : SUBSET Subjects, targets : SUBSET Targets]

privilege_allows_operate(p) == p \in {"operate", "manage", "administer"}

\* Mutated form: a restriction by device type is overlooked.
target_matches_AnyDevice(t) ==
    t.endpoint \in {Open, "provider"} /\ t.cluster \in {Open, "ota"}

\* A target that names a device type is not counted on, whatever it names.
target_matches_ota_provider(t) ==
    /\ t.device = Open
    /\ t.endpoint \in {Open, "provider"} /\ t.cluster \in {Open, "ota"}

\* The test of the console command: the node must be named by the entry.
ota_acl_entry_allows_node(e, n) ==
    /\ e.auth = "case" /\ privilege_allows_operate(e.privilege)
    /\ n \in e.subjects
    /\ e.targets = {} \/ \E t \in e.targets : target_matches_ota_provider(t)

\* The entry the console command writes.
OtaEntry(n) ==
    [auth |-> "case", privilege |-> "operate", subjects |-> {n},
     targets |-> {[endpoint |-> "provider", cluster |-> "ota", device |-> Open]}]

\* The SDK's own check of a command of node n for the provider.
Reaches(acl, n) ==
    \E i \in DOMAIN acl :
        /\ acl[i].auth = "case" /\ privilege_allows_operate(acl[i].privilege)
        /\ acl[i].subjects = {} \/ n \in acl[i].subjects
        /\ \/ acl[i].targets = {}
           \/ \E t \in acl[i].targets :
                /\ t.endpoint \in {Open, "provider"} /\ t.cluster \in {Open, "ota"}
                /\ t.device \in {Open, "ota_provider"}

=============================================================================
