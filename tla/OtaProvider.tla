------------------------------ MODULE OtaProvider ------------------------------
(***************************************************************************)
(* The controller's offline OTA provider and the nodes that update from it. *)
(*                                                                         *)
(* Two threads of the controller meet here.  The Matter thread runs the     *)
(* command handlers (QueryImage, ApplyUpdateRequest, NotifyUpdateApplied),  *)
(* the BDX events and the console commands, each whole handler under the    *)
(* stack lock.  The candidate task takes a query from its queue, looks the  *)
(* image up under the cache mutex, writes the requestor entry without any   *)
(* lock, and takes the stack lock to answer.                                *)
(*                                                                         *)
(* An image is a product (vendor and product id) and a version; its URL and *)
(* size follow it.  A missing requestor entry behaves as a blank one, since *)
(* entries are created denied.  The node's side is the SDK's OTA requestor, *)
(* modelled from the commands it sends.  Failed allocations are left out.   *)
(***************************************************************************)
EXTENDS Integers, Sequences, FiniteSets, OtaAccess

CONSTANTS
    Nodes, Products, ProductOf,
    MaxVersion,     \* versions are 1..MaxVersion
    FirstVersion,   \* the version each node starts from
    Releases,       \* the images the operator stages
    Permits,        \* the nodes the operator enables, for once or for good
    MaxCandidates,  \* max_ota_candidate_count
    Subjects,       \* node ids an access control entry may name
    FirstAcl,       \* the access control list commissioning left
    MaxAcl,         \* its capacity
    MaxTokens,      \* bound: update tokens generated
    MaxBoots,       \* bound: restarts of the controller
    None

Images == [product : Products, version : 1..MaxVersion]
Offers == [image : Images, token : 1..MaxTokens]
Entries ==
    [allowed : BOOLEAN, once : BOOLEAN, image : Images \cup {None}, token : 0..MaxTokens]

ASSUME NodeAssumption ==
    /\ ProductOf \in [Nodes -> Products]
    /\ FirstVersion \in [Nodes -> 1..MaxVersion]
    /\ Releases \subseteq Images /\ Permits \subseteq Nodes \X BOOLEAN
    /\ None \notin Nodes \cup Images \cup Offers
ASSUME BoundAssumption ==
    /\ MaxVersion \in Nat /\ MaxCandidates \in Nat /\ MaxTokens \in Nat
    /\ MaxBoots \in Nat
ASSUME AccessAssumption ==
    /\ Nodes \subseteq Subjects /\ FirstAcl \in Seq(AclEntries(Subjects))
    /\ MaxAcl \in Nat /\ Len(FirstAcl) <= MaxAcl
\* Only lo-ota-grant-access writes entries for the provider, so what earlier runs
\* of it left is at most one a node.
ASSUME GrantsAssumption ==
    \A n \in Nodes : \A i, j \in DOMAIN FirstAcl :
        FirstAcl[i] = OtaEntry(n) /\ FirstAcl[j] = OtaEntry(n) => i = j

VARIABLES
    candidates,     \* the candidate cache
    entry,          \* requestor entries
    acl,            \* access control list, in flash
    handle,         \* mAsyncCommandHandle: whose QueryImage is held open
    peer,           \* mPeerNodeId
    queue,          \* _ota_candidate_task_queue
    tPc, tFound,    \* candidate task: where it is, what it found
    owner,          \* OtaBdxSender: mInitialized and mNodeId
    session,        \* its transfer session
    image, client,  \* what it streams (mOtaImageUrl), and to whom
    tokens,         \* tokens generated so far
    cBoots,         \* bound: restarts so far
    stage, offer,   \* per node: update stage, offer held
    running, fallback,  \* firmware, and what the bootloader goes back to
    boot            \* "valid", or not confirmed: "waiting" for the health gate, or
                    \* "left" by it when neither way could be written to flash

provider == <<candidates, entry, acl>>
query    == <<handle, peer, queue, tPc, tFound>>
sender   == <<owner, session, image, client>>
counters == <<tokens, cBoots>>
slots    == <<running, fallback, boot>>
nodes    == <<stage, offer, slots>>
vars     == <<provider, query, sender, counters, nodes>>

Blank == [allowed |-> FALSE, once |-> FALSE, image |-> None, token |-> 0]

\* Mutated form: the version the node runs is offered again.
Applicable_NotOlder(q) ==
    {c \in candidates : c.product = q.product /\ c.version >= q.version}

\* The image an up-to-date answer to a query would name.
Applicable(q) ==
    {c \in candidates : c.product = q.product /\ c.version > q.version}

\* A node drops what it was doing and will ask again.
Abandon(n) == stage' = [stage EXCEPT ![n] = "idle"] /\ offer' = [offer EXCEPT ![n] = None]

-----------------------------------------------------------------------------
Init ==
    /\ candidates = {} /\ entry = [n \in Nodes |-> Blank]
    /\ handle = None /\ peer = None /\ queue = <<>>
    /\ tPc = "wait" /\ tFound = None
    /\ owner = None /\ session = "idle" /\ image = None /\ client = None
    /\ tokens = 0 /\ cBoots = 0
    /\ stage = [n \in Nodes |-> "idle"] /\ offer = [n \in Nodes |-> None]
    /\ running = FirstVersion /\ fallback = FirstVersion
    /\ boot = [n \in Nodes |-> "valid"] /\ acl = FirstAcl

-----------------------------------------------------------------------------
(* Console: lo-ota-set-image, lo-ota-enable, lo-ota-disable, lo-ota-grant-access *)

\* Mutated form: a slot of its own for every image staged.
SetImage_Appends(i) ==
    /\ Cardinality(candidates) < MaxCandidates + 1
    /\ candidates' = candidates \cup {i}
    /\ UNCHANGED <<entry, acl, query, sender, counters, nodes>>

\* One candidate per product, replaced in place; refused when the cache is full.
SetImage(i) ==
    LET others == {c \in candidates : c.product # i.product}
    IN  /\ others # candidates \/ Cardinality(candidates) < MaxCandidates
        /\ candidates' = others \cup {i}
        /\ UNCHANGED <<entry, acl, query, sender, counters, nodes>>

Enable(n, once) ==
    /\ entry' = IF once THEN [entry EXCEPT ![n].once = TRUE]
                ELSE [entry EXCEPT ![n].allowed = TRUE]
    /\ UNCHANGED <<candidates, acl, query, sender, counters, nodes>>

Disable(n) ==
    /\ entry' = [entry EXCEPT ![n].allowed = FALSE, ![n].once = FALSE]
    /\ UNCHANGED <<candidates, acl, query, sender, counters, nodes>>

\* Mutated form: an entry is added without looking for one.
GrantAccess_Always(n) ==
    /\ Len(acl) < MaxAcl
    /\ acl' = Append(acl, OtaEntry(n))
    /\ UNCHANGED <<candidates, entry, query, sender, counters, nodes>>

\* lo-ota-grant-access: nothing to do when an entry serves the node; no memory
\* when the list is full.
GrantAccess(n) ==
    /\ ~\E i \in DOMAIN acl : ota_acl_entry_allows_node(acl[i], n)
    /\ Len(acl) < MaxAcl
    /\ acl' = Append(acl, OtaEntry(n))
    /\ UNCHANGED <<candidates, entry, query, sender, counters, nodes>>

-----------------------------------------------------------------------------
(* QueryImage: the handler, the candidate task, the answer *)

\* Mutated form: a query is accepted while another one is held open.
QueryImage_NoBusy(n) ==
    /\ stage[n] = "idle" /\ Reaches(acl, n)
    /\ handle' = n /\ peer' = n
    /\ queue' = Append(queue, [product |-> ProductOf[n], version |-> running[n]])
    /\ stage' = [stage EXCEPT ![n] = "asked"]
    /\ UNCHANGED <<provider, tPc, tFound, sender, counters, offer, slots>>

\* While one query is held open every other one is answered Busy, and the node
\* asks again later.
QueryImage(n) ==
    /\ stage[n] = "idle" /\ handle = None /\ Reaches(acl, n)
    /\ handle' = n /\ peer' = n
    /\ queue' = Append(queue, [product |-> ProductOf[n], version |-> running[n]])
    /\ stage' = [stage EXCEPT ![n] = "asked"]
    /\ UNCHANGED <<provider, tPc, tFound, sender, counters, offer, slots>>

\* Mutated form: nobody is called back when no image applies.
FetchLookup_Silent ==
    /\ tPc = "wait" /\ queue # <<>>
    /\ queue' = Tail(queue)
    /\ \/ tFound' \in Applicable(Head(queue)) /\ tPc' = "found"
       \/ Applicable(Head(queue)) = {} /\ UNCHANGED <<tPc, tFound>>
    /\ UNCHANGED <<provider, handle, peer, sender, counters, nodes>>

\* The task takes a query and searches the cache.
FetchLookup ==
    /\ tPc = "wait" /\ queue # <<>>
    /\ queue' = Tail(queue)
    /\ \/ tFound' \in Applicable(Head(queue))
       \/ Applicable(Head(queue)) = {} /\ tFound' = None
    /\ tPc' = "found"
    /\ UNCHANGED <<provider, handle, peer, sender, counters, nodes>>

\* FetchImageDoneCallback, before it takes the stack lock.
FetchStore ==
    /\ tPc = "found"
    /\ entry' = IF tFound = None THEN entry ELSE [entry EXCEPT ![peer].image = tFound]
    /\ tPc' = "stored"
    /\ UNCHANGED <<candidates, acl, handle, peer, queue, tFound, sender, counters, nodes>>

\* SendQueryImageResponse would answer Update Available.
Granted == tFound # None /\ (entry[peer].allowed \/ entry[peer].once)

\* Mutated form: whoever holds the sender loses it.
SenderFree_Always == TRUE

\* InitializeTransfer: the sender is free, or restarted for its own node.
SenderFree == owner \in {None, peer}

\* The command handle is released and the task goes back to its queue.
Answer ==
    /\ tPc = "stored" /\ handle = peer
    /\ handle' = None
    /\ tPc' = "wait" /\ tFound' = None
    /\ UNCHANGED <<candidates, acl, peer, queue, cBoots, slots>>

\* Not available, busy or an error: the node goes idle and asks again later.
Refuse == stage' = [stage EXCEPT ![peer] = IF @ = "asked" THEN "idle" ELSE @]

\* Update available: the sender is prepared and a fresh token issued.  The
\* response may be lost, or reach a node that has given up.
AnswerUpdate ==
    /\ Answer /\ Granted /\ SenderFree
    /\ tokens < MaxTokens /\ tokens' = tokens + 1
    /\ entry' = [entry EXCEPT ![peer].token = tokens']
    /\ owner' = peer /\ session' = "prepared" /\ client' = None
    /\ image' = entry[peer].image
    /\ \/ /\ stage[peer] = "asked"
          /\ stage' = [stage EXCEPT ![peer] = "offered"]
          /\ offer' = [offer EXCEPT ![peer] =
                          [image |-> entry[peer].image, token |-> tokens']]
       \/ UNCHANGED <<stage, offer>>

\* PrepareForTransfer failed: the command fails, the sender keeps its owner.
AnswerFailure ==
    /\ Answer /\ Granted /\ SenderFree
    /\ owner' = peer /\ session' = "idle" /\ client' = None
    /\ image' = entry[peer].image
    /\ Refuse
    /\ UNCHANGED <<entry, tokens, offer>>

\* Busy: the sender belongs to another node.
AnswerBusy ==
    /\ Answer /\ Granted /\ ~SenderFree
    /\ Refuse
    /\ UNCHANGED <<entry, sender, tokens, offer>>

\* Not available: denied, or no applicable candidate.
AnswerNotAvailable ==
    /\ Answer /\ ~Granted
    /\ Refuse
    /\ UNCHANGED <<entry, sender, tokens, offer>>

CandidateTask ==
    \/ FetchLookup \/ FetchStore
    \/ AnswerUpdate \/ AnswerFailure \/ AnswerBusy \/ AnswerNotAvailable

-----------------------------------------------------------------------------
(* BDX transfer *)

\* ReceiveInit: a prepared session accepts whoever opens it, and connects to
\* the image server; when that fails the session is aborted, never Reset.  When
\* the session cannot accept, the handler returns: the session goes no further,
\* and the node hears nothing until it gives up.  The node's boot slots take no
\* image while the running one is unconfirmed.
ReceiveInit(n) ==
    /\ stage[n] = "offered" /\ session = "prepared" /\ boot[n] = "valid"
    /\ \/ session' = "sending" /\ client' = n
          /\ stage' = [stage EXCEPT ![n] = "loading"]
          /\ UNCHANGED offer
       \/ session' = "aborted" /\ UNCHANGED client
          /\ (Abandon(n) \/ UNCHANGED <<stage, offer>>)
    /\ UNCHANGED <<provider, query, owner, image, counters, slots>>

\* The client has the last block; its AckEOF is still to come.
LoadImage ==
    /\ session = "sending" /\ stage[client] = "loading"
    /\ stage' = [stage EXCEPT ![client] = "loaded"]
    /\ UNCHANGED <<provider, query, sender, counters, offer, slots>>

\* Reset: after AckEOF, a status report, an internal error or a timeout.
ResetSender ==
    /\ session = "sending"
    /\ owner' = None /\ session' = "idle" /\ image' = None /\ client' = None
    /\ UNCHANGED <<provider, query, counters, nodes>>

\* A read or header error aborts the transfer; nothing resets the sender.
AbortTransfer ==
    /\ session = "sending" /\ stage[client] = "loading"
    /\ session' = "aborted" /\ client' = None
    /\ Abandon(client)
    /\ UNCHANGED <<provider, query, owner, image, counters, slots>>

-----------------------------------------------------------------------------
(* ApplyUpdateRequest and NotifyUpdateApplied *)

\* The token and the version sent are those of the requestor entry.
Confirms(n) ==
    /\ offer[n].token = entry[n].token
    /\ entry[n].image # None /\ offer[n].image.version = entry[n].image.version

ApplyUpdateRequest(n) ==
    /\ stage[n] = "loaded"
    /\ \/ Confirms(n) /\ stage' = [stage EXCEPT ![n] = "applying"] /\ UNCHANGED offer
       \/ ~Confirms(n) /\ Abandon(n)
    /\ UNCHANGED <<provider, query, sender, counters, slots>>

\* The node reboots into the image, which is unconfirmed until the node says so.
Install(n) ==
    /\ stage[n] = "applying"
    /\ running' = [running EXCEPT ![n] = offer[n].image.version]
    /\ fallback' = [fallback EXCEPT ![n] = running[n]]
    /\ boot' = [boot EXCEPT ![n] = "waiting"]
    /\ stage' = [stage EXCEPT ![n] = "new"]
    /\ UNCHANGED <<provider, query, sender, counters, offer>>

\* The first message of the new image; it may be lost.
NotifyUpdateApplied(n) ==
    /\ stage[n] = "new"
    /\ Abandon(n)
    /\ \/ Confirms(n) /\ entry' = [entry EXCEPT ![n].once = FALSE]
       \/ UNCHANGED entry
    /\ UNCHANGED <<candidates, acl, query, sender, counters, slots>>

-----------------------------------------------------------------------------
(* The health gate of a node that runs an unconfirmed image *)

Confirm(n) ==
    boot' = [boot EXCEPT ![n] = "valid"] /\ UNCHANGED <<running, stage, offer>>

\* The bootloader starts the previous image again; the update is forgotten.
Revert(n) ==
    /\ running' = [running EXCEPT ![n] = fallback[n]]
    /\ boot' = [boot EXCEPT ![n] = "valid"]
    /\ Abandon(n)

\* Roll back and reboot; when that cannot be written the gate just ends.
RollBack(n) ==
    \/ Revert(n)
    \/ boot' = [boot EXCEPT ![n] = "left"] /\ UNCHANGED <<running, stage, offer>>

\* Thread attaches in time: mark-valid, and roll back should that fail.
GateAttach(n) ==
    /\ boot[n] = "waiting"
    /\ Confirm(n) \/ RollBack(n)
    /\ UNCHANGED <<provider, query, sender, counters, fallback>>

\* Mutated form: the gate waits for Thread without a deadline.
GateExpire_Never(n) ==
    /\ boot[n] = "waiting" /\ boot[n] = "left"
    /\ RollBack(n)
    /\ UNCHANGED <<provider, query, sender, counters, fallback>>

\* The deadline passes first, however close behind it Thread attaches.
GateExpire(n) ==
    /\ boot[n] = "waiting"
    /\ RollBack(n)
    /\ UNCHANGED <<provider, query, sender, counters, fallback>>

\* The SDK's requestor may confirm the image as well.
RequestorConfirm(n) ==
    /\ boot[n] # "valid"
    /\ Confirm(n)
    /\ UNCHANGED <<provider, query, sender, counters, fallback>>

\* Any reset of an unconfirmed image makes the bootloader go back.
PowerLoss(n) ==
    /\ boot[n] # "valid"
    /\ Revert(n)
    /\ UNCHANGED <<provider, query, sender, counters, fallback>>

HealthGate(n) ==
    GateAttach(n) \/ GateExpire(n) \/ RequestorConfirm(n) \/ PowerLoss(n)

-----------------------------------------------------------------------------
(* Environment *)

\* A node loses power, or times out waiting for the controller.
GiveUp(n) ==
    /\ stage[n] \in {"asked", "offered", "loading", "loaded"}
    /\ Abandon(n)
    /\ UNCHANGED <<provider, query, sender, counters, slots>>

\* The controller restarts; all the provider knows is in RAM, but for the list.
ControllerReboot ==
    /\ cBoots < MaxBoots /\ cBoots' = cBoots + 1
    /\ candidates' = {} /\ entry' = [n \in Nodes |-> Blank]
    /\ handle' = None /\ peer' = None /\ queue' = <<>>
    /\ tPc' = "wait" /\ tFound' = None
    /\ owner' = None /\ session' = "idle" /\ image' = None /\ client' = None
    /\ UNCHANGED <<acl, tokens, nodes>>

Console ==
    \/ \E i \in Releases : SetImage(i)
    \/ \E p \in Permits : Enable(p[1], p[2])
    \/ \E n \in Nodes : Disable(n) \/ GrantAccess(n)

Requestor(n) ==
    \/ QueryImage(n) \/ ReceiveInit(n) \/ ApplyUpdateRequest(n)
    \/ Install(n) \/ NotifyUpdateApplied(n) \/ GiveUp(n)

Next ==
    \/ Console \/ CandidateTask
    \/ \E n \in Nodes : Requestor(n) \/ HealthGate(n)
    \/ LoadImage \/ ResetSender \/ AbortTransfer
    \/ ControllerReboot

Spec == Init /\ [][Next]_vars

\* FreeRTOS runs the candidate task whenever its queue is not empty.
\* The gate's loop ends at its deadline; that Thread attaches is never counted on.
FairSpec ==
    Spec /\ WF_vars(CandidateTask) /\ \A n \in Nodes : WF_vars(GateExpire(n))

-----------------------------------------------------------------------------
(* Properties *)

\* Every variable keeps its type; the cache holds one candidate per product.
TypeOK ==
    /\ candidates \subseteq Images
    /\ \A c, d \in candidates : c.product = d.product => c = d
    /\ entry \in [Nodes -> Entries]
    /\ handle \in Nodes \cup {None} /\ peer \in Nodes \cup {None}
    /\ queue \in Seq([product : Products, version : 1..MaxVersion])
    /\ tPc \in {"wait", "found", "stored"} /\ tFound \in Images \cup {None}
    /\ owner \in Nodes \cup {None} /\ client \in Nodes \cup {None}
    /\ session \in {"idle", "prepared", "sending", "aborted"}
    /\ image \in Images \cup {None}
    /\ tokens \in 0..MaxTokens /\ cBoots \in 0..MaxBoots
    /\ stage \in [Nodes -> {"idle", "asked", "offered", "loading", "loaded",
                            "applying", "new"}]
    /\ offer \in [Nodes -> Offers \cup {None}]
    /\ running \in [Nodes -> 1..MaxVersion] /\ fallback \in [Nodes -> 1..MaxVersion]
    /\ boot \in [Nodes -> {"valid", "waiting", "left"}]
    /\ acl \in Seq(AclEntries(Subjects)) /\ Len(acl) <= MaxAcl

\* The held command handle makes the candidate task work for one node at a
\* time: whatever it looked up or stored belongs to the node that is answered,
\* and its queue never fills up (xQueueSend waits for ever, under the lock).
OneFetchAtATime ==
    /\ queue # <<>> => Len(queue) = 1 /\ tPc = "wait" /\ handle = peer /\ handle # None
    /\ tPc # "wait" => handle = peer /\ handle # None
    /\ tFound # None => tFound.product = ProductOf[peer]

\* A node only ever holds an offer for its own product that is newer than what
\* it runs, whatever the console staged while the query was looked up.
OffersAreUpgrades ==
    \A n \in Nodes : stage[n] \in {"offered", "loading", "loaded", "applying"} =>
        /\ offer[n].image.product = ProductOf[n]
        /\ offer[n].image.version > running[n]

\* The bytes streamed to a node are those of the image it was offered, although
\* a prepared session accepts any node (a restart forgets whose it was).
StreamsTheOffer ==
    cBoots = 0 /\ session = "sending" /\ stage[client] = "loading" =>
        client = owner /\ image = offer[client].image

\* A transfer under way is never taken over: the sender is released first.
NoTakeover ==
    [][session = "sending" /\ owner' # owner => owner' = None]_vars

\* As long as the controller keeps running, an update under way stays
\* confirmable: no query, console command or failure of another node disturbs
\* the requestor entry it will be checked against.
OffersStand ==
    \A n \in Nodes : cBoots = 0 /\ offer[n] # None => Confirms(n)

\* Every query is answered or lost with the controller: the handle is released.
QueriesAnswered == handle # None ~> handle = None

\* When lo-ota-grant-access finds that nothing is to be done, or has added its
\* entry, the node's commands do reach the provider, whatever entries others
\* wrote; and repeating it never uses up the list.
GrantMeansAccess ==
    \A n \in Nodes :
        /\ (\E i \in DOMAIN acl : ota_acl_entry_allows_node(acl[i], n)) => Reaches(acl, n)
        /\ Cardinality({i \in DOMAIN acl : acl[i] = OtaEntry(n)}) <= 1

\* An unconfirmed image does not stay under test: whether Thread attaches or
\* not, it is confirmed, rolled back, or left because flash could not be written.
GateDecides ==
    \A n \in Nodes : boot[n] = "waiting" ~> boot[n] # "waiting"

\* Claim of the comment in SendQueryImageResponse: an InitializeTransfer that
\* is refused means another BDX transfer is in progress.
BusyMeansTransfer ==
    tPc = "stored" /\ Granted /\ ~SenderFree => session \in {"prepared", "sending"}

\* Claim of phase-7-offline-ota.md: "once" is revoked by a successful apply.
OnceIsRevoked ==
    [][\A n \in Nodes : stage[n] = "new" /\ stage'[n] = "idle" => ~entry'[n].once]_vars

=============================================================================
