-------------------------- MODULE OtaProviderProofs --------------------------
(***************************************************************************)
(* Theorems about the OTA provider, for every set of nodes, products and    *)
(* releases, every access control list commissioning may leave, and every   *)
(* number of tokens and of restarts of the controller.                      *)
(***************************************************************************)
EXTENDS OtaProvider, FiniteSetTheorems, SequenceTheorems, TLAPS

-----------------------------------------------------------------------------
(* The inductive invariant, by theme *)

\* A node holds an offer from the answer to its query until it is done with it.
HeldOffers ==
    \A n \in Nodes : offer[n] = None <=> stage[n] \in {"idle", "asked"}

\* While a command handle is held its node has no update under way: it waits, or
\* has given up.
HandleIsOpen ==
    handle # None => peer = handle /\ stage[peer] \in {"idle", "asked"}

\* What the candidate task is given and finds is about the node it will answer,
\* at the version the node still runs if it still waits.
FetchIsCurrent ==
    /\ tPc = "wait" => tFound = None
    /\ queue # <<>> =>
          /\ Head(queue).product = ProductOf[peer]
          /\ stage[peer] = "asked" => Head(queue).version = running[peer]
    /\ tFound # None =>
          /\ tFound.product = ProductOf[peer]
          /\ stage[peer] = "asked" => tFound.version > running[peer]
          /\ tPc = "stored" => entry[peer].image = tFound

\* The sender works for somebody unless it is idle.
SenderIsOwned ==
    /\ session # "idle" => owner \in Nodes
    /\ session = "sending" => client \in Nodes

\* While the controller keeps running, the sender belongs to each node whose
\* offer was not taken up, prepared with that offer's image (unless the session
\* could not accept): so there is only one.
OfferIsPrepared ==
    \A n \in Nodes : cBoots = 0 /\ stage[n] = "offered" =>
        session \in {"prepared", "aborted"} /\ owner = n /\ image = offer[n].image

\* The list holds one entry of ours for a node.
OneGrant ==
    \A n \in Nodes : \A i, j \in DOMAIN acl :
        acl[i] = OtaEntry(n) /\ acl[j] = OtaEntry(n) => i = j

IInv ==
    /\ TypeOK
    /\ OneFetchAtATime /\ HandleIsOpen /\ FetchIsCurrent
    /\ HeldOffers /\ OffersAreUpgrades /\ OffersStand
    /\ SenderIsOwned /\ OfferIsPrepared /\ StreamsTheOffer

-----------------------------------------------------------------------------
(* Types *)

\* Looking an image up gives one that is staged.
LEMMA ApplicableIsStaged ==
    ASSUME NEW q, NEW c \in Applicable(q)
    PROVE  c \in candidates /\ c.product = q.product /\ c.version > q.version
BY DEF Applicable

\* Giving an update up keeps the types.
LEMMA AbandonTypes ==
    ASSUME TypeOK, NEW n \in Nodes, Abandon(n)
    PROVE  /\ stage' \in [Nodes -> {"idle", "asked", "offered", "loading", "loaded",
                                    "applying", "new"}]
           /\ offer' \in [Nodes -> Offers \cup {None}]
BY DEF TypeOK, Abandon

LEMMA TypeInit == Init => TypeOK
<1> SUFFICES ASSUME Init PROVE TypeOK
    OBVIOUS
<1>1. entry \in [Nodes -> Entries]
  BY BoundAssumption DEF Init, Entries, Blank
<1>2. queue \in Seq([product : Products, version : 1..MaxVersion])
  BY EmptySeq DEF Init
<1>3. offer \in [Nodes -> Offers \cup {None}]
  BY DEF Init
<1> QED BY <1>1, <1>2, <1>3, NodeAssumption, BoundAssumption, AccessAssumption
        DEF Init, TypeOK

LEMMA TypeConsole == TypeOK /\ Console => TypeOK'
<1> SUFFICES ASSUME TypeOK, Console PROVE TypeOK'
    OBVIOUS
<1> USE DEF TypeOK, query, sender, counters, nodes, slots
<1>1. ASSUME NEW i \in Releases, SetImage(i) PROVE TypeOK'
  <2>1. i \in Images
    BY NodeAssumption
  <2>2. candidates' = {c \in candidates : c.product # i.product} \cup {i}
    BY <1>1 DEF SetImage
  <2>3. candidates' \subseteq Images
    BY <2>1, <2>2
  <2>4. \A c, d \in candidates' : c.product = d.product => c = d
    BY <2>2
  <2> QED BY <1>1, <2>3, <2>4 DEF SetImage
<1>2. ASSUME NEW p \in Permits, Enable(p[1], p[2]) PROVE TypeOK'
  <2> DEFINE n == p[1]
  <2>1. n \in Nodes
    BY NodeAssumption
  <2>2. entry[n] \in Entries
    BY <2>1
  <2>3. /\ [entry[n] EXCEPT !.once = TRUE] \in Entries
        /\ [entry[n] EXCEPT !.allowed = TRUE] \in Entries
    BY <2>2 DEF Entries
  <2>4. entry' \in [Nodes -> Entries]
    BY <1>2, <2>1, <2>3 DEF Enable
  <2> QED BY <1>2, <2>4 DEF Enable
<1>3. ASSUME NEW n \in Nodes, Disable(n) PROVE TypeOK'
  <2>1. [entry[n] EXCEPT !.allowed = FALSE, !.once = FALSE] \in Entries
    BY DEF Entries
  <2>2. entry' = [entry EXCEPT ![n] = [entry[n] EXCEPT !.allowed = FALSE, !.once = FALSE]]
    BY <1>3 DEF Disable
  <2> QED BY <1>3, <2>1, <2>2 DEF Disable
<1>4. ASSUME NEW n \in Nodes, GrantAccess(n) PROVE TypeOK'
  <2>1. OtaEntry(n) \in AclEntries(Subjects)
    BY AccessAssumption DEF OtaEntry, AclEntries, Privileges, Targets, Open
  <2>2. acl' \in Seq(AclEntries(Subjects)) /\ Len(acl') = Len(acl) + 1
    BY <1>4, <2>1, AppendProperties DEF GrantAccess
  <2>3. Len(acl') <= MaxAcl
    BY <1>4, <2>2, AccessAssumption, LenProperties DEF GrantAccess
  <2> QED BY <1>4, <2>2, <2>3 DEF GrantAccess
<1> QED BY <1>1, <1>2, <1>3, <1>4 DEF Console

LEMMA TypeCandidateTask ==
    TypeOK /\ OneFetchAtATime /\ FetchIsCurrent /\ CandidateTask => TypeOK'
<1> SUFFICES ASSUME TypeOK, OneFetchAtATime, FetchIsCurrent, CandidateTask
             PROVE  TypeOK'
    OBVIOUS
<1> USE DEF TypeOK, provider, sender, counters, nodes, slots
<1>1. CASE FetchLookup
  <2>1. queue' \in Seq([product : Products, version : 1..MaxVersion])
    BY <1>1, HeadTailProperties DEF FetchLookup
  <2>2. tFound' \in Images \cup {None}
    BY <1>1, ApplicableIsStaged DEF FetchLookup
  <2> QED BY <1>1, <2>1, <2>2 DEF FetchLookup
<1>2. CASE FetchStore
  <2>1. entry' \in [Nodes -> Entries]
    BY <1>2 DEF FetchStore, Entries
  <2> QED BY <1>2, <2>1 DEF FetchStore
<1>3. ASSUME Answer, Granted PROVE peer \in Nodes /\ entry[peer].image \in Images
  <2>1. tPc = "stored" /\ tFound # None
    BY <1>3 DEF Answer, Granted
  <2> QED BY <2>1 DEF OneFetchAtATime, FetchIsCurrent
<1>4. CASE AnswerUpdate
  <2>1. peer \in Nodes /\ entry[peer].image \in Images
    BY <1>3, <1>4 DEF AnswerUpdate
  <2>2. tokens' \in 1..MaxTokens
    BY <1>4, BoundAssumption DEF AnswerUpdate
  <2>3. entry' \in [Nodes -> Entries]
    <3>1. tokens' \in 0..MaxTokens
      BY <2>2
    <3>2. [entry[peer] EXCEPT !.token = tokens'] \in Entries
      BY <2>1, <3>1 DEF Entries
    <3> QED BY <1>4, <2>1, <3>2 DEF AnswerUpdate
  <2>4. [image |-> entry[peer].image, token |-> tokens'] \in Offers
    BY <2>1, <2>2 DEF Offers
  <2>5. offer' \in [Nodes -> Offers \cup {None}]
    BY <1>4, <2>4 DEF AnswerUpdate
  <2>6. stage' \in [Nodes -> {"idle", "asked", "offered", "loading", "loaded",
                              "applying", "new"}]
    BY <1>4 DEF AnswerUpdate
  <2>7. tokens' \in 0..MaxTokens
    BY <2>2
  <2> QED BY <1>4, <2>1, <2>3, <2>5, <2>6, <2>7 DEF AnswerUpdate, Answer
<1>5. ASSUME Refuse
      PROVE  stage' \in [Nodes -> {"idle", "asked", "offered", "loading", "loaded",
                                   "applying", "new"}]
  BY <1>5 DEF Refuse
<1>6. CASE AnswerFailure
  <2>1. peer \in Nodes /\ entry[peer].image \in Images
    BY <1>3, <1>6 DEF AnswerFailure
  <2> QED BY <1>5, <1>6, <2>1 DEF AnswerFailure, Answer
<1>7. CASE AnswerBusy
  BY <1>5, <1>7 DEF AnswerBusy, Answer
<1>8. CASE AnswerNotAvailable
  BY <1>5, <1>8 DEF AnswerNotAvailable, Answer
<1> QED BY <1>1, <1>2, <1>4, <1>6, <1>7, <1>8 DEF CandidateTask

LEMMA TypeRequestor ==
    ASSUME TypeOK, OneFetchAtATime, HeldOffers, NEW n \in Nodes, Requestor(n)
    PROVE  TypeOK'
<1> USE DEF provider, query, sender, counters, slots
<1>1. ASSUME NEW p, stage' = [stage EXCEPT ![n] = p],
             p \in {"idle", "asked", "offered", "loading", "loaded", "applying", "new"}
      PROVE  stage' \in [Nodes -> {"idle", "asked", "offered", "loading", "loaded",
                                   "applying", "new"}]
  BY <1>1 DEF TypeOK
<1>2. CASE QueryImage(n)
  <2>1. [product |-> ProductOf[n], version |-> running[n]]
           \in [product : Products, version : 1..MaxVersion]
    BY NodeAssumption DEF TypeOK
  <2>2. queue' \in Seq([product : Products, version : 1..MaxVersion])
    BY <1>2, <2>1, AppendProperties DEF QueryImage, TypeOK
  <2> QED BY <1>1, <1>2, <2>2 DEF QueryImage, TypeOK
<1>3. CASE ReceiveInit(n)
  BY <1>1, <1>3, AbandonTypes DEF ReceiveInit, TypeOK
<1>4. CASE ApplyUpdateRequest(n)
  BY <1>1, <1>4, AbandonTypes DEF ApplyUpdateRequest, TypeOK
<1>5. CASE Install(n)
  <2>1. offer[n] \in Offers
    BY <1>5 DEF Install, HeldOffers, TypeOK
  <2>2. offer[n].image.version \in 1..MaxVersion
    BY <2>1 DEF Offers, Images
  <2> QED BY <1>1, <1>5, <2>2 DEF Install, TypeOK
<1>6. CASE NotifyUpdateApplied(n)
  <2>1. [entry[n] EXCEPT !.once = FALSE] \in Entries
    BY DEF Entries, TypeOK
  <2>2. entry' \in [Nodes -> Entries]
    BY <1>6, <2>1 DEF NotifyUpdateApplied, TypeOK
  <2> QED BY <1>6, <2>2, AbandonTypes DEF NotifyUpdateApplied, TypeOK
<1>7. CASE GiveUp(n)
  BY <1>7, AbandonTypes DEF GiveUp, TypeOK
<1> QED BY <1>2, <1>3, <1>4, <1>5, <1>6, <1>7 DEF Requestor

LEMMA TypeTransfer ==
    TypeOK /\ SenderIsOwned /\ (LoadImage \/ ResetSender \/ AbortTransfer) => TypeOK'
<1> SUFFICES ASSUME TypeOK, SenderIsOwned, LoadImage \/ ResetSender \/ AbortTransfer
             PROVE  TypeOK'
    OBVIOUS
<1> USE DEF TypeOK, provider, query, sender, counters, nodes, slots
<1>1. CASE LoadImage
  <2>1. stage' \in [Nodes -> {"idle", "asked", "offered", "loading", "loaded",
                              "applying", "new"}]
    BY <1>1 DEF LoadImage
  <2> QED BY <1>1, <2>1 DEF LoadImage
<1>2. CASE ResetSender
  BY <1>2 DEF ResetSender
<1>3. CASE AbortTransfer
  BY <1>3, AbandonTypes DEF AbortTransfer, SenderIsOwned
<1> QED BY <1>1, <1>2, <1>3

\* What the health gate and the bootloader do to a node is to confirm its image,
\* to go back and forget the update, or to leave it.
LEMMA GateSteps ==
    ASSUME NEW n \in Nodes, HealthGate(n)
    PROVE  /\ UNCHANGED <<provider, query, sender, counters, fallback>>
           /\ \/ Revert(n)
              \/ /\ UNCHANGED <<running, stage, offer>>
                 /\ \E b \in {"valid", "left"} : boot' = [boot EXCEPT ![n] = b]
BY DEF HealthGate, GateAttach, GateExpire, RequestorConfirm, PowerLoss, Confirm, RollBack

LEMMA TypeGate ==
    ASSUME TypeOK, NEW n \in Nodes, HealthGate(n)
    PROVE  TypeOK'
<1>1. /\ UNCHANGED <<provider, query, sender, counters, fallback>>
      /\ \/ Revert(n)
         \/ /\ UNCHANGED <<running, stage, offer>>
            /\ \E b \in {"valid", "left"} : boot' = [boot EXCEPT ![n] = b]
  BY GateSteps
<1>2. CASE Revert(n)
  <2>1. /\ running' \in [Nodes -> 1..MaxVersion]
        /\ boot' \in [Nodes -> {"valid", "waiting", "left"}]
    BY <1>2 DEF Revert, TypeOK
  <2>2. Abandon(n)
    BY <1>2 DEF Revert
  <2> QED
    BY <1>1, <2>1, <2>2, AbandonTypes DEF provider, query, sender, counters, TypeOK
<1>3. ASSUME NEW b \in {"valid", "left"}, boot' = [boot EXCEPT ![n] = b],
             UNCHANGED <<running, stage, offer>>
      PROVE  TypeOK'
  BY <1>1, <1>3 DEF provider, query, sender, counters, TypeOK
<1> QED BY <1>1, <1>2, <1>3

LEMMA TypeReboot == TypeOK /\ ControllerReboot => TypeOK'
<1> SUFFICES ASSUME TypeOK, ControllerReboot PROVE TypeOK'
    OBVIOUS
<1>1. entry' \in [Nodes -> Entries]
  BY BoundAssumption DEF ControllerReboot, Entries, Blank
<1>2. queue' \in Seq([product : Products, version : 1..MaxVersion])
  BY EmptySeq DEF ControllerReboot
<1>3. cBoots' \in 0..MaxBoots
  BY BoundAssumption DEF ControllerReboot, TypeOK
<1> QED BY <1>1, <1>2, <1>3 DEF ControllerReboot, TypeOK, nodes, slots

LEMMA TypeStep == IInv /\ [Next]_vars => TypeOK'
<1> SUFFICES ASSUME IInv, [Next]_vars PROVE TypeOK'
    OBVIOUS
<1>1. CASE UNCHANGED vars
  BY <1>1 DEF vars, provider, query, sender, counters, nodes, slots, IInv, TypeOK
<1> QED
  BY <1>1, TypeConsole, TypeCandidateTask, TypeRequestor, TypeTransfer, TypeGate,
     TypeReboot DEF Next, IInv

-----------------------------------------------------------------------------
(* Steps that leave the open query alone *)

\* What such a step may do to a node: nothing, end its update, or bring it
\* forward with the offer it holds.
Still(n) == stage'[n] = stage[n] /\ offer'[n] = offer[n] /\ running'[n] = running[n]
Ends(n)  == stage'[n] = "idle" /\ offer'[n] = None
Goes(n)  ==
    /\ stage[n]  \in {"offered", "loading", "loaded", "applying"}
    /\ stage'[n] \in {"loading", "loaded", "applying", "new"}
    /\ offer'[n] = offer[n]
    /\ stage'[n] # "new" => running'[n] = running[n]

\* Nothing an answer or a confirmation depends on changes at the provider.
Quiet ==
    /\ UNCHANGED <<query, counters>>
    /\ \A n \in Nodes : Still(n) \/ Ends(n) \/ Goes(n)
    /\ \A n \in Nodes :
          entry'[n].image = entry[n].image /\ entry'[n].token = entry[n].token

LEMMA AbandonIsQuiet ==
    ASSUME TypeOK, NEW n \in Nodes, Abandon(n),
           \A m \in Nodes \ {n} : running'[m] = running[m]
    PROVE  \A m \in Nodes : Still(m) \/ Ends(m) \/ Goes(m)
BY DEF TypeOK, Abandon, Still, Ends

LEMMA QuietConsole == TypeOK /\ Console => Quiet
<1> SUFFICES ASSUME TypeOK, Console PROVE Quiet
    OBVIOUS
<1>1. UNCHANGED <<query, counters, nodes>>
  BY DEF Console, SetImage, Enable, Disable, GrantAccess
<1>2. \A n \in Nodes : Still(n)
  BY <1>1 DEF nodes, slots, Still
<1>3. ASSUME UNCHANGED entry PROVE Quiet
  BY <1>1, <1>2, <1>3 DEF Quiet
<1>4. \A n \in Nodes : entry[n] \in [allowed : BOOLEAN, once : BOOLEAN,
                                     image : Images \cup {None}, token : 0..MaxTokens]
  BY DEF TypeOK, Entries
<1>5. ASSUME NEW p \in Permits, Enable(p[1], p[2]) PROVE Quiet
  BY <1>1, <1>2, <1>4, <1>5 DEF Enable, Quiet, TypeOK
<1>6. ASSUME NEW n \in Nodes, Disable(n) PROVE Quiet
  BY <1>1, <1>2, <1>4, <1>6 DEF Disable, Quiet, TypeOK
<1> QED BY <1>3, <1>5, <1>6 DEF Console, SetImage, GrantAccess

LEMMA QuietRequestor ==
    ASSUME TypeOK, NEW n \in Nodes, Requestor(n), ~QueryImage(n)
    PROVE  Quiet
<1> USE DEF provider, query, counters, slots
<1>1. ASSUME NEW p \in {"loading", "loaded", "applying", "new"},
             stage[n] \in {"offered", "loading", "loaded", "applying"},
             stage' = [stage EXCEPT ![n] = p], UNCHANGED offer,
             \A m \in Nodes \ {n} : running'[m] = running[m],
             p # "new" => running' = running
      PROVE  \A m \in Nodes : Still(m) \/ Ends(m) \/ Goes(m)
  BY <1>1 DEF TypeOK, Still, Goes
<1>2. CASE ReceiveInit(n)
  <2>1. CASE UNCHANGED <<stage, offer>>
    BY <1>2, <2>1 DEF ReceiveInit, Quiet, Still
  <2>2. CASE ~UNCHANGED <<stage, offer>>
    BY <1>1, <1>2, <2>2, AbandonIsQuiet DEF ReceiveInit, Quiet
  <2> QED BY <2>1, <2>2
<1>3. CASE ApplyUpdateRequest(n)
  BY <1>1, <1>3, AbandonIsQuiet DEF ApplyUpdateRequest, Quiet
<1>4. CASE Install(n)
  <2>1. \A m \in Nodes \ {n} : running'[m] = running[m]
    BY <1>4 DEF Install, TypeOK
  <2>2. \A m \in Nodes : Still(m) \/ Ends(m) \/ Goes(m)
    BY <1>1, <1>4, <2>1 DEF Install
  <2> QED BY <1>4, <2>2 DEF Install, Quiet
<1>5. CASE NotifyUpdateApplied(n)
  <2>1. entry' = entry \/ entry' = [entry EXCEPT ![n] = [entry[n] EXCEPT !.once = FALSE]]
    BY <1>5 DEF NotifyUpdateApplied
  <2>2. LET e == [entry[n] EXCEPT !.once = FALSE]
        IN  e.image = entry[n].image /\ e.token = entry[n].token
    BY DEF TypeOK, Entries
  <2>3. \A m \in Nodes : entry'[m].image = entry[m].image /\ entry'[m].token = entry[m].token
    BY <2>1, <2>2 DEF TypeOK
  <2> QED BY <1>5, <2>3, AbandonIsQuiet DEF NotifyUpdateApplied, Quiet
<1>6. CASE GiveUp(n)
  BY <1>6, AbandonIsQuiet DEF GiveUp, Quiet
<1> QED BY <1>2, <1>3, <1>4, <1>5, <1>6 DEF Requestor

LEMMA QuietTransfer ==
    TypeOK /\ SenderIsOwned /\ (LoadImage \/ ResetSender \/ AbortTransfer) => Quiet
<1> SUFFICES ASSUME TypeOK, SenderIsOwned, LoadImage \/ ResetSender \/ AbortTransfer
             PROVE  Quiet
    OBVIOUS
<1> USE DEF provider, query, counters, nodes, slots
<1>1. CASE LoadImage
  <2>1. /\ stage' = [stage EXCEPT ![client] = "loaded"]
        /\ stage[client] = "loading" /\ UNCHANGED <<offer, running>>
    BY <1>1 DEF LoadImage
  <2>2. \A m \in Nodes : Still(m) \/ Goes(m)
    BY <2>1 DEF TypeOK, Still, Goes
  <2> QED BY <1>1, <2>2 DEF LoadImage, Quiet
<1>2. CASE ResetSender
  BY <1>2 DEF ResetSender, Quiet, Still
<1>3. CASE AbortTransfer
  <2>1. client \in Nodes
    BY <1>3 DEF AbortTransfer, SenderIsOwned
  <2> QED BY <1>3, <2>1, AbandonIsQuiet DEF AbortTransfer, Quiet
<1> QED BY <1>1, <1>2, <1>3

LEMMA QuietGate ==
    ASSUME TypeOK, NEW n \in Nodes, HealthGate(n)
    PROVE  Quiet
<1>1. /\ UNCHANGED <<provider, query, sender, counters, fallback>>
      /\ \/ Revert(n)
         \/ UNCHANGED <<running, stage, offer>>
  BY GateSteps
<1>2. CASE Revert(n)
  <2>1. \A m \in Nodes \ {n} : running'[m] = running[m]
    BY <1>2 DEF Revert, TypeOK
  <2> QED BY <1>1, <1>2, <2>1, AbandonIsQuiet DEF Revert, Quiet, provider
<1>3. CASE UNCHANGED <<running, stage, offer>>
  BY <1>1, <1>3 DEF Quiet, Still, provider
<1> QED BY <1>1, <1>2, <1>3

\* A quiet step keeps everything the invariant says about the open query, the
\* offers and the entries they are checked against.
LEMMA QuietKeeps ==
    ASSUME TypeOK, OneFetchAtATime, HandleIsOpen, FetchIsCurrent,
           HeldOffers, OffersAreUpgrades, OffersStand, Quiet
    PROVE  /\ OneFetchAtATime' /\ HandleIsOpen' /\ FetchIsCurrent'
           /\ HeldOffers' /\ OffersAreUpgrades' /\ OffersStand'
<1>1. /\ handle' = handle /\ peer' = peer /\ queue' = queue
      /\ tPc' = tPc /\ tFound' = tFound /\ cBoots' = cBoots
  BY DEF Quiet, query, counters
<1>2. OneFetchAtATime'
  BY <1>1 DEF OneFetchAtATime
<1>3. handle # None => peer \in Nodes
  BY DEF TypeOK, HandleIsOpen
<1>4. ASSUME handle # None
      PROVE  /\ stage'[peer] \in {"idle", "asked"}
             /\ stage'[peer] = "asked" => stage[peer] = "asked" /\ running'[peer] = running[peer]
             /\ entry'[peer].image = entry[peer].image
  <2>1. stage[peer] \in {"idle", "asked"}
    BY <1>4 DEF HandleIsOpen
  <2>2. Still(peer) \/ Ends(peer)
    BY <1>3, <1>4, <2>1 DEF Quiet, Goes
  <2> QED BY <1>3, <1>4, <2>1, <2>2 DEF Quiet, Still, Ends
<1>5. HandleIsOpen'
  BY <1>1, <1>4 DEF HandleIsOpen
<1>6. (queue # <<>> => handle # None) /\ (tPc # "wait" => handle # None)
  BY DEF OneFetchAtATime
<1>7. tFound # None => tPc # "wait"
  BY DEF FetchIsCurrent
<1>8. FetchIsCurrent'
  BY <1>1, <1>4, <1>6, <1>7 DEF FetchIsCurrent
<1>9. ASSUME NEW n \in Nodes
      PROVE  /\ offer'[n] = None <=> stage'[n] \in {"idle", "asked"}
             /\ stage'[n] \in {"offered", "loading", "loaded", "applying"} =>
                   /\ offer'[n].image.product = ProductOf[n]
                   /\ offer'[n].image.version > running'[n]
             /\ cBoots' = 0 /\ offer'[n] # None => Confirms(n)'
  <2>1. CASE Still(n)
    BY <1>1, <2>1 DEF Still, Quiet, HeldOffers, OffersAreUpgrades, OffersStand, Confirms
  <2>2. CASE Ends(n)
    BY <2>2 DEF Ends
  <2>3. CASE Goes(n)
    BY <1>1, <2>3 DEF Goes, Quiet, HeldOffers, OffersAreUpgrades, OffersStand, Confirms
  <2> QED BY <2>1, <2>2, <2>3 DEF Quiet
<1> QED
  BY <1>2, <1>5, <1>8, <1>9 DEF HeldOffers, OffersAreUpgrades, OffersStand

-----------------------------------------------------------------------------
(* Steps of a query, from the handler to the answer *)

QueryInv ==
    /\ OneFetchAtATime /\ HandleIsOpen /\ FetchIsCurrent
    /\ HeldOffers /\ OffersAreUpgrades /\ OffersStand

LEMMA QueryInit == Init => QueryInv
<1> SUFFICES ASSUME Init PROVE QueryInv
    OBVIOUS
<1> QED
  BY DEF Init, QueryInv, OneFetchAtATime, HandleIsOpen, FetchIsCurrent, HeldOffers,
         OffersAreUpgrades, OffersStand

LEMMA AskStep ==
    ASSUME TypeOK, QueryInv, NEW n \in Nodes, QueryImage(n)
    PROVE  QueryInv'
<1> USE DEF QueryInv
<1> DEFINE q == [product |-> ProductOf[n], version |-> running[n]]
<1>1. n # None
  BY NodeAssumption
<1>2. /\ handle' = n /\ peer' = n /\ tPc' = tPc /\ tFound' = tFound
      /\ queue' = Append(queue, q) /\ cBoots' = cBoots
      /\ UNCHANGED <<entry, offer, running>>
  BY DEF QueryImage, counters, slots, provider
<1>3. queue = <<>> /\ tPc = "wait" /\ tFound = None
  BY DEF QueryImage, OneFetchAtATime, FetchIsCurrent
<1>4. queue' = <<q>> /\ Len(queue') = 1 /\ Head(queue') = q
  BY <1>2, <1>3
<1>5. /\ stage'[n] = "asked" /\ stage[n] = "idle"
      /\ \A m \in Nodes \ {n} : stage'[m] = stage[m]
  BY DEF QueryImage, TypeOK
<1>6. OneFetchAtATime'
  BY <1>1, <1>2, <1>3, <1>4 DEF OneFetchAtATime
<1>7. HandleIsOpen' /\ FetchIsCurrent'
  BY <1>2, <1>3, <1>4, <1>5 DEF HandleIsOpen, FetchIsCurrent
<1>8. HeldOffers' /\ OffersAreUpgrades'
  BY <1>2, <1>5 DEF HeldOffers, OffersAreUpgrades
<1>9. OffersStand'
  BY <1>2 DEF OffersStand, Confirms
<1> QED BY <1>6, <1>7, <1>8, <1>9

LEMMA LookupStep == TypeOK /\ QueryInv /\ FetchLookup => QueryInv'
<1> SUFFICES ASSUME TypeOK, QueryInv, FetchLookup PROVE QueryInv'
    OBVIOUS
<1> USE DEF QueryInv
<1>1. /\ handle' = handle /\ peer' = peer /\ cBoots' = cBoots /\ tPc' = "found"
      /\ UNCHANGED <<entry, offer, running, stage>>
  BY DEF FetchLookup, counters, nodes, slots, provider
<1>2. queue # <<>> /\ Len(queue) = 1 /\ handle = peer /\ handle # None
  BY DEF FetchLookup, OneFetchAtATime
<1>3. queue' = <<>>
  <2>1. Len(queue') = 0 /\ queue' \in Seq([product : Products, version : 1..MaxVersion])
    BY <1>2, HeadTailProperties DEF FetchLookup, TypeOK
  <2> QED BY <2>1, EmptySeq
<1>4. tFound' # None => tFound'.product = Head(queue).product
                        /\ tFound'.version > Head(queue).version
  BY ApplicableIsStaged DEF FetchLookup
<1>5. OneFetchAtATime' /\ HandleIsOpen'
  BY <1>1, <1>2, <1>3, <1>4 DEF OneFetchAtATime, HandleIsOpen, FetchIsCurrent
<1>6. FetchIsCurrent'
  BY <1>1, <1>2, <1>3, <1>4 DEF FetchIsCurrent
<1>7. HeldOffers' /\ OffersAreUpgrades' /\ OffersStand'
  BY <1>1 DEF HeldOffers, OffersAreUpgrades, OffersStand, Confirms
<1> QED BY <1>5, <1>6, <1>7

\* The entry written belongs to the node whose query is open, which has no offer
\* to be checked against it.
LEMMA StoreStep == TypeOK /\ QueryInv /\ FetchStore => QueryInv'
<1> SUFFICES ASSUME TypeOK, QueryInv, FetchStore PROVE QueryInv'
    OBVIOUS
<1> USE DEF QueryInv
<1>1. /\ handle' = handle /\ peer' = peer /\ cBoots' = cBoots /\ tPc' = "stored"
      /\ queue' = queue /\ tFound' = tFound
      /\ UNCHANGED <<offer, running, stage>>
  BY DEF FetchStore, counters, nodes, slots
<1>2. tPc # "wait" /\ handle = peer /\ handle # None /\ peer \in Nodes
  BY DEF FetchStore, OneFetchAtATime, TypeOK
<1>3. /\ tFound # None => entry'[peer].image = tFound
      /\ \A n \in Nodes \ {peer} : entry'[n] = entry[n]
  <2>1. CASE tFound = None
    BY <2>1 DEF FetchStore
  <2>2. CASE tFound # None
    <3>1. entry' = [entry EXCEPT ![peer] = [entry[peer] EXCEPT !.image = tFound]]
      BY <2>2 DEF FetchStore
    <3>2. [entry[peer] EXCEPT !.image = tFound].image = tFound
      BY <1>2 DEF TypeOK, Entries
    <3> QED BY <1>2, <3>1, <3>2 DEF TypeOK
  <2> QED BY <2>1, <2>2
<1>4. OneFetchAtATime' /\ HandleIsOpen'
  BY <1>1, <1>2 DEF OneFetchAtATime, HandleIsOpen
<1>5. FetchIsCurrent'
  BY <1>1, <1>2, <1>3 DEF FetchIsCurrent, OneFetchAtATime
<1>6. HeldOffers' /\ OffersAreUpgrades'
  BY <1>1 DEF HeldOffers, OffersAreUpgrades
<1>7. offer[peer] = None
  BY <1>2 DEF HeldOffers, HandleIsOpen
<1>8. OffersStand'
  BY <1>1, <1>3, <1>7 DEF OffersStand, Confirms
<1> QED BY <1>4, <1>5, <1>6, <1>8

\* The answer goes to the node the handle was held for; an offer is newer than
\* what the node runs because the node has not changed while it waited.
LEMMA AnswerStep ==
    ASSUME TypeOK, TypeOK', QueryInv,
           AnswerUpdate \/ AnswerFailure \/ AnswerBusy \/ AnswerNotAvailable
    PROVE  QueryInv'
<1> USE DEF QueryInv
<1>1. /\ tPc = "stored" /\ handle = peer /\ handle' = None /\ tPc' = "wait"
      /\ tFound' = None /\ queue' = queue /\ peer' = peer /\ cBoots' = cBoots
      /\ UNCHANGED running
  BY DEF AnswerUpdate, AnswerFailure, AnswerBusy, AnswerNotAvailable, Answer, slots
<1>2. peer \in Nodes /\ queue = <<>>
  BY <1>1 DEF OneFetchAtATime, TypeOK
<1>3. stage[peer] \in {"idle", "asked"} /\ offer[peer] = None
  BY <1>1, <1>2 DEF HandleIsOpen, HeldOffers, OneFetchAtATime
<1>4. OneFetchAtATime' /\ HandleIsOpen' /\ FetchIsCurrent'
  BY <1>1, <1>2 DEF OneFetchAtATime, HandleIsOpen, FetchIsCurrent
<1>5. ASSUME Refuse, UNCHANGED <<entry, offer>>
      PROVE  HeldOffers' /\ OffersAreUpgrades' /\ OffersStand'
  <2>1. /\ stage'[peer] \in {"idle", "asked"}
        /\ \A n \in Nodes \ {peer} : stage'[n] = stage[n]
    BY <1>2, <1>3, <1>5 DEF Refuse, TypeOK
  <2>2. HeldOffers'
    BY <1>3, <1>5, <2>1 DEF HeldOffers
  <2>3. OffersAreUpgrades'
    BY <1>1, <1>5, <2>1 DEF OffersAreUpgrades
  <2>4. OffersStand'
    BY <1>1, <1>5 DEF OffersStand, Confirms
  <2> QED BY <2>2, <2>3, <2>4
<1>6. CASE AnswerUpdate
  <2>1. /\ entry[peer].image = tFound /\ tFound \in Images
        /\ tFound.product = ProductOf[peer]
        /\ stage[peer] = "asked" => tFound.version > running[peer]
    BY <1>1, <1>6 DEF AnswerUpdate, Granted, FetchIsCurrent, TypeOK
  <2>2. /\ entry'[peer].token = tokens' /\ entry'[peer].image = tFound
        /\ \A n \in Nodes \ {peer} : entry'[n] = entry[n]
    <3>1. entry' = [entry EXCEPT ![peer] = [entry[peer] EXCEPT !.token = tokens']]
      BY <1>6 DEF AnswerUpdate
    <3>2. LET e == [entry[peer] EXCEPT !.token = tokens']
          IN  e.token = tokens' /\ e.image = entry[peer].image
      BY <1>2 DEF TypeOK, Entries
    <3> QED BY <1>2, <2>1, <3>1, <3>2 DEF TypeOK
  <2>3. CASE UNCHANGED <<stage, offer>>
    <3>1. HeldOffers' /\ OffersAreUpgrades'
      BY <1>1, <2>3 DEF HeldOffers, OffersAreUpgrades
    <3>2. OffersStand'
      BY <1>1, <1>3, <2>2, <2>3 DEF OffersStand, Confirms
    <3> QED BY <1>4, <3>1, <3>2
  <2>4. CASE ~UNCHANGED <<stage, offer>>
    <3> DEFINE o == [image |-> tFound, token |-> tokens']
    <3>1. /\ stage[peer] = "asked" /\ stage' = [stage EXCEPT ![peer] = "offered"]
          /\ offer' = [offer EXCEPT ![peer] = o]
      BY <1>6, <2>1, <2>4 DEF AnswerUpdate
    <3>2. /\ stage'[peer] = "offered" /\ offer'[peer] = o
          /\ \A n \in Nodes \ {peer} : stage'[n] = stage[n] /\ offer'[n] = offer[n]
      BY <1>2, <3>1 DEF TypeOK
    <3>3. o # None /\ tFound # None
      <4>1. tokens \in 0..MaxTokens /\ tokens' = tokens + 1 /\ tokens < MaxTokens
        BY <1>6 DEF AnswerUpdate, TypeOK
      <4>2. o \in Offers
        BY <2>1, <4>1, BoundAssumption DEF Offers
      <4> QED BY <2>1, <4>2, NodeAssumption
    <3>4. HeldOffers'
      BY <3>2, <3>3 DEF HeldOffers
    <3>5. OffersAreUpgrades'
      BY <1>1, <2>1, <3>1, <3>2 DEF OffersAreUpgrades
    <3>6. OffersStand'
      BY <1>1, <2>2, <3>2, <3>3 DEF OffersStand, Confirms
    <3> QED BY <1>4, <3>4, <3>5, <3>6
  <2> QED BY <1>4, <2>3, <2>4
<1>7. CASE AnswerFailure
  BY <1>4, <1>5, <1>7 DEF AnswerFailure
<1>8. CASE AnswerBusy
  BY <1>4, <1>5, <1>8 DEF AnswerBusy
<1>9. CASE AnswerNotAvailable
  BY <1>4, <1>5, <1>9 DEF AnswerNotAvailable
<1> QED BY <1>6, <1>7, <1>8, <1>9

LEMMA ForgetStep == TypeOK /\ QueryInv /\ ControllerReboot => QueryInv'
<1> SUFFICES ASSUME TypeOK, QueryInv, ControllerReboot PROVE QueryInv'
    OBVIOUS
<1> USE DEF QueryInv
<1>1. cBoots' # 0
  BY BoundAssumption DEF ControllerReboot, TypeOK
<1>2. /\ handle' = None /\ queue' = <<>> /\ tPc' = "wait" /\ tFound' = None
      /\ UNCHANGED <<stage, offer, running>>
  BY DEF ControllerReboot, nodes, slots
<1> QED
  BY <1>1, <1>2 DEF OneFetchAtATime, HandleIsOpen, FetchIsCurrent, HeldOffers,
                    OffersAreUpgrades, OffersStand

LEMMA QueryStep == IInv /\ [Next]_vars => QueryInv'
<1> SUFFICES ASSUME IInv, [Next]_vars PROVE QueryInv'
    OBVIOUS
<1>1. TypeOK /\ QueryInv /\ SenderIsOwned
  BY DEF IInv, QueryInv
<1>2. TypeOK'
  BY TypeStep
<1>3. Quiet => QueryInv'
  BY <1>1, QuietKeeps DEF QueryInv
<1>4. CASE UNCHANGED vars
  BY <1>3, <1>4 DEF vars, provider, query, counters, nodes, slots, Quiet, Still
<1>5. CASE CandidateTask
  BY <1>1, <1>2, <1>5, LookupStep, StoreStep, AnswerStep DEF CandidateTask
<1>6. ASSUME NEW n \in Nodes, Requestor(n) PROVE QueryInv'
  BY <1>1, <1>3, <1>6, AskStep, QuietRequestor
<1>7. ASSUME NEW n \in Nodes, HealthGate(n) PROVE QueryInv'
  BY <1>1, <1>3, <1>7, QuietGate
<1> QED
  BY <1>1, <1>3, <1>4, <1>5, <1>6, <1>7, QuietConsole, QuietTransfer, ForgetStep
     DEF Next

-----------------------------------------------------------------------------
(* The sender *)

SenderInv == SenderIsOwned /\ OfferIsPrepared /\ StreamsTheOffer

\* No node comes to hold an unopened offer, or to load, by this step.
NobodyOpens ==
    \A n \in Nodes : stage'[n] \in {"offered", "loading"} =>
        stage'[n] = stage[n] /\ offer'[n] = offer[n]

LEMMA SenderInit == Init => SenderInv
BY DEF Init, SenderInv, SenderIsOwned, OfferIsPrepared, StreamsTheOffer

LEMMA NobodyOpensKeeps ==
    SenderInv /\ UNCHANGED <<sender, cBoots>> /\ NobodyOpens => SenderInv'
<1> SUFFICES ASSUME SenderInv, UNCHANGED <<sender, cBoots>>, NobodyOpens
             PROVE  SenderInv'
    OBVIOUS
<1> USE DEF SenderInv, sender
<1>1. SenderIsOwned'
  BY DEF SenderIsOwned
<1>2. OfferIsPrepared'
  BY DEF OfferIsPrepared, NobodyOpens
<1>3. StreamsTheOffer'
  BY DEF StreamsTheOffer, SenderIsOwned, NobodyOpens
<1> QED BY <1>1, <1>2, <1>3

\* A step that ends an update or brings it past loading opens nothing.
LEMMA AbandonOpensNothing ==
    ASSUME TypeOK, NEW n \in Nodes, Abandon(n)
    PROVE  NobodyOpens
BY DEF TypeOK, Abandon, NobodyOpens

LEMMA StageOpensNothing ==
    ASSUME TypeOK, NEW n \in Nodes, NEW p, p \notin {"offered", "loading"},
           stage' = [stage EXCEPT ![n] = p], UNCHANGED offer
    PROVE  NobodyOpens
BY DEF TypeOK, NobodyOpens

\* Only the owner of a prepared session can hold an unopened offer, so while the
\* controller keeps running it is the owner who opens it.
LEMMA OpenStep ==
    ASSUME TypeOK, SenderInv, NEW n \in Nodes, ReceiveInit(n)
    PROVE  SenderInv'
<1> USE DEF SenderInv
<1>1. /\ stage[n] = "offered" /\ session = "prepared"
      /\ owner' = owner /\ image' = image /\ cBoots' = cBoots
  BY DEF ReceiveInit, counters
<1>2. owner \in Nodes
  BY <1>1 DEF SenderIsOwned
<1>3. cBoots = 0 => owner = n /\ image = offer[n].image
        /\ \A m \in Nodes \ {n} : stage[m] # "offered"
  BY <1>1 DEF OfferIsPrepared
<1>4. CASE stage' = [stage EXCEPT ![n] = "loading"] /\ UNCHANGED offer
           /\ session' = "sending" /\ client' = n
  <2>1. stage'[n] = "loading" /\ \A m \in Nodes \ {n} : stage'[m] = stage[m]
    BY <1>4 DEF TypeOK
  <2>2. SenderIsOwned'
    BY <1>1, <1>2, <1>4 DEF SenderIsOwned
  <2>3. OfferIsPrepared'
    BY <1>1, <1>3, <2>1 DEF OfferIsPrepared
  <2>4. StreamsTheOffer'
    BY <1>1, <1>3, <1>4 DEF StreamsTheOffer
  <2> QED BY <2>2, <2>3, <2>4
<1>5. CASE session' = "aborted" /\ UNCHANGED client /\ Abandon(n)
  <2>1. stage'[n] = "idle" /\ \A m \in Nodes \ {n} : stage'[m] = stage[m]
    BY <1>5 DEF Abandon, TypeOK
  <2>2. SenderIsOwned' /\ StreamsTheOffer'
    BY <1>1, <1>2, <1>5 DEF SenderIsOwned, StreamsTheOffer
  <2>3. OfferIsPrepared'
    BY <1>1, <1>3, <2>1 DEF OfferIsPrepared
  <2> QED BY <2>2, <2>3
<1>6. CASE session' = "aborted" /\ UNCHANGED client /\ UNCHANGED <<stage, offer>>
  <2>1. SenderIsOwned' /\ StreamsTheOffer'
    BY <1>1, <1>2, <1>6 DEF SenderIsOwned, StreamsTheOffer
  <2>2. OfferIsPrepared'
    BY <1>1, <1>3, <1>6 DEF OfferIsPrepared
  <2> QED BY <2>1, <2>2
<1> QED BY <1>4, <1>5, <1>6 DEF ReceiveInit

\* The end of a transfer, or its failure, leaves no unopened offer behind.
LEMMA EndStep ==
    ASSUME TypeOK, SenderInv, ResetSender \/ AbortTransfer
    PROVE  SenderInv'
<1> USE DEF SenderInv
<1>1. session = "sending" /\ session' \in {"idle", "aborted"} /\ cBoots' = cBoots
  BY DEF ResetSender, AbortTransfer, counters
<1>2. \A n \in Nodes : stage'[n] = "offered" => stage[n] = "offered"
  <2>1. CASE ResetSender
    BY <2>1 DEF ResetSender, nodes
  <2>2. CASE AbortTransfer
    BY <2>2, <1>1 DEF AbortTransfer, Abandon, SenderIsOwned, TypeOK
  <2> QED BY <2>1, <2>2
<1>3. SenderIsOwned' /\ StreamsTheOffer'
  BY <1>1 DEF ResetSender, AbortTransfer, SenderIsOwned, StreamsTheOffer
<1>4. OfferIsPrepared'
  BY <1>1, <1>2 DEF OfferIsPrepared
<1> QED BY <1>3, <1>4

\* An answer takes the sender only for the node it answers, when no other node
\* owns it; while the controller keeps running nobody else can then hold an
\* unopened offer.
LEMMA OfferStep ==
    ASSUME TypeOK, QueryInv, SenderInv, AnswerUpdate \/ AnswerFailure
    PROVE  SenderInv'
<1> USE DEF SenderInv
<1>1. /\ handle = peer /\ tPc = "stored" /\ owner' = peer /\ client' = None
      /\ session' \in {"prepared", "idle"} /\ cBoots' = cBoots
      /\ owner \in {None, peer} /\ image' = entry[peer].image
  BY DEF AnswerUpdate, AnswerFailure, Answer, SenderFree
<1>2. peer \in Nodes /\ stage[peer] \in {"idle", "asked"}
  BY <1>1 DEF QueryInv, OneFetchAtATime, HandleIsOpen, TypeOK
<1>3. \A n \in Nodes : cBoots = 0 => stage[n] # "offered"
  BY <1>1, <1>2, NodeAssumption DEF OfferIsPrepared
<1>4. SenderIsOwned' /\ StreamsTheOffer'
  BY <1>1, <1>2 DEF SenderIsOwned, StreamsTheOffer
<1>5. CASE AnswerUpdate
  <2>1. session' = "prepared"
    BY <1>5 DEF AnswerUpdate
  <2>2. CASE UNCHANGED <<stage, offer>>
    BY <1>1, <1>3, <1>4, <2>2 DEF OfferIsPrepared
  <2>3. CASE ~UNCHANGED <<stage, offer>>
    <3>1. /\ \A n \in Nodes \ {peer} : stage'[n] = stage[n]
          /\ offer'[peer].image = entry[peer].image
      BY <1>2, <1>5, <2>3 DEF AnswerUpdate, TypeOK
    <3> QED BY <1>1, <1>3, <1>4, <2>1, <3>1 DEF OfferIsPrepared
  <2> QED BY <2>2, <2>3
<1>6. CASE AnswerFailure
  <2>1. \A n \in Nodes : stage'[n] = "offered" => stage[n] = "offered"
    BY <1>2, <1>6 DEF AnswerFailure, Refuse, TypeOK
  <2> QED BY <1>1, <1>3, <1>4, <2>1 DEF OfferIsPrepared
<1> QED BY <1>5, <1>6

LEMMA SenderStep == IInv /\ [Next]_vars => SenderInv'
<1> SUFFICES ASSUME IInv, [Next]_vars PROVE SenderInv'
    OBVIOUS
<1>1. TypeOK /\ QueryInv /\ SenderInv
  BY DEF IInv, QueryInv, SenderInv
<1> USE <1>1, NobodyOpensKeeps DEF counters
<1>2. CASE Console \/ FetchLookup \/ FetchStore \/ UNCHANGED vars
  BY <1>2 DEF Console, SetImage, Enable, Disable, GrantAccess, FetchLookup, FetchStore,
              vars, nodes, NobodyOpens
<1>3. CASE AnswerUpdate \/ AnswerFailure
  BY <1>3, OfferStep
<1>4. CASE AnswerBusy \/ AnswerNotAvailable
  <2>1. NobodyOpens
    BY <1>4 DEF AnswerBusy, AnswerNotAvailable, Refuse, TypeOK, NobodyOpens
  <2> QED BY <1>4, <2>1 DEF AnswerBusy, AnswerNotAvailable, Answer
<1>5. ASSUME NEW n \in Nodes, Requestor(n) PROVE SenderInv'
  <2>1. CASE QueryImage(n)
    BY <2>1, StageOpensNothing DEF QueryImage
  <2>2. CASE ReceiveInit(n)
    BY <2>2, OpenStep
  <2>3. CASE ApplyUpdateRequest(n)
    BY <2>3, StageOpensNothing, AbandonOpensNothing DEF ApplyUpdateRequest
  <2>4. CASE Install(n)
    BY <2>4, StageOpensNothing DEF Install
  <2>5. CASE NotifyUpdateApplied(n)
    BY <2>5, AbandonOpensNothing DEF NotifyUpdateApplied
  <2>6. CASE GiveUp(n)
    BY <2>6, AbandonOpensNothing DEF GiveUp
  <2> QED BY <1>5, <2>1, <2>2, <2>3, <2>4, <2>5, <2>6 DEF Requestor
<1>6. ASSUME NEW n \in Nodes, HealthGate(n) PROVE SenderInv'
  <2>1. UNCHANGED <<sender, cBoots>>
    BY <1>6, GateSteps
  <2>2. NobodyOpens
    BY <1>6, GateSteps, AbandonOpensNothing DEF Revert, NobodyOpens
  <2> QED BY <2>1, <2>2
<1>7. CASE LoadImage
  <2>1. NobodyOpens
    BY <1>7 DEF LoadImage, TypeOK, NobodyOpens
  <2> QED BY <1>7, <2>1 DEF LoadImage
<1>8. CASE ResetSender \/ AbortTransfer
  BY <1>8, EndStep
<1>9. CASE ControllerReboot
  <2>1. cBoots' # 0
    BY <1>9, BoundAssumption DEF ControllerReboot, TypeOK
  <2> QED
    BY <1>9, <2>1 DEF ControllerReboot, SenderInv, SenderIsOwned, OfferIsPrepared,
                      StreamsTheOffer
<1> QED
  BY <1>2, <1>3, <1>4, <1>5, <1>6, <1>7, <1>8, <1>9 DEF Next, CandidateTask

-----------------------------------------------------------------------------
(* The invariant, and what follows from it *)

LEMMA InvAlways == Spec => []IInv
<1>1. Init => IInv
  BY TypeInit, QueryInit, SenderInit DEF QueryInv, SenderInv, IInv
<1>2. IInv /\ [Next]_vars => IInv'
  BY TypeStep, QueryStep, SenderStep DEF QueryInv, SenderInv, IInv
<1> QED BY <1>1, <1>2, PTL DEF Spec

\* Types: in particular every offer a node holds names a staged image, and the
\* cache never has two candidates for a product.
THEOREM Typed == Spec => []TypeOK
BY InvAlways, PTL DEF IInv

\* The candidate task works for one node at a time, and its queue holds at most
\* one query: what was looked up and stored is for the node that is answered.
THEOREM OneFetch == Spec => []OneFetchAtATime
BY InvAlways, PTL DEF IInv

\* Whatever the console stages, enables or disables while a query is looked up,
\* and however nodes give up, roll back or ask again, an offer is an upgrade.
THEOREM OffersUpgrade == Spec => []OffersAreUpgrades
BY InvAlways, PTL DEF IInv

\* As long as the controller runs, what is streamed to a node is what it was
\* offered.
THEOREM OfferIsStreamed == Spec => []StreamsTheOffer
BY InvAlways, PTL DEF IInv

\* As long as the controller runs, the update a node holds stays confirmable.
THEOREM OffersStay == Spec => []OffersStand
BY InvAlways, PTL DEF IInv

\* A transfer under way is never taken over by a later answer.
THEOREM TransfersFinish == Spec => NoTakeover
<1>1. IInv /\ [Next]_vars => [session = "sending" /\ owner' # owner => owner' = None]_vars
  <2> SUFFICES ASSUME IInv, Next, session = "sending", owner' # owner
               PROVE  owner' = None
    BY DEF vars
  <2>1. owner \in Nodes /\ owner # None
    BY NodeAssumption DEF IInv, SenderIsOwned
  <2>2. CASE Console
    BY <2>2 DEF Console, SetImage, Enable, Disable, GrantAccess, sender
  <2>3. CASE CandidateTask
    BY <2>1, <2>3 DEF CandidateTask, FetchLookup, FetchStore, AnswerUpdate,
                      AnswerFailure, AnswerBusy, AnswerNotAvailable, SenderFree, sender
  <2>4. ASSUME NEW n \in Nodes, Requestor(n) PROVE FALSE
    BY <2>4 DEF Requestor, QueryImage, ReceiveInit, ApplyUpdateRequest, Install,
                NotifyUpdateApplied, GiveUp, sender
  <2>5. ASSUME NEW n \in Nodes, HealthGate(n) PROVE FALSE
    BY <2>5, GateSteps DEF sender
  <2>6. CASE LoadImage \/ ResetSender \/ AbortTransfer \/ ControllerReboot
    BY <2>6 DEF LoadImage, ResetSender, AbortTransfer, ControllerReboot, sender
  <2> QED BY <2>2, <2>3, <2>4, <2>5, <2>6 DEF Next
<1> QED BY <1>1, InvAlways, PTL DEF Spec, NoTakeover

-----------------------------------------------------------------------------
(* The access control list *)

\* The entry the console writes passes its own test, for its own node.
LEMMA OtaEntryAllows ==
    ASSUME NEW n
    PROVE  ota_acl_entry_allows_node(OtaEntry(n), n)
<1> DEFINE t == [endpoint |-> "provider", cluster |-> "ota", device |-> Open]
<1>1. target_matches_ota_provider(t)
  BY DEF target_matches_ota_provider, Open
<1> QED
  BY <1>1 DEF ota_acl_entry_allows_node, OtaEntry, privilege_allows_operate

\* What the console's test lets through, the stack's check lets through.
LEMMA TestIsSound ==
    ASSUME NEW list, NEW i \in DOMAIN list, NEW n, ota_acl_entry_allows_node(list[i], n)
    PROVE  Reaches(list, n)
BY DEF ota_acl_entry_allows_node, target_matches_ota_provider, Reaches, Open

\* Entries of ours are told apart by their node.
LEMMA OtaEntryNames ==
    ASSUME NEW n, NEW m, OtaEntry(n) = OtaEntry(m)
    PROVE  n = m
<1>1. OtaEntry(n).subjects = {n} /\ OtaEntry(m).subjects = {m}
  BY DEF OtaEntry
<1> QED BY <1>1

LEMMA GrantStep == TypeOK /\ OneGrant /\ [Next]_vars => OneGrant'
<1> SUFFICES ASSUME TypeOK, OneGrant, [Next]_vars PROVE OneGrant'
    OBVIOUS
<1>1. CASE UNCHANGED acl
  BY <1>1 DEF OneGrant
<1>2. ASSUME NEW n \in Nodes, GrantAccess(n) PROVE OneGrant'
  <2>1. /\ DOMAIN acl = 1..Len(acl) /\ Len(acl) \in Nat
        /\ \A i \in DOMAIN acl : acl[i] # OtaEntry(n)
    BY <1>2, LenProperties, OtaEntryAllows DEF GrantAccess, TypeOK
  <2>2. OtaEntry(n) \in AclEntries(Subjects)
    BY AccessAssumption DEF OtaEntry, AclEntries, Privileges, Targets, Open
  <2>3. /\ acl' \in Seq(AclEntries(Subjects)) /\ Len(acl') = Len(acl) + 1
        /\ \A i \in 1..Len(acl) : acl'[i] = acl[i]
        /\ acl'[Len(acl) + 1] = OtaEntry(n)
    BY <1>2, <2>2, AppendProperties DEF GrantAccess, TypeOK
  <2>4. DOMAIN acl' = 1..(Len(acl) + 1)
    BY <2>3, LenProperties
  <2> SUFFICES ASSUME NEW m \in Nodes, NEW i \in DOMAIN acl', NEW j \in DOMAIN acl',
                      acl'[i] = OtaEntry(m), acl'[j] = OtaEntry(m)
               PROVE  i = j
    BY DEF OneGrant
  <2>5. CASE m = n
    <3>1. ASSUME NEW k \in DOMAIN acl', acl'[k] = OtaEntry(n) PROVE k = Len(acl) + 1
      BY <2>1, <2>3, <2>4, <3>1
    <3> QED BY <2>5, <3>1
  <2>6. CASE m # n
    <3>1. ASSUME NEW k \in DOMAIN acl', acl'[k] = OtaEntry(m)
          PROVE  k \in DOMAIN acl /\ acl[k] = OtaEntry(m)
      BY <2>1, <2>3, <2>4, <2>6, <3>1, OtaEntryNames
    <3> QED BY <3>1 DEF OneGrant
  <2> QED BY <2>5, <2>6
<1>3. ASSUME NEW n \in Nodes, HealthGate(n) PROVE UNCHANGED acl
  BY <1>3, GateSteps DEF provider
<1> QED
  BY <1>1, <1>2, <1>3
     DEF Next, Console, SetImage, Enable, Disable, CandidateTask, FetchLookup, FetchStore,
         AnswerUpdate, AnswerFailure, AnswerBusy, AnswerNotAvailable, Answer, Requestor,
         QueryImage, ReceiveInit, ApplyUpdateRequest, Install, NotifyUpdateApplied,
         GiveUp, LoadImage, ResetSender, AbortTransfer, ControllerReboot, vars, provider

\* Whatever entries others wrote, a node the console command is content with does
\* reach the provider, and the command takes at most one entry a node.
THEOREM GrantsGive == Spec => []GrantMeansAccess
<1>1. TypeOK /\ OneGrant => GrantMeansAccess
  <2> SUFFICES ASSUME TypeOK, OneGrant, NEW n \in Nodes
               PROVE  Cardinality({i \in DOMAIN acl : acl[i] = OtaEntry(n)}) <= 1
    BY TestIsSound DEF GrantMeansAccess
  <2> DEFINE Ours == {i \in DOMAIN acl : acl[i] = OtaEntry(n)}
  <2>1. CASE Ours = {}
    BY <2>1, FS_EmptySet
  <2>2. CASE Ours # {}
    <3>1. PICK i \in Ours : TRUE
      BY <2>2
    <3>2. Ours = {i}
      BY <3>1 DEF OneGrant
    <3>3. Cardinality(Ours) = 1
      BY <3>2, FS_Singleton
    <3> QED BY <3>3
  <2> QED BY <2>1, <2>2
<1>2. Init => OneGrant
  BY GrantsAssumption DEF Init, OneGrant
<1> QED BY <1>1, <1>2, GrantStep, Typed, PTL DEF Spec

=============================================================================
