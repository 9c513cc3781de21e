------------------------------ MODULE Treasures ------------------------------
(***************************************************************************)
(* The treasures of a run and the account they end on: picked up off the   *)
(* floor (drops.js, pickups.js), owed (rewards.js), answered for on the    *)
(* report screen (summary-chests.js, chests.js), beside the calls the      *)
(* client makes about the same account in the meantime (rpc-handlers.js,   *)
(* store.js), which hold the account's lock; the report does not.          *)
(*                                                                         *)
(* A chest is <<treasure, n>>, the n-th made of it.  An id is asked of the *)
(* server, so everything beside it may happen before it comes.             *)
(***************************************************************************)
EXTENDS Naturals, Integers, Sequences, FiniteSets

CONSTANTS Lying,      \* the treasures of the floor
          BossChest,  \* the one a first clear of a boss owes
          Bought,     \* what the store sells
          Room,       \* weapons the storage takes
          MaxCalls,   \* bound: calls the client makes
          MaxRefused, \* bound: saves and ids refused
          MaxMade     \* bound: chests made of one treasure

ASSUME TreasureAssumption ==
  /\ Cardinality({BossChest, Bought}) = 2 /\ {BossChest, Bought} \cap Lying = {}
  /\ {Room, MaxCalls, MaxRefused, MaxMade} \subseteq Nat

VARIABLES
  found,    \* what lies on the floor, and what is being kept on pickup
  claims,   \* session.dungeonTreasures: whose, and how settled
  report,   \* whether the report is up
  keptOn,   \* the run's rule: chests are kept on "pickup" or owed on the "report"
  purse,    \* the account: chests, weapons, keys, and changes of other kinds
  asks,     \* the report's requests under way, by slot
  call,     \* the call that holds the account's lock
  chain,    \* the saves the session chains one after the other, by slot
  made,     \* chests made of each treasure
  answer,   \* what the client was last told of each slot
  dropped,  \* chests dropped by a call
  calls, refused,
  crossed   \* whether an operation wrote over what another did since its own read

treasureVars == <<found, claims, report, keptOn, purse, asks, call, chain, made, answer, dropped,
                  calls, refused, crossed>>
NoAsk == [how |-> "none"]
NoCall == [how |-> "none"]
Slots4 == 1..4

TreasureInit ==
  /\ found = [lying |-> Lying, taking |-> {}] /\ claims = <<>> /\ report = FALSE
  /\ keptOn \in {"pickup", "report"}
  /\ purse = [chests |-> {}, weapons |-> {}, keys |-> 1, other |-> 0]
  /\ asks = [s \in Slots4 |-> NoAsk] /\ call = NoCall /\ chain = <<>>
  /\ made = [t \in Lying \cup {BossChest, Bought} |-> 0]
  /\ answer = [s \in Slots4 |-> "none"]
  /\ dropped = {} /\ calls = 0 /\ refused = 0 /\ crossed = FALSE

Owed(t) == Append(claims, [of |-> t, st |-> "none", chest |-> <<>>])
NewChest(t) == <<t, made[t] + 1>>
MakesChest(t) == made' = [made EXCEPT ![t] = @ + 1]

\* The account changed under the requests that may still put it back as it was
Touches(a, but) == [s \in Slots4 |-> IF a[s].how # "none" /\ s # but THEN [a[s] EXCEPT !.touched = TRUE] ELSE a[s]]
Refuses == refused < MaxRefused /\ refused' = refused + 1

-----------------------------------------------------------------------------
(* The floor.                                                              *)

\* collectNearby: within reach, and off the floor for everybody; a pet leaves treasure alone.
\* awardTreasureChest: kept now, or owed on the report, or nothing where somebody else took it
Collects(t) ==
  /\ ~report /\ t \in found.lying
  /\ \/ found' = [found EXCEPT !.lying = @ \ {t}] /\ UNCHANGED claims
     \/ /\ keptOn = "pickup" /\ found' = [lying |-> found.lying \ {t}, taking |-> found.taking \cup {t}]
        /\ UNCHANGED claims
     \/ keptOn = "report" /\ found' = [found EXCEPT !.lying = @ \ {t}] /\ claims' = Owed(t)
  /\ UNCHANGED <<report, keptOn, purse, asks, call, chain, made, answer, dropped, calls, refused, crossed>>

\* ... its id has come (grantChest), or has not, and then it is owed on the report
KeptOnPickup(t) ==
  /\ t \in found.taking /\ found' = [found EXCEPT !.taking = @ \ {t}]
  /\ \/ /\ purse' = [purse EXCEPT !.chests = @ \cup {NewChest(t)}] /\ MakesChest(t)
        /\ asks' = Touches(asks, 0) /\ UNCHANGED <<claims, refused>>
     \/ Refuses /\ claims' = Owed(t) /\ UNCHANGED <<purse, made, asks>>
  /\ UNCHANGED <<report, keptOn, call, chain, answer, dropped, calls, crossed>>

\* sendDungeonSummary: what lies is gone, and awardDungeonCompletion owes a first clear its chest
\* before the report is drawn
ReportIsAsked ==
  /\ ~report /\ report' = TRUE
  /\ \E first \in BOOLEAN :
       LET boss == IF first THEN {BossChest} ELSE {} IN
       /\ found' = [lying |-> {}, taking |-> found.taking \cup (IF keptOn = "pickup" THEN boss ELSE {})]
       /\ claims' = IF first /\ keptOn = "report" THEN Owed(BossChest) ELSE claims
  /\ UNCHANGED <<keptOn, purse, asks, call, chain, made, answer, dropped, calls, refused, crossed>>

-----------------------------------------------------------------------------
(* The report's buttons.                                                   *)

\* treasureAt: one of the report's slots, and unspent
TreasureAt(s) == report /\ s \in DOMAIN claims /\ claims[s].st = "none"

\* handleDropChest: a claim given up; nothing was ever added
DropsClaim(s) ==
  /\ TreasureAt(s) /\ claims' = [claims EXCEPT ![s].st = "dropped"]
  /\ UNCHANGED <<found, report, keptOn, purse, asks, call, chain, made, answer, dropped, calls, refused, crossed>>

\* handleTakeChest, handleOpenChest: the account is remembered, and an id asked for
AsksFor(s, how) ==
  /\ TreasureAt(s) /\ made[claims[s].of] < MaxMade /\ claims' = [claims EXCEPT ![s].st = "pending"]
  /\ asks' = [asks EXCEPT ![s] = [how |-> how, step |-> "chest", before |-> purse, touched |-> FALSE]]
  /\ UNCHANGED <<found, report, keptOn, purse, call, chain, made, answer, dropped, calls, refused, crossed>>

\* Mutant of RolledBack: the claim is freed, the account is left as it is
OnlyFreed(s) == purse
\* accountRollback: the whole account as it was before the request
RolledBack(s) == asks[s].before

\* The request refused, at any of its steps: rolled back, and the client told
Fails(s) ==
  /\ purse' = RolledBack(s)
  /\ claims' = [claims EXCEPT ![s].st = "none", ![s].chest = <<>>]
  /\ crossed' = (crossed \/ asks[s].touched)
  /\ asks' = [Touches(asks, s) EXCEPT ![s] = NoAsk]
  /\ answer' = [answer EXCEPT ![s] = "refused"]

\* openChest, before its id: a key, and room for the weapon. A report may pay an offer instead of
\* a weapon, with no id to wait for.
MayOpen == purse.keys >= 1 /\ Cardinality(purse.weapons) < Room
\* openChest, after it
Opened(p, chest) ==
  [p EXCEPT !.chests = @ \ {chest}, !.weapons = @ \cup {chest}, !.keys = @ - 1]

SettlesClaim(s, st, chest) == claims' = [claims EXCEPT ![s].st = st, ![s].chest = chest]
QueuesSave(s) == chain' = Append(chain, s)

\* grantChest: the chest is on the account; kept, or opened
ChestComes(s) ==
  LET t == claims[s].of
      chest == NewChest(t)
      with == [purse EXCEPT !.chests = @ \cup {chest}]
  IN
  /\ asks[s].how # "none" /\ asks[s].step = "chest"
  /\ \/ /\ asks[s].how = "take" /\ MakesChest(t) /\ purse' = with
        /\ SettlesClaim(s, "kept", chest) /\ QueuesSave(s)
        /\ asks' = [Touches(asks, s) EXCEPT ![s].step = "save"]
        /\ UNCHANGED <<answer, crossed>>
     \/ /\ asks[s].how = "open" /\ MayOpen /\ MakesChest(t)
        /\ \/ /\ purse' = with /\ SettlesClaim(s, "pending", chest)
              /\ asks' = [Touches(asks, s) EXCEPT ![s].step = "weapon"] /\ UNCHANGED chain
           \/ /\ purse' = Opened(with, chest) /\ SettlesClaim(s, "opened", chest) /\ QueuesSave(s)
              /\ asks' = [Touches(asks, s) EXCEPT ![s].step = "save"]
        /\ UNCHANGED <<answer, crossed>>
     \/ asks[s].how = "open" /\ ~MayOpen /\ MakesChest(t) /\ Fails(s) /\ UNCHANGED chain
  /\ UNCHANGED <<found, report, keptOn, call, dropped, calls, refused>>

\* The weapon's id: chest and key are spent now
WeaponComes(s) ==
  /\ asks[s].how # "none" /\ asks[s].step = "weapon"
  /\ purse' = Opened(purse, claims[s].chest) /\ SettlesClaim(s, "opened", claims[s].chest) /\ QueuesSave(s)
  /\ asks' = [Touches(asks, s) EXCEPT ![s].step = "save"]
  /\ crossed' = (crossed \/ purse.keys < 1 \/ claims[s].chest \notin purse.chests)
  /\ UNCHANGED <<found, report, keptOn, call, made, answer, dropped, calls, refused>>

\* ... or an id does not come
IdFails(s) ==
  /\ asks[s].how # "none" /\ asks[s].step \in {"chest", "weapon"} /\ Refuses /\ Fails(s)
  /\ UNCHANGED <<found, report, keptOn, call, chain, made, dropped, calls>>

\* settle: saved, then answered; or not saved, and rolled back
SettleEnds ==
  /\ chain # <<>> /\ chain' = Tail(chain)
  /\ LET s == Head(chain) IN
     \/ /\ asks' = [asks EXCEPT ![s] = NoAsk]
        /\ answer' = [answer EXCEPT ![s] = claims[s].st]
        /\ UNCHANGED <<purse, claims, crossed, refused>>
     \/ Refuses /\ Fails(s)
  /\ UNCHANGED <<found, report, keptOn, call, made, dropped, calls>>

-----------------------------------------------------------------------------
(* The client's calls, each under the account's lock.                      *)

Calls == call = NoCall /\ calls < MaxCalls /\ calls' = calls + 1
NoReport == UNCHANGED <<found, claims, report, keptOn, chain, answer, refused>>
\* The client names chests it has been shown: those kept, on pickup or here, and those bought
Shown(c) == \A s \in Slots4 : s \in DOMAIN claims /\ claims[s].chest = c => asks[s].how = "none"

\* A change of another kind: equipping, selling a weapon, an attribute
ChangesOther ==
  /\ Calls /\ purse' = [purse EXCEPT !.other = @ + 1] /\ asks' = Touches(asks, 0)
  /\ NoReport /\ UNCHANGED <<call, made, dropped, crossed>>

\* account/DropChest
DropsChest(c) ==
  /\ c \in purse.chests /\ Shown(c) /\ Calls
  /\ purse' = [purse EXCEPT !.chests = @ \ {c}] /\ dropped' = dropped \cup {c}
  /\ asks' = Touches(asks, 0)
  /\ NoReport /\ UNCHANGED <<call, made, crossed>>

\* account/OpenChest, up to its id
OpensChest(c) ==
  /\ c \in purse.chests /\ Shown(c) /\ MayOpen /\ Calls
  /\ call' = [how |-> "open", chest |-> c]
  /\ NoReport /\ UNCHANGED <<purse, asks, made, dropped, crossed>>

\* store/PurchaseOffer of a chest, up to its id: applyDetail has copied the chests held before it
\* asks for one
Buys ==
  /\ Calls /\ call' = [how |-> "buy", chests |-> purse.chests]
  /\ NoReport /\ UNCHANGED <<purse, asks, made, dropped, crossed>>

\* The call's id has come
CallEnds ==
  /\ call # NoCall /\ call' = NoCall /\ asks' = Touches(asks, 0)
  /\ \/ /\ call.how = "open" /\ purse' = Opened(purse, call.chest)
        /\ crossed' = (crossed \/ purse.keys < 1 \/ call.chest \notin purse.chests) /\ UNCHANGED made
     \/ /\ call.how = "buy" /\ MakesChest(Bought)
        /\ purse' = [purse EXCEPT !.chests = call.chests \cup {NewChest(Bought)}]
        /\ crossed' = (crossed \/ purse.chests # call.chests)
  /\ NoReport /\ UNCHANGED <<dropped, calls>>

TreasureNext ==
  \/ \E t \in Lying \cup {BossChest} : Collects(t) \/ KeptOnPickup(t)
  \/ ReportIsAsked \/ SettleEnds \/ ChangesOther \/ Buys \/ CallEnds
  \/ \E s \in Slots4 : \/ DropsClaim(s) \/ ChestComes(s) \/ WeaponComes(s) \/ IdFails(s)
                       \/ \E how \in {"take", "open"} : AsksFor(s, how)
  \/ \E c \in purse.chests : DropsChest(c) \/ OpensChest(c)

\* Ids and writes are answered, if only with a refusal
TreasureFairness ==
  /\ WF_treasureVars(SettleEnds)
  /\ \A s \in Slots4 : WF_treasureVars(ChestComes(s) \/ WeaponComes(s))
TreasureSpec == TreasureInit /\ [][TreasureNext]_treasureVars /\ TreasureFairness

-----------------------------------------------------------------------------
(* Properties.                                                             *)

Treasure == Lying \cup {BossChest, Bought}
Chest == Treasure \X Nat
Purse == [chests : SUBSET Chest, weapons : SUBSET Chest, keys : Int, other : 0..MaxCalls]
Claim == [of : Lying \cup {BossChest}, st : {"none", "pending", "kept", "opened", "dropped"}, chest : Chest \cup {<<>>}]
Ask == [how : {"take", "open"}, step : {"chest", "weapon", "save"}, before : Purse, touched : BOOLEAN]
TreasureTypeOK ==
  /\ found \in [lying : SUBSET Lying, taking : SUBSET (Lying \cup {BossChest})]
  /\ claims \in Seq(Claim) /\ report \in BOOLEAN /\ keptOn \in {"pickup", "report"}
  /\ purse \in Purse /\ asks \in [Slots4 -> Ask \cup {NoAsk}]
  /\ call \in {NoCall} \cup [how : {"open"}, chest : Chest] \cup [how : {"buy"}, chests : SUBSET Chest]
  /\ chain \in Seq(Slots4) /\ made \in [Treasure -> Nat] /\ dropped \subseteq Chest
  /\ answer \in [Slots4 -> {"none", "refused", "kept", "opened"}]
  /\ calls \in 0..MaxCalls /\ refused \in 0..MaxRefused /\ crossed \in BOOLEAN

MadeOf(p, t) == {c \in p.chests \cup p.weapons : c[1] = t}
Of(t) == MadeOf(purse, t)
Holds(c) == c \in purse.chests \cup purse.weapons \cup dropped

\* Unless two operations crossed on the account, nothing is lost and nothing doubled: a slot kept
\* is a chest held, opened or dropped, a slot opened is its weapon, a slot refused or abandoned is
\* nothing, no key is spent twice, and every other change stands.
OnlyCrossedOperationsLose ==
  ~crossed =>
    /\ purse.keys >= 0
    /\ \A t \in Lying \cup {BossChest} : Cardinality(Of(t)) <= 1
    /\ \A s \in DOMAIN claims :
         /\ claims[s].st = "kept" => Holds(claims[s].chest)
         /\ claims[s].st = "opened" => claims[s].chest \in purse.weapons
         /\ claims[s].st \in {"none", "dropped"} => Of(claims[s].of) = {}

\* The inductive form of OnlyCrossedOperationsLose.  A treasure is in one place: it lies, is being
\* kept or is claimed, once, and the boss's comes with the report.
OnePlaceEach ==
  /\ found.lying \cap found.taking = {}
  /\ \A i \in DOMAIN claims : claims[i].of \notin found.lying \cup found.taking
  /\ \A i, j \in DOMAIN claims : claims[i].of = claims[j].of => i = j
  /\ ~report => BossChest \notin found.taking /\ \A i \in DOMAIN claims : claims[i].of # BossChest

\* A claim is pending while a request of its own is, a request waits to be saved once it has its
\* chest, and once only.
Under(s) == asks[s].how # "none"
ChestsOf(t) == {t} \X Nat
RequestsAreClaimed ==
  /\ \A s \in DOMAIN claims :
       /\ claims[s].st = "pending" => s \in Slots4 /\ Under(s) /\ asks[s].step # "save"
       /\ claims[s].st \in {"kept", "opened"} => claims[s].chest \in ChestsOf(claims[s].of)
  /\ \A s \in Slots4 : Under(s) =>
       /\ s \in DOMAIN claims /\ asks[s].before.other <= calls
       /\ claims[s].st \in IF asks[s].step = "save" THEN {"kept", "opened"} ELSE {"pending"}
       /\ asks[s].step = "weapon" => claims[s].chest \in ChestsOf(claims[s].of)
  /\ \A i, j \in DOMAIN chain : chain[i] = chain[j] => i = j
  /\ \A s \in Slots4 : (\E i \in DOMAIN chain : chain[i] = s) <=> Under(s) /\ asks[s].step = "save"
  /\ purse.other <= calls

\* The account has what its claims say, and what a request remembers of it differs by the request's
\* own treasure, until something else changes it.
Without(cs, t) == {c \in cs : c[1] # t}
Undoes(s) ==
  /\ asks[s].before.keys >= purse.keys
  /\ asks[s].before.chests = Without(purse.chests, claims[s].of)
  /\ asks[s].before.weapons = Without(purse.weapons, claims[s].of)
AccountAddsUp ==
  /\ purse.keys >= 0
  /\ \A t \in found.lying \cup found.taking : Of(t) = {}
  /\ ~report => Of(BossChest) = {}
  /\ \A t \in Lying \cup {BossChest} : \A c, d \in Of(t) : c = d
  /\ \A s \in DOMAIN claims :
       /\ claims[s].st \in {"none", "dropped"} => Of(claims[s].of) = {}
       /\ claims[s].st = "kept" => Holds(claims[s].chest)
       /\ claims[s].st = "opened" => claims[s].chest \in purse.weapons
  /\ \A s \in Slots4 : Under(s) =>
       /\ asks[s].step = "chest" => Of(claims[s].of) = {}
       /\ ~asks[s].touched => Undoes(s)
TreasureInv == OnePlaceEach /\ RequestsAreClaimed /\ (~crossed => AccountAddsUp)

\* A chest the client was told is kept is the player's until the player spends it.
KeptChestsAreHeld ==
  \A s \in DOMAIN claims : answer[s] = "kept" => Holds(claims[s].chest)

\* Nobody is left under the report's popup: every request is answered.
ReportAnswers == \A s \in Slots4 : asks[s].how # "none" ~> asks[s].how = "none"
=============================================================================
