---- MODULE MCRules ----
(* Bounds for the components that promise nothing in the end, only at every   *)
(* step: one component to a behaviour, each from its own initial states.      *)
EXTENDS AccountPictures, ModeEntries, FloorSignals, LifecycleScope, RankedRace, HeroCasts,
  Powerups, Standings, LobbyCopies, Administration, FloorLayouts, FloorPeople, TrapShots, Loot, TLC

CONSTANTS h1, h2, a1, a2, m1, m2, wolf, imp, ghost, bat, keg, statue, nozzle, mace, n1, n2, pot1, pot2

NoGate == [g \in {} |-> TRUE]
G(k, o, t, d) == [kind |-> k, once |-> o, threshold |-> t, delayed |-> d]
Gn(a, r, p, q) == [allDead |-> a, reward |-> r, population |-> p, quota |-> q]
\* two zones feed a generator; its end and the boss's open the way out
Cave == [trigger |-> [za |-> "zone", zb |-> "zone", boss |-> "life"],
         gate |-> [dead |-> G("NOT", FALSE, 0, FALSE), both |-> G("AND", TRUE, 0, FALSE)],
         gen |-> [cave |-> Gn(TRUE, FALSE, 1, 2)],
         wires |-> [za |-> <<"cave">>, zb |-> <<"cave">>, boss |-> <<"dead">>,
                    dead |-> <<"both", "gate">>, cave |-> <<"both">>, both |-> <<"out">>],
         ends |-> {"out"}, doors |-> {"gate"}, order |-> <<"za", "zb">>]
\* a blow on a statue fills a jail by a pulse, which opens a cage a little later
Jail == [trigger |-> [hurt |-> "damage", cue |-> "event"],
         gate |-> [pulse |-> G("RESET", FALSE, 0, FALSE), late |-> G("RESET", FALSE, 0, TRUE),
                   flip |-> G("TOGGLE", FALSE, 0, FALSE)],
         gen |-> [jail |-> Gn(FALSE, FALSE, 2, 3)],
         wires |-> [hurt |-> <<"pulse">>, cue |-> <<"flip", "pulse">>, pulse |-> <<"jail">>,
                    jail |-> <<"late">>, late |-> <<"cage">>, flip |-> <<"spikes">>],
         ends |-> {}, doors |-> {"spikes", "cage"}, order |-> <<>>]
\* two plates are counted; a timer and a gate nobody powers move the spikes
Puzzle == [trigger |-> [za |-> "zone", zb |-> "zoneOnce", beat |-> "timer"],
           gate |-> [tally |-> G("COUNTER", TRUE, 2, FALSE), loose |-> G("NOT", FALSE, 0, FALSE),
                     any |-> G("OR", TRUE, 0, FALSE)],
           gen |-> [g \in {} |-> Gn(TRUE, FALSE, 0, 0)],
           wires |-> [za |-> <<"tally", "any">>, zb |-> <<"tally">>, beat |-> <<"spikes">>,
                      loose |-> <<"any">>, any |-> <<"spikes">>, tally |-> <<"out">>],
           ends |-> {"out"}, doors |-> {"spikes"}, order |-> <<"za", "zb">>]
AllBoards == {Cave, Jail, Puzzle}

AllBeginnings ==
  LET named == a1 :> "x" @@ a2 :> "y"  led == a1 :> 2 @@ a2 :> 0 IN
  { [desk |-> {"role", "play"}, rank |-> [a \in {a1, a2} |-> 2], label |-> named],
    [desk |-> {"restrict", "lift", "browse", "time"}, rank |-> led, label |-> named],
    [desk |-> {"restrict", "sanction", "play", "time"}, rank |-> led, label |-> named],
    [desk |-> {"grant", "rename", "register", "play"}, rank |-> led, label |-> a1 :> "x" @@ a2 :> NoLabel],
    [desk |-> {"grant", "rename", "play"}, rank |-> led, label |-> named],
    [desk |-> {"restrict", "close", "open", "disconnect", "play"}, rank |-> led, label |-> named] }
Rungs == <<1, 2>>
RoomTile(role, n, e, s, w, walled, shuts) == [role |-> role, exits |-> <<n, e, s, w>>, walled |-> walled, shuts |-> shuts]
OpenTile(role, n, e, s, w) == RoomTile(role, n, e, s, w, FALSE, FALSE)
Castle ==
  { OpenTile("body", 0, 1, 0, 0), OpenTile("body", 1, 0, 0, 0), OpenTile("body", 0, 0, 1, 0), OpenTile("body", 0, 0, 0, 1),
    OpenTile("start", 1, 1, 0, 0), RoomTile("body", 5, 1, 0, 1, TRUE, FALSE), OpenTile("body", 0, 0, 5, 0),
    OpenTile("body", 1, 0, 1, 1), OpenTile("secret", 0, 0, 5, 0), OpenTile("exit", 0, 0, 0, 1) }
Caves ==
  { OpenTile("start", 0, 1, 0, 1), RoomTile("body", 5, 1, 0, 1, TRUE, FALSE), OpenTile("body", 0, 1, 0, 0),
    OpenTile("secret", 0, 0, 5, 0), OpenTile("body", 0, 0, 0, 1), RoomTile("secret", 0, 0, 5, 0, FALSE, TRUE),
    RoomTile("body", 5, 0, 0, 1, TRUE, FALSE), OpenTile("exit", 5, 0, 0, 1) }
Halls == {OpenTile("start", 0, 1, 0, 0), OpenTile("body", 0, 1, 0, 1), OpenTile("body", 0, 0, 1, 1), OpenTile("exit", 0, 0, 0, 1)}
Themes == {Castle, Caves, Halls}
Bosses == <<2, 1>>
\* two floors of bosses; two secret rooms; a third who joins two; two with a pet, and what they call
Plays == {
  [roster |-> {m1}, joins |-> {}, pets |-> {}, npcs |-> {}, pots |-> {}, calls |-> 0, floors |-> 2],
  [roster |-> {m1}, joins |-> {}, pets |-> {}, npcs |-> {}, pots |-> {pot1, pot2}, calls |-> 0, floors |-> 1],
  [roster |-> {m1, m2}, joins |-> {h1}, pets |-> {}, npcs |-> {n1, n2}, pots |-> {}, calls |-> 0, floors |-> 1],
  [roster |-> {m1, m2}, joins |-> {}, pets |-> {m1}, npcs |-> {}, pots |-> {}, calls |-> 4, floors |-> 2] }
AnyTrap == [attack |-> TRUE, projectile |-> TRUE, turns |-> FALSE, mover |-> FALSE, enemy |-> FALSE, instant |-> TRUE, always |-> FALSE,
  unlit |-> FALSE, wired |-> TRUE, inert |-> FALSE, range |-> 8, ignores |-> FALSE, team |-> "monsters", under |-> FALSE]
TrapRows == statue :> [AnyTrap EXCEPT !.turns = TRUE, !.ignores = TRUE, !.range = 6]
  @@ nozzle :> AnyTrap @@ mace :> [AnyTrap EXCEPT !.projectile = FALSE, !.team = "traps"]
Muzzles == statue :> 3 @@ nozzle :> 0 @@ mace :> 2
Aheads == statue :> 1 @@ nozzle :> 1 @@ mace :> 1
Reaches == mace :> (1 :> {2, 4} @@ 2 :> {4})
RollOf == <<h1, imp, keg>>
PlaceOfBody == imp :> 4 @@ keg :> 2
KindOfBody == h1 :> "hero" @@ imp :> "monster" @@ keg :> "barrel"
TeamOf == h1 :> "players" @@ imp :> "monsters" @@ keg :> "scenery"
KindOfNpc == wolf :> "stock" @@ imp :> "generated" @@ ghost :> "sealed" @@ bat :> "called"
Weights == wolf :> 2 @@ imp :> 1 @@ ghost :> 1 @@ bat :> 1
Fall == wolf :> {"gold"} @@ imp :> {} @@ ghost :> {"food"} @@ bat :> {}
AllEvenings == {[floors |-> 1, npcs |-> {wolf, imp}, cooks |-> 0, writes |-> 2],
  [floors |-> 2, npcs |-> {wolf}, cooks |-> 1, writes |-> 0], [floors |-> 1, npcs |-> {imp, ghost, bat}, cooks |-> 0, writes |-> 0]}

VARIABLE part   \* the component a behaviour is of: they meet only where one of them says so
allVars == <<part, pictureVars, modeVars, admissionVars, signalVars, scopeVars, rankedVars, castVars, powerVars, standingVars,
  copyVars, adminVars, layoutVars, peopleVars, shotVars, lootVars>>

AllInit ==
  /\ part \in {"pictures", "modes", "admission", "signals", "scopes", "ranked", "casts", "powerups", "standings",
       "copies", "admins", "layouts", "people", "shots", "loot"}
  /\ PictureInit
  /\ ModeInit
  /\ AdmissionInit /\ (part # "admission" => ~friends)
  /\ SignalInit /\ (part # "signals" => board = Cave)
  /\ ScopeInit
  /\ RankedInit
  /\ CastInit
  /\ PowerInit
  /\ StandingInit /\ (part # "standings" => keeping = "file")
  /\ CopyInit
  /\ AdminInit /\ (part # "admins" => desk = {"role", "play"})
  /\ LayoutInit /\ (part # "layouts" => library = Halls)
  /\ PeopleInit /\ (part # "people" => scene.calls = 4 /\ \A q \in 1..Quota : draws[q] = 0)
  /\ ShotInit /\ (part # "shots" => (\A t \in Traps : wire[t]) /\ body[h1].at = 0)
  /\ LootInit /\ (part # "loot" => evening.cooks = 1)
AllNext ==
  \/ /\ part = "pictures" /\ PictureNext
     /\ UNCHANGED <<part, modeVars, admissionVars, signalVars, scopeVars, rankedVars, castVars, powerVars, standingVars,
          copyVars, adminVars, layoutVars, peopleVars, shotVars, lootVars>>
  \/ /\ part = "modes" /\ ModeNext
     /\ UNCHANGED <<part, pictureVars, admissionVars, signalVars, scopeVars, rankedVars, castVars, powerVars, standingVars,
          copyVars, adminVars, layoutVars, peopleVars, shotVars, lootVars>>
  \/ /\ part = "admission" /\ AdmissionNext
     /\ UNCHANGED <<part, pictureVars, modeVars, signalVars, scopeVars, rankedVars, castVars, powerVars, standingVars,
          copyVars, adminVars, layoutVars, peopleVars, shotVars, lootVars>>
  \/ /\ part = "signals" /\ SignalNext
     /\ UNCHANGED <<part, pictureVars, modeVars, admissionVars, scopeVars, rankedVars, castVars, powerVars, standingVars,
          copyVars, adminVars, layoutVars, peopleVars, shotVars, lootVars>>
  \/ /\ part = "scopes" /\ ScopeNext
     /\ UNCHANGED <<part, pictureVars, modeVars, admissionVars, signalVars, rankedVars, castVars, powerVars, standingVars,
          copyVars, adminVars, layoutVars, peopleVars, shotVars, lootVars>>
  \/ /\ part = "ranked" /\ RankedNext
     /\ UNCHANGED <<part, pictureVars, modeVars, admissionVars, signalVars, scopeVars, castVars, powerVars, standingVars,
          copyVars, adminVars, layoutVars, peopleVars, shotVars, lootVars>>
  \/ /\ part = "casts" /\ CastNext
     /\ UNCHANGED <<part, pictureVars, modeVars, admissionVars, signalVars, scopeVars, rankedVars, powerVars, standingVars,
          copyVars, adminVars, layoutVars, peopleVars, shotVars, lootVars>>
  \/ /\ part = "powerups" /\ PowerNext
     /\ UNCHANGED <<part, pictureVars, modeVars, admissionVars, signalVars, scopeVars, rankedVars, castVars, standingVars,
          copyVars, adminVars, layoutVars, peopleVars, shotVars, lootVars>>
  \/ /\ part = "standings" /\ StandingNext
     /\ UNCHANGED <<part, pictureVars, modeVars, admissionVars, signalVars, scopeVars, rankedVars, castVars, powerVars,
          copyVars, adminVars, layoutVars, peopleVars, shotVars, lootVars>>
  \/ /\ part = "copies" /\ CopyNext
     /\ UNCHANGED <<part, pictureVars, modeVars, admissionVars, signalVars, scopeVars, rankedVars, castVars, powerVars,
          standingVars, adminVars, layoutVars, peopleVars, shotVars, lootVars>>
  \/ /\ part = "admins" /\ AdminNext
     /\ UNCHANGED <<part, pictureVars, modeVars, admissionVars, signalVars, scopeVars, rankedVars, castVars, powerVars,
          standingVars, copyVars, layoutVars, peopleVars, shotVars, lootVars>>
  \/ /\ part = "layouts" /\ LayoutNext
     /\ UNCHANGED <<part, pictureVars, modeVars, admissionVars, signalVars, scopeVars, rankedVars, castVars, powerVars,
          standingVars, copyVars, adminVars, peopleVars, shotVars, lootVars>>
  \/ /\ part = "people" /\ PeopleNext
     /\ UNCHANGED <<part, pictureVars, modeVars, admissionVars, signalVars, scopeVars, rankedVars, castVars, powerVars,
          standingVars, copyVars, adminVars, layoutVars, shotVars, lootVars>>
  \/ /\ part = "shots" /\ ShotNext
     /\ UNCHANGED <<part, pictureVars, modeVars, admissionVars, signalVars, scopeVars, rankedVars, castVars, powerVars,
          standingVars, copyVars, adminVars, layoutVars, peopleVars, lootVars>>
  \/ /\ part = "loot" /\ LootNext
     /\ UNCHANGED <<part, pictureVars, modeVars, admissionVars, signalVars, scopeVars, rankedVars, castVars, powerVars,
          standingVars, copyVars, adminVars, layoutVars, peopleVars, shotVars>>
AllSpec == AllInit /\ [][AllNext]_allVars

\* Of the component a behaviour is of, as the others do not move: it keeps to its types.
RulesTypeOK ==
  /\ part = "pictures" => PictureTypeOK
  /\ part = "modes" => ModeTypeOK
  /\ part = "admission" => AdmissionTypeOK
  /\ part = "signals" => SignalTypeOK
  /\ part = "scopes" => ScopeTypeOK
  /\ part = "ranked" => RankedTypeOK
  /\ part = "casts" => CastTypeOK
  /\ part = "powerups" => PowerTypeOK
  /\ part = "standings" => StandingTypeOK
  /\ part = "copies" => CopyTypeOK
  /\ part = "admins" => AdminTypeOK
  /\ part = "layouts" => LayoutTypeOK
  /\ part = "people" => PeopleTypeOK
  /\ part = "shots" => ShotTypeOK
  /\ part = "loot" => LootTypeOK
\* Accounts, from outside: a picture is written back only onto what it shows; the last administrator stays
\* one, a restriction is served in full and keeps its account out of what it bars and off the listings, names
\* are one account's each, points are what was awarded, and what is logged says who did it.
AccountsAreInOrder ==
  /\ part = "pictures" => CommitsWriteTheAccount
  /\ part = "admins" => /\ SomebodyIsAdmin /\ SanctionsAreServed /\ RestrictedAreOut /\ NamesAreUnique
                        /\ PointsAreEarned /\ AuthorsAreKnown /\ RestrictedAreNotListed
\* Ranked and standings: only who can start is paired, the log is the ratings in their order, a race that is
\* decided ends its runs; the boards are what the history says, under names that are current, of nobody who
\* is deleted, and sales stay; whom a client draws beside itself is whom it is shown, and nobody tails the leader.
StandingsAreFair ==
  /\ part = "ranked" => OnlyWhoCanStartIsReady /\ LogTellsTheRatings /\ DecidedRacesEnd
  /\ part = "standings" => BoardsAreTheLog /\ NamesAreCurrent /\ DeletedAreForgotten /\ SalesStay
  /\ part = "copies" => WatchersMirrorViews /\ OnlyTheShownAreDrawn /\ NobodyTailsTheLeader
\* Who enters may: the node was opened and is known there, an arming marks one entry, a fight is paid as
\* fought, a delve is recorded once.
EntriesAreEarned ==
  /\ part = "admission" => OnlyOpenedIsEntered
  /\ part = "modes" => ArmingsAreSpentOnce /\ PaidAsFought /\ FightsCount /\ DelvesAreRecordedOnce
\* Floors: what is wired together agrees, switches need somebody, generators answer for themselves, and
\* no timer outlives what it was for; a layout is whole, its walls hide rooms, what is seen is reached, and the
\* best of those tried is kept; a run's bosses and treasures are dealt out once, NPCs fit the party and pets come
\* back; a shot flies through neither bodies nor walls and reaches who stands still, a throw lands once, and a
\* swing strikes as drawn.
FloorsPlayFair ==
  /\ part = "signals" => WiringAgrees /\ SwitchesNeedSomebody /\ GeneratorsOwnUp
  /\ part = "scopes" => NothingOutlivesItsScope
  /\ part = "layouts" => FloorsAreWhole /\ WallsHideRooms /\ BestIsKept /\ SeenIsReached
  /\ part = "people" => QuotaIsShared /\ TreasuresAreOwed /\ NpcsFitTheParty /\ PetsAreNotForgotten
  /\ part = "shots" => NothingIsFlownThrough /\ WallsStopShots /\ SteadyTargetsAreHit /\ ThrowsLandOnce /\ SwingsAreAsDrawn
\* Heroes: a hit belongs to a cast that was made, a charge was held, a cooldown is waited for, and the
\* potions in the slots and the bag are those that were bought and not drunk; who was there is paid once for
\* what falls, a floor pays its share, and what is earned is remembered.
HeroesGetTheirDue ==
  /\ part = "casts" => HitsAreEarned /\ ChargesAreHeld /\ CooldownsHold
  /\ part = "powerups" => PotionsAddUp /\ SlotsKeepTheirLimit
  /\ part = "loot" => EverybodyIsPaidOnce /\ EarningsAreRemembered /\ FloorPaysItsShare /\ LootIsInPlace
=============================================================================
