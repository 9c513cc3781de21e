---- MODULE MCTown ----
(* Bounds for the town: what changes hands between accounts, the object ids    *)
(* of the workers, the tokens of those who play and look in.                   *)
EXTENDS Economy, WorkerSlots, Revocation, Friendships, Connections, TLC

CONSTANTS r1, r2, w1, s1, s2

VARIABLE part   \* the component a behaviour is of: they meet only where one of them says so
allVars == <<part, economyVars, slotVars, revokeVars, webVars, friendVars, connVars>>

AllInit ==
  /\ part \in {"economy", "slots", "tokens", "website", "friends", "sockets"}
  /\ EconomyInit /\ SlotInit /\ RevokeInit /\ WebInit /\ FriendInit /\ ConnInit
  /\ part # "tokens" => keeps = "file"
  /\ part # "friends" => friends = [a \in Players |-> {}]
AllNext ==
  \/ part = "economy" /\ EconomyNext /\ UNCHANGED <<part, slotVars, revokeVars, webVars, friendVars, connVars>>
  \/ part = "slots" /\ SlotNext /\ UNCHANGED <<part, economyVars, revokeVars, webVars, friendVars, connVars>>
  \/ part = "tokens" /\ RevokeNext /\ UNCHANGED <<part, economyVars, slotVars, webVars, friendVars, connVars>>
  \/ part = "website" /\ WebNext /\ UNCHANGED <<part, economyVars, slotVars, revokeVars, friendVars, connVars>>
  \/ part = "friends" /\ FriendNext /\ UNCHANGED <<part, economyVars, slotVars, revokeVars, webVars, connVars>>
  \/ part = "sockets" /\ ConnNext /\ UNCHANGED <<part, economyVars, slotVars, revokeVars, webVars, friendVars>>
AllSpec ==
  /\ AllInit /\ [][AllNext]_allVars
  /\ \A r \in Requests : WF_economyVars(part = "economy" /\ RequestStep(r))
  /\ \A w \in Slots : /\ WF_slotVars(part = "slots" /\ Starts(w)) /\ WF_slotVars(part = "slots" /\ IsAsked(w))
                      /\ WF_slotVars(part = "slots" /\ Terminated(w)) /\ WF_slotVars(part = "slots" /\ Replaces(w))
  /\ \A s \in Sockets : WF_connVars(part = "sockets" /\ SniffFires(s)) /\ WF_connVars(part = "sockets" /\ LoginFires(s)) /\ WF_connVars(part = "sockets" /\ ForceFires(s)) /\ WF_connVars(part = "sockets" /\ CloseComes(s))

\* Accounts, worker slots, tokens, friendships and sockets keep to their types.
TownTypeOK == EconomyTypeOK /\ SlotTypeOK /\ RevokeTypeOK /\ WebTypeOK /\ FriendTypeOK /\ ConnTypeOK
\* What two accounts share they share alike unless a save of both was torn by a crash: goods change hands
\* once, no gift is sent past its ration, and one lists the other as the other lists it.
TwoAccountsAgree == OnlyTornPairsLose /\ GiftsAreRationed /\ FriendshipsAreMutual
\* What is served is served in order: no client meets an object id twice, its packets are handled one
\* after the other, what stopped its reading lets it go on, and the limits count the sockets there are.
ClientsAreServedInOrder == NumbersAreNew /\ CountsAreSockets /\ SomethingResumes /\ OneAtATimeInOrder
\* Nobody outstays a leave: a deleted account and its tokens stay so, neither a sign-out nor a denial is
\* outlived, and who is followed was a friend.
NobodyOutstaysHisLeave == DeletedStaysDeleted /\ NobodyHoldsTheDeleted /\ SignOutsHold /\ DenialsHold
  /\ OnlyFriendsAreFollowed /\ PanelsTellTheTruth
\* Every request of the town ends, a slot whose thread is lost has one again or is given up, and a socket
\* that does not log in or was closed is gone.
TownMovesOn == RequestsEnd /\ SlotsComeBack /\ NobodyLingers
=============================================================================
