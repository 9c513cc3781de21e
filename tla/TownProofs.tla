----------------------------- MODULE TownProofs -----------------------------
(***************************************************************************)
(* The town, for any number of accounts, connections, tokens, slots,       *)
(* sockets and moments: a deletion is not undone by a token of before, a   *)
(* sign-out and a denial are not outlived, two accounts say of one another *)
(* what is so and lose nothing between them, no client meets an object id  *)
(* twice, and what its socket carries is served in order.                  *)
(***************************************************************************)
EXTENDS MCTown, EconomyProofs, FiniteSetTheorems, SequenceTheorems, WellFoundedInduction, TLAPS

-----------------------------------------------------------------------------
(* Generations, as nobody's token outlives a deletion (Revocation).        *)

\* What the server remembers, what is read and what a tool has in hand were all kept once
Admitted == [gen : Int, before : BOOLEAN]
Keepings == [gen : Int, whole : BOOLEAN]
Memories == [gen : Int, readable : BOOLEAN, fresh : BOOLEAN]
RevokeShapes ==
  /\ acts \in Int
  /\ kept \in Keepings /\ memory \in Memories /\ kept.gen \in Int /\ memory.gen \in Int /\ conn.gen \in Int /\ call.gen \in Int
  /\ reading \in Int /\ bumping \in Int /\ revoked \in Int /\ tool \in Int
  /\ tokens \in SUBSET Int
  /\ conn \in Admitted /\ call \in Admitted
RemovalKinds == removal \in {"none", "revoking", "waiting", "locking", "done"}
StoredKinds == stored \in {"yes", "gone", "again"}
BackKinds == back \in {"no", "late", "issued since", "wrong"}
RevokeKinds == RemovalKinds /\ StoredKinds /\ BackKinds
\* No generation is higher than what has happened
RevokeBounds ==
  /\ 0 <= acts /\ acts <= MaxRevocations /\ \A gen \in tokens : 0 <= gen /\ gen <= acts
  /\ reading >= None /\ bumping >= None /\ revoked >= None /\ tool >= None
  /\ 0 <= kept.gen /\ kept.gen <= acts /\ 0 <= memory.gen /\ memory.gen <= acts /\ reading <= acts /\ bumping <= acts /\ (tool < acts \/ tool = None)
\* Once the deletion has raised the generation, memory never goes back below it, nor does a file
\* that one process writes at a time; and whoever was let in since has a token of since.
Since(who) == who # NobodyThere /\ ~who.before => who.gen >= revoked
InForce == memory.gen >= revoked /\ (keeps = "file" => kept.gen >= revoked) /\ Since(conn) /\ Since(call)
RevokeOrder ==
  /\ keeps \in {"file", "store"}
  /\ keeps = "file" => reading = None /\ bumping = None
  /\ keeps = "store" => tool = None
  /\ ~overwritten => InForce
RevokeInv == RevokeShapes /\ RevokeKinds /\ RevokeBounds /\ RevokeOrder /\ DeletedStaysDeleted /\ NobodyHoldsTheDeleted

LEMMA RevokeBegins == RevokeInit => RevokeInv
BY RevocationAssumption DEF RevokeInit, RevokeInv, Keepings, Memories, RevokeShapes, RevokeKinds, RemovalKinds, StoredKinds, BackKinds, RevokeBounds, RevokeOrder, Admitted, Since, InForce, NobodyThere, None, DeletedStaysDeleted, NobodyHoldsTheDeleted

LEMMA NobodyIsAdmitted == NobodyThere \in Admitted /\ NobodyThere.gen \in Int
BY DEF NobodyThere, Admitted, None

\* What is known is of one shape, as is whoever was let in before the deletion.
LEMMA KnowsOne ==
  ASSUME NEW gen \in Int, Knows(gen)
  PROVE  memory' \in Memories /\ memory'.gen = gen
BY DEF Knows, Memories
LEMMA MergesOne ==
  ASSUME RevokeInv, NEW gen \in Int
  PROVE  Merged(gen) \in Int /\ Merged(gen) = IF gen > memory.gen THEN gen ELSE memory.gen
BY DEF Merged, RevokeInv, RevokeShapes
LEMMA LetInBefore ==
  ASSUME NEW gen \in Int, Revoked(gen), RevokeInv
  PROVE  /\ removal' = "waiting" /\ revoked' = gen
         /\ conn' = NobodyThere /\ call' \in Admitted /\ (call' = NobodyThere \/ call'.before)
<1>1. call \in Admitted BY DEF RevokeInv, RevokeShapes
<1>2. [call EXCEPT !.before = TRUE] \in Admitted /\ [call EXCEPT !.before = TRUE].before
  BY <1>1 DEF Admitted
<1> QED BY <1>1, <1>2, NobodyIsAdmitted DEF Revoked

\* What is kept, read and written: it only goes up, unless two wrote the file at once.
LEMMA KeepingStays ==
  ASSUME RevokeInv,
         \/ Refreshes \/ ReadLeaves \/ ToolBumps \/ ToolReads \/ FileBreaks \/ RevokesTokens \/ WindowEnds
         \/ \E answered \in BOOLEAN : ReadComes(answered)
         \/ \E raise \in {0, 1} : ToolWrites(raise)
  PROVE  RevokeInv'
<1>1. CASE Refreshes
  <2>1. /\ keeps = "file"
        /\ memory' \in Memories /\ (memory'.gen = kept.gen \/ memory'.gen = memory.gen)
        /\ UNCHANGED <<keeps, kept, reading, bumping, tool, tokens, conn, call, held, removal, stored, acts, revoked, overwritten, back>>
    <3>1. kept.gen \in Int /\ memory \in Memories BY DEF RevokeInv, RevokeShapes
    <3>2. CASE Knows(kept.gen) BY <1>1, <3>1, <3>2, KnowsOne DEF Refreshes, siteVars, gameVars
    <3>3. CASE memory' = [memory EXCEPT !.readable = FALSE, !.fresh = TRUE]
      <4>1. memory' \in Memories /\ memory'.gen = memory.gen BY <3>1, <3>3 DEF Memories
      <4> QED BY <1>1, <4>1 DEF Refreshes, siteVars, gameVars
    <3> QED BY <1>1, <3>2, <3>3 DEF Refreshes
  <2>2. RevokeShapes'
    BY <2>1, NobodyIsAdmitted DEF RevokeInv, RevokeShapes, None, Keepings, Memories, Admitted
  <2>3. RevokeBounds'
    BY <2>1, RevocationAssumption DEF RevokeInv, RevokeShapes, RevokeBounds, None
  <2>4. RevokeOrder'
    BY <2>1 DEF RevokeInv, RevokeShapes, RevokeBounds, RevokeOrder, InForce, Since, NobodyThere, None
  <2>5. DeletedStaysDeleted' /\ NobodyHoldsTheDeleted'
    BY <2>1 DEF RevokeInv, DeletedStaysDeleted, NobodyHoldsTheDeleted, RevokeShapes, RevokeOrder, InForce, Since, None
  <2>6. RevokeKinds' BY <2>1 DEF RevokeInv, RevokeKinds, RemovalKinds, StoredKinds, BackKinds
  <2> QED BY <2>2, <2>3, <2>4, <2>5, <2>6 DEF RevokeInv
<1>2. CASE ReadLeaves
  <2>1. /\ keeps = "store"
        /\ acts < MaxRevocations /\ acts' = acts + 1
        /\ reading' = kept.gen
        /\ UNCHANGED <<keeps, kept, memory, bumping, tool, tokens, conn, call, held, removal, stored, revoked, overwritten, back>>
    BY <1>2 DEF ReadLeaves, Counts, siteVars, gameVars, RevokeInv, RevokeShapes, Keepings, Memories
  <2>2. RevokeShapes'
    BY <2>1, NobodyIsAdmitted DEF RevokeInv, RevokeShapes, None, Keepings, Memories, Admitted
  <2>3. RevokeBounds'
    BY <2>1, RevocationAssumption DEF RevokeInv, RevokeShapes, RevokeBounds, None
  <2>4. RevokeOrder'
    BY <2>1 DEF RevokeInv, RevokeShapes, RevokeBounds, RevokeOrder, InForce, Since, NobodyThere, None
  <2>5. DeletedStaysDeleted' /\ NobodyHoldsTheDeleted'
    BY <2>1 DEF RevokeInv, DeletedStaysDeleted, NobodyHoldsTheDeleted, RevokeShapes, RevokeOrder, InForce, Since, None
  <2>6. RevokeKinds' BY <2>1 DEF RevokeInv, RevokeKinds, RemovalKinds, StoredKinds, BackKinds
  <2> QED BY <2>2, <2>3, <2>4, <2>5, <2>6 DEF RevokeInv
<1>3. CASE ToolBumps
  <2>1. /\ keeps = "store"
        /\ acts < MaxRevocations /\ acts' = acts + 1
        /\ kept' \in Keepings /\ kept'.gen = kept.gen + 1
        /\ UNCHANGED <<keeps, memory, reading, bumping, tool, tokens, conn, call, held, removal, stored, revoked, overwritten, back>>
    BY <1>3 DEF ToolBumps, Counts, siteVars, gameVars, RevokeInv, RevokeShapes, Keepings, Memories
  <2>2. RevokeShapes'
    BY <2>1, NobodyIsAdmitted DEF RevokeInv, RevokeShapes, None, Keepings, Memories, Admitted
  <2>3. RevokeBounds'
    BY <2>1, RevocationAssumption DEF RevokeInv, RevokeShapes, RevokeBounds, None
  <2>4. RevokeOrder'
    BY <2>1 DEF RevokeInv, RevokeShapes, RevokeBounds, RevokeOrder, InForce, Since, NobodyThere, None
  <2>5. DeletedStaysDeleted' /\ NobodyHoldsTheDeleted'
    BY <2>1 DEF RevokeInv, DeletedStaysDeleted, NobodyHoldsTheDeleted, RevokeShapes, RevokeOrder, InForce, Since, None
  <2>6. RevokeKinds' BY <2>1 DEF RevokeInv, RevokeKinds, RemovalKinds, StoredKinds, BackKinds
  <2> QED BY <2>2, <2>3, <2>4, <2>5, <2>6 DEF RevokeInv
<1>4. CASE ToolReads
  <2>1. /\ keeps = "file"
        /\ acts < MaxRevocations /\ acts' = acts + 1
        /\ tool' = kept.gen
        /\ UNCHANGED <<keeps, kept, memory, reading, bumping, tokens, conn, call, held, removal, stored, revoked, overwritten, back>>
    BY <1>4 DEF ToolReads, Counts, siteVars, gameVars, RevokeInv, RevokeShapes, Keepings, Memories
  <2>2. RevokeShapes'
    BY <2>1, NobodyIsAdmitted DEF RevokeInv, RevokeShapes, None, Keepings, Memories, Admitted
  <2>3. RevokeBounds'
    BY <2>1, RevocationAssumption DEF RevokeInv, RevokeShapes, RevokeBounds, None
  <2>4. RevokeOrder'
    BY <2>1 DEF RevokeInv, RevokeShapes, RevokeBounds, RevokeOrder, InForce, Since, NobodyThere, None
  <2>5. DeletedStaysDeleted' /\ NobodyHoldsTheDeleted'
    BY <2>1 DEF RevokeInv, DeletedStaysDeleted, NobodyHoldsTheDeleted, RevokeShapes, RevokeOrder, InForce, Since, None
  <2>6. RevokeKinds' BY <2>1 DEF RevokeInv, RevokeKinds, RemovalKinds, StoredKinds, BackKinds
  <2> QED BY <2>2, <2>3, <2>4, <2>5, <2>6 DEF RevokeInv
<1>5. CASE FileBreaks
  <2>1. /\ acts < MaxRevocations /\ acts' = acts + 1
        /\ kept' \in Keepings /\ kept'.gen = kept.gen
        /\ UNCHANGED <<keeps, memory, reading, bumping, tool, tokens, conn, call, held, removal, stored, revoked, overwritten, back>>
    BY <1>5 DEF FileBreaks, Counts, siteVars, gameVars, RevokeInv, RevokeShapes, Keepings, Memories
  <2>2. RevokeShapes'
    BY <2>1, NobodyIsAdmitted DEF RevokeInv, RevokeShapes, None, Keepings, Memories, Admitted
  <2>3. RevokeBounds'
    BY <2>1, RevocationAssumption DEF RevokeInv, RevokeShapes, RevokeBounds, None
  <2>4. RevokeOrder'
    BY <2>1 DEF RevokeInv, RevokeShapes, RevokeBounds, RevokeOrder, InForce, Since, NobodyThere, None
  <2>5. DeletedStaysDeleted' /\ NobodyHoldsTheDeleted'
    BY <2>1 DEF RevokeInv, DeletedStaysDeleted, NobodyHoldsTheDeleted, RevokeShapes, RevokeOrder, InForce, Since, None
  <2>6. RevokeKinds' BY <2>1 DEF RevokeInv, RevokeKinds, RemovalKinds, StoredKinds, BackKinds
  <2> QED BY <2>2, <2>3, <2>4, <2>5, <2>6 DEF RevokeInv
<1>6. CASE RevokesTokens /\ RevokedInFile
  <2>1. /\ keeps = "file"
        /\ acts < MaxRevocations /\ acts' = acts + 1
        /\ kept' \in Keepings /\ kept'.gen = kept.gen + 1
        /\ (memory' \in Memories /\ memory'.gen = kept.gen + 1)
        /\ UNCHANGED <<keeps, reading, bumping, tool, tokens, conn, call, held, removal, stored, revoked, overwritten, back>>
    BY <1>6 DEF RevokesTokens, RevokedInFile, Knows, Counts, siteVars, gameVars, RevokeInv, RevokeShapes, Keepings, Memories
  <2>2. RevokeShapes'
    BY <2>1, NobodyIsAdmitted DEF RevokeInv, RevokeShapes, None, Keepings, Memories, Admitted
  <2>3. RevokeBounds'
    BY <2>1, RevocationAssumption DEF RevokeInv, RevokeShapes, RevokeBounds, None
  <2>4. RevokeOrder'
    BY <2>1 DEF RevokeInv, RevokeShapes, RevokeBounds, RevokeOrder, InForce, Since, NobodyThere, None
  <2>5. DeletedStaysDeleted' /\ NobodyHoldsTheDeleted'
    BY <2>1 DEF RevokeInv, DeletedStaysDeleted, NobodyHoldsTheDeleted, RevokeShapes, RevokeOrder, InForce, Since, None
  <2>6. RevokeKinds' BY <2>1 DEF RevokeInv, RevokeKinds, RemovalKinds, StoredKinds, BackKinds
  <2> QED BY <2>2, <2>3, <2>4, <2>5, <2>6 DEF RevokeInv
<1>7. CASE RevokesTokens /\ BumpLeaves
  <2>1. /\ keeps = "store"
        /\ acts < MaxRevocations /\ acts' = acts + 1
        /\ kept' \in Keepings /\ kept'.gen = kept.gen + 1 /\ bumping' = kept.gen + 1
        /\ UNCHANGED <<keeps, memory, reading, tool, tokens, conn, call, held, removal, stored, revoked, overwritten, back>>
    BY <1>7 DEF RevokesTokens, BumpLeaves, Counts, siteVars, gameVars, RevokeInv, RevokeShapes, Keepings, Memories
  <2>2. RevokeShapes'
    BY <2>1, NobodyIsAdmitted DEF RevokeInv, RevokeShapes, None, Keepings, Memories, Admitted
  <2>3. RevokeBounds'
    BY <2>1, RevocationAssumption DEF RevokeInv, RevokeShapes, RevokeBounds, None
  <2>4. RevokeOrder'
    BY <2>1 DEF RevokeInv, RevokeShapes, RevokeBounds, RevokeOrder, InForce, Since, NobodyThere, None
  <2>5. DeletedStaysDeleted' /\ NobodyHoldsTheDeleted'
    BY <2>1 DEF RevokeInv, DeletedStaysDeleted, NobodyHoldsTheDeleted, RevokeShapes, RevokeOrder, InForce, Since, None
  <2>6. RevokeKinds' BY <2>1 DEF RevokeInv, RevokeKinds, RemovalKinds, StoredKinds, BackKinds
  <2> QED BY <2>2, <2>3, <2>4, <2>5, <2>6 DEF RevokeInv
<1>8. CASE WindowEnds
  <2>1. /\ memory' \in Memories /\ memory'.gen = memory.gen
        /\ UNCHANGED <<keeps, kept, reading, bumping, tool, tokens, conn, call, held, removal, stored, acts, revoked, overwritten, back>>
    BY <1>8 DEF WindowEnds, siteVars, gameVars, RevokeInv, RevokeShapes, Keepings, Memories
  <2>2. RevokeShapes'
    BY <2>1, NobodyIsAdmitted DEF RevokeInv, RevokeShapes, None, Keepings, Memories, Admitted
  <2>3. RevokeBounds'
    BY <2>1, RevocationAssumption DEF RevokeInv, RevokeShapes, RevokeBounds, None
  <2>4. RevokeOrder'
    BY <2>1 DEF RevokeInv, RevokeShapes, RevokeBounds, RevokeOrder, InForce, Since, NobodyThere, None
  <2>5. DeletedStaysDeleted' /\ NobodyHoldsTheDeleted'
    BY <2>1 DEF RevokeInv, DeletedStaysDeleted, NobodyHoldsTheDeleted, RevokeShapes, RevokeOrder, InForce, Since, None
  <2>6. RevokeKinds' BY <2>1 DEF RevokeInv, RevokeKinds, RemovalKinds, StoredKinds, BackKinds
  <2> QED BY <2>2, <2>3, <2>4, <2>5, <2>6 DEF RevokeInv
<1>9. ASSUME NEW answered \in BOOLEAN, ReadComes(answered) PROVE RevokeInv'
  <2>1. /\ reading # None /\ reading' = None
        /\ \/ memory' = memory
           \/ (memory' \in Memories /\ memory'.gen = IF reading > memory.gen THEN reading ELSE memory.gen)
        /\ UNCHANGED <<keeps, kept, bumping, tool, tokens, conn, call, held, removal, stored, acts, revoked, overwritten, back>>
    <3>1. reading \in Int BY DEF RevokeInv, RevokeShapes
    <3>2. Knows(Merged(reading)) => memory' \in Memories /\ memory'.gen = Merged(reading)
      BY <3>1, KnowsOne, MergesOne
    <3> QED BY <1>9, <3>1, <3>2, MergesOne DEF ReadComes, siteVars, gameVars
  <2>2. RevokeShapes'
    BY <2>1, NobodyIsAdmitted DEF RevokeInv, RevokeShapes, None, Keepings, Memories, Admitted
  <2>3. RevokeBounds'
    BY <2>1, RevocationAssumption DEF RevokeInv, RevokeShapes, RevokeBounds, None
  <2>4. RevokeOrder'
    BY <2>1 DEF RevokeInv, RevokeShapes, RevokeBounds, RevokeOrder, InForce, Since, NobodyThere, None
  <2>5. DeletedStaysDeleted' /\ NobodyHoldsTheDeleted'
    BY <2>1 DEF RevokeInv, DeletedStaysDeleted, NobodyHoldsTheDeleted, RevokeShapes, RevokeOrder, InForce, Since, None
  <2>6. RevokeKinds' BY <2>1 DEF RevokeInv, RevokeKinds, RemovalKinds, StoredKinds, BackKinds
  <2> QED BY <2>2, <2>3, <2>4, <2>5, <2>6 DEF RevokeInv
<1>10. ASSUME NEW raise \in {0, 1}, ToolWrites(raise) PROVE RevokeInv'
  <2>1. /\ tool # None /\ tool' = None
        /\ kept' \in Keepings /\ kept'.gen = tool + raise
        /\ overwritten' = (overwritten \/ kept.gen # tool)
        /\ UNCHANGED <<keeps, memory, reading, bumping, tokens, conn, call, held, removal, stored, acts, revoked, back>>
    BY <1>10 DEF ToolWrites, siteVars, gameVars, RevokeInv, RevokeShapes, Keepings, Memories
  <2>2. RevokeShapes'
    BY <2>1, NobodyIsAdmitted DEF RevokeInv, RevokeShapes, None, Keepings, Memories, Admitted
  <2>3. RevokeBounds'
    BY <2>1, RevocationAssumption DEF RevokeInv, RevokeShapes, RevokeBounds, None
  <2>4. RevokeOrder'
    <3>1. keeps = "file" BY <2>1 DEF RevokeInv, RevokeOrder
    <3>2. ~overwritten' => ~overwritten /\ kept'.gen >= kept.gen
      <4>1. ~overwritten' => ~overwritten /\ kept.gen = tool BY <2>1, Zenon
      <4>2. tool + raise >= tool BY raise \in {0, 1} DEF RevokeInv, RevokeShapes
      <4> QED BY <2>1, <4>1, <4>2
    <3> QED BY <2>1, <3>1, <3>2 DEF RevokeInv, RevokeShapes, RevokeOrder, InForce, Since, None
  <2>5. DeletedStaysDeleted' /\ NobodyHoldsTheDeleted'
    BY <2>1 DEF RevokeInv, DeletedStaysDeleted, NobodyHoldsTheDeleted, RevokeShapes, RevokeOrder, InForce, Since, None
  <2>6. RevokeKinds' BY <2>1 DEF RevokeInv, RevokeKinds, RemovalKinds, StoredKinds, BackKinds
  <2> QED BY <2>2, <2>3, <2>4, <2>5, <2>6 DEF RevokeInv
<1> QED BY <1>1, <1>2, <1>3, <1>4, <1>5, <1>6, <1>7, <1>8, <1>9, <1>10 DEF RevokesTokens

\* Tokens and who is let in with one: it is of the generation that is remembered.
LEMMA TokensStay ==
  ASSUME RevokeInv,
         \/ SiteAsks \/ SiteAnswers \/ RefreshesToken
         \/ \E gen \in tokens, login \in BOOLEAN : CallsIn(gen, login)
         \/ CallLoads \/ Holds \/ LetsGo \/ CutsOff
  PROVE  RevokeInv'
<1>1. CASE SiteAsks
  <2>1. /\ acts < MaxRevocations /\ acts' = acts + 1
        /\ UNCHANGED <<keeps, kept, memory, reading, bumping, tool, tokens, conn, call, held, removal, stored, revoked, overwritten, back>>
    BY <1>1 DEF SiteAsks, Counts, keepVars, gameVars, RevokeInv, RevokeShapes, Keepings, Memories
  <2>2. RevokeShapes'
    BY <2>1, NobodyIsAdmitted DEF RevokeInv, RevokeShapes, None, Keepings, Memories, Admitted
  <2>3. RevokeBounds'
    BY <2>1, RevocationAssumption DEF RevokeInv, RevokeShapes, RevokeBounds, None
  <2>4. RevokeOrder'
    BY <2>1 DEF RevokeInv, RevokeShapes, RevokeBounds, RevokeOrder, InForce, Since, NobodyThere, None
  <2>5. DeletedStaysDeleted' /\ NobodyHoldsTheDeleted'
    BY <2>1 DEF RevokeInv, DeletedStaysDeleted, NobodyHoldsTheDeleted, RevokeShapes, RevokeOrder, InForce, Since, None
  <2>6. RevokeKinds' BY <2>1 DEF RevokeInv, RevokeKinds, RemovalKinds, StoredKinds, BackKinds
  <2> QED BY <2>2, <2>3, <2>4, <2>5, <2>6 DEF RevokeInv
<1>2. CASE SiteAnswers \/ RefreshesToken
  <2>1. /\ tokens' = tokens \cup {memory.gen}
        /\ UNCHANGED <<keeps, kept, memory, reading, bumping, tool, conn, call, held, removal, stored, acts, revoked, overwritten, back>>
    BY <1>2 DEF SiteAnswers, RefreshesToken, Issues, keepVars, gameVars, RevokeInv, RevokeShapes, Keepings, Memories
  <2>2. RevokeShapes'
    BY <2>1, NobodyIsAdmitted DEF RevokeInv, RevokeShapes, None, Keepings, Memories, Admitted
  <2>3. RevokeBounds'
    BY <2>1, RevocationAssumption DEF RevokeInv, RevokeShapes, RevokeBounds, None
  <2>4. RevokeOrder'
    BY <2>1 DEF RevokeInv, RevokeShapes, RevokeBounds, RevokeOrder, InForce, Since, NobodyThere, None
  <2>5. DeletedStaysDeleted' /\ NobodyHoldsTheDeleted'
    BY <2>1 DEF RevokeInv, DeletedStaysDeleted, NobodyHoldsTheDeleted, RevokeShapes, RevokeOrder, InForce, Since, None
  <2>6. RevokeKinds' BY <2>1 DEF RevokeInv, RevokeKinds, RemovalKinds, StoredKinds, BackKinds
  <2> QED BY <2>2, <2>3, <2>4, <2>5, <2>6 DEF RevokeInv
<1>3. ASSUME NEW gen \in tokens, NEW login \in BOOLEAN, CallsIn(gen, login) PROVE RevokeInv'
  <2>1. /\ gen = memory.gen /\ call' \in Admitted /\ call'.gen = gen /\ (conn' = call' \/ conn' = conn)
        /\ UNCHANGED <<keeps, kept, memory, reading, bumping, tool, tokens, held, removal, stored, acts, revoked, overwritten, back>>
    BY <1>3 DEF CallsIn, TakesToken, keepVars, siteVars, RevokeInv, RevokeShapes, Keepings, Memories, Admitted, NobodyThere
  <2>2. RevokeShapes'
    BY <2>1, NobodyIsAdmitted DEF RevokeInv, RevokeShapes, None, Keepings, Memories, Admitted
  <2>3. RevokeBounds'
    BY <2>1, RevocationAssumption DEF RevokeInv, RevokeShapes, RevokeBounds, None
  <2>4. RevokeOrder'
    BY <2>1 DEF RevokeInv, RevokeShapes, RevokeBounds, RevokeOrder, InForce, Since, NobodyThere, None
  <2>5. DeletedStaysDeleted' /\ NobodyHoldsTheDeleted'
    BY <2>1 DEF RevokeInv, DeletedStaysDeleted, NobodyHoldsTheDeleted, RevokeShapes, RevokeOrder, InForce, Since, None
  <2>6. RevokeKinds' BY <2>1 DEF RevokeInv, RevokeKinds, RemovalKinds, StoredKinds, BackKinds
  <2> QED BY <2>2, <2>3, <2>4, <2>5, <2>6 DEF RevokeInv
<1>4. CASE CallLoads
  <2>1. /\ call # NobodyThere /\ call' = NobodyThere
        /\ \/ UNCHANGED <<stored, back>>
           \/ /\ stored' = "again"
              /\ back' = IF call.before THEN "late" ELSE IF call.gen >= revoked THEN "issued since" ELSE "wrong"
        /\ UNCHANGED <<keeps, kept, memory, reading, bumping, tool, tokens, conn, held, removal, acts, revoked, overwritten>>
    BY <1>4 DEF CallLoads, GoneBack, keepVars, siteVars, RevokeInv, RevokeShapes, Keepings, Memories
  <2>2. RevokeShapes'
    BY <2>1, NobodyIsAdmitted DEF RevokeInv, RevokeShapes, None, Keepings, Memories, Admitted
  <2>3. RevokeBounds'
    BY <2>1, RevocationAssumption DEF RevokeInv, RevokeShapes, RevokeBounds, None
  <2>4. RevokeOrder'
    BY <2>1 DEF RevokeInv, RevokeShapes, RevokeBounds, RevokeOrder, InForce, Since, NobodyThere, None
  <2>5. DeletedStaysDeleted' /\ NobodyHoldsTheDeleted'
    BY <2>1 DEF RevokeInv, DeletedStaysDeleted, NobodyHoldsTheDeleted, RevokeShapes, RevokeOrder, InForce, Since, None
  <2>6. RemovalKinds' BY <2>1 DEF RevokeInv, RevokeKinds, RemovalKinds
  <2>7. StoredKinds' /\ BackKinds' BY <2>1 DEF RevokeInv, RevokeKinds, StoredKinds, BackKinds
  <2> QED BY <2>2, <2>3, <2>4, <2>5, <2>6, <2>7 DEF RevokeInv, RevokeKinds
<1>5. CASE Holds
  <2>1. /\ conn # NobodyThere
        /\ \/ stored # "gone" /\ UNCHANGED <<stored, back>>
           \/ /\ stored' = "again"
              /\ back' = IF conn.before THEN "late" ELSE IF conn.gen >= revoked THEN "issued since" ELSE "wrong"
        /\ UNCHANGED <<keeps, kept, memory, reading, bumping, tool, tokens, conn, call, removal, acts, revoked, overwritten>>
    BY <1>5 DEF Holds, GoneBack, keepVars, siteVars, RevokeInv, RevokeShapes, Keepings, Memories
  <2>2. RevokeShapes'
    BY <2>1, NobodyIsAdmitted DEF RevokeInv, RevokeShapes, None, Keepings, Memories, Admitted
  <2>3. RevokeBounds'
    BY <2>1, RevocationAssumption DEF RevokeInv, RevokeShapes, RevokeBounds, None
  <2>4. RevokeOrder'
    BY <2>1 DEF RevokeInv, RevokeShapes, RevokeBounds, RevokeOrder, InForce, Since, NobodyThere, None
  <2>5. DeletedStaysDeleted' /\ NobodyHoldsTheDeleted'
    BY <2>1 DEF RevokeInv, DeletedStaysDeleted, NobodyHoldsTheDeleted, RevokeShapes, RevokeOrder, InForce, Since, None
  <2>6. RemovalKinds' BY <2>1 DEF RevokeInv, RevokeKinds, RemovalKinds
  <2>7. StoredKinds' /\ BackKinds' BY <2>1 DEF RevokeInv, RevokeKinds, StoredKinds, BackKinds
  <2> QED BY <2>2, <2>3, <2>4, <2>5, <2>6, <2>7 DEF RevokeInv, RevokeKinds
<1>6. CASE LetsGo
  <2>1. /\ ~held'
        /\ UNCHANGED <<keeps, kept, memory, reading, bumping, tool, tokens, conn, call, removal, stored, acts, revoked, overwritten, back>>
    BY <1>6 DEF LetsGo, keepVars, siteVars, RevokeInv, RevokeShapes, Keepings, Memories
  <2>2. RevokeShapes'
    BY <2>1, NobodyIsAdmitted DEF RevokeInv, RevokeShapes, None, Keepings, Memories, Admitted
  <2>3. RevokeBounds'
    BY <2>1, RevocationAssumption DEF RevokeInv, RevokeShapes, RevokeBounds, None
  <2>4. RevokeOrder'
    BY <2>1 DEF RevokeInv, RevokeShapes, RevokeBounds, RevokeOrder, InForce, Since, NobodyThere, None
  <2>5. DeletedStaysDeleted' /\ NobodyHoldsTheDeleted'
    BY <2>1 DEF RevokeInv, DeletedStaysDeleted, NobodyHoldsTheDeleted, RevokeShapes, RevokeOrder, InForce, Since, None
  <2>6. RevokeKinds' BY <2>1 DEF RevokeInv, RevokeKinds, RemovalKinds, StoredKinds, BackKinds
  <2> QED BY <2>2, <2>3, <2>4, <2>5, <2>6 DEF RevokeInv
<1>7. CASE CutsOff
  <2>1. /\ conn' = NobodyThere
        /\ UNCHANGED <<keeps, kept, memory, reading, bumping, tool, tokens, call, held, removal, stored, acts, revoked, overwritten, back>>
    BY <1>7 DEF CutsOff, keepVars, siteVars, RevokeInv, RevokeShapes, Keepings, Memories
  <2>2. RevokeShapes'
    BY <2>1, NobodyIsAdmitted DEF RevokeInv, RevokeShapes, None, Keepings, Memories, Admitted
  <2>3. RevokeBounds'
    BY <2>1, RevocationAssumption DEF RevokeInv, RevokeShapes, RevokeBounds, None
  <2>4. RevokeOrder'
    BY <2>1 DEF RevokeInv, RevokeShapes, RevokeBounds, RevokeOrder, InForce, Since, NobodyThere, None
  <2>5. DeletedStaysDeleted' /\ NobodyHoldsTheDeleted'
    BY <2>1 DEF RevokeInv, DeletedStaysDeleted, NobodyHoldsTheDeleted, RevokeShapes, RevokeOrder, InForce, Since, None
  <2>6. RevokeKinds' BY <2>1 DEF RevokeInv, RevokeKinds, RemovalKinds, StoredKinds, BackKinds
  <2> QED BY <2>2, <2>3, <2>4, <2>5, <2>6 DEF RevokeInv
<1> QED BY <1>1, <1>2, <1>3, <1>4, <1>5, <1>6, <1>7

\* The deletion: what it raised is remembered as it goes on.
LEMMA RemovalStays ==
  ASSUME RevokeInv,
         \/ \E answered \in BOOLEAN : BumpAnswers(answered)
         \/ RemovalAsked \/ LooksForHolder \/ Deletes \/ GivesUp
  PROVE  RevokeInv'
<1>1. ASSUME NEW answered \in BOOLEAN, BumpAnswers(answered), removal # "revoking" \/ ~answered PROVE RevokeInv'
  <2>1. /\ bumping # None /\ bumping' = None
        /\ \/ memory' = memory
           \/ (memory' \in Memories /\ memory'.gen = IF bumping > memory.gen THEN bumping ELSE memory.gen)
        /\ removal' = removal \/ removal' = "none"
        /\ UNCHANGED <<keeps, kept, reading, tool, tokens, conn, call, held, stored, acts, revoked, overwritten, back>>
    <3>1. bumping \in Int BY DEF RevokeInv, RevokeShapes
    <3>2. Knows(Merged(bumping)) => memory' \in Memories /\ memory'.gen = Merged(bumping)
      BY <3>1, KnowsOne, MergesOne
    <3> QED BY <1>1, <3>1, <3>2, MergesOne DEF BumpAnswers, siteVars, heldVars
  <2>2. RevokeShapes'
    BY <2>1, NobodyIsAdmitted DEF RevokeInv, RevokeShapes, None, Keepings, Memories, Admitted
  <2>3. RevokeBounds'
    BY <2>1, RevocationAssumption DEF RevokeInv, RevokeShapes, RevokeBounds, None
  <2>4. RevokeOrder'
    BY <2>1 DEF RevokeInv, RevokeShapes, RevokeBounds, RevokeOrder, InForce, Since, NobodyThere, None
  <2>5. DeletedStaysDeleted' /\ NobodyHoldsTheDeleted'
    BY <2>1 DEF RevokeInv, DeletedStaysDeleted, NobodyHoldsTheDeleted, RevokeShapes, RevokeOrder, InForce, Since, None
  <2>6. RemovalKinds' BY <2>1 DEF RevokeInv, RevokeKinds, RemovalKinds
  <2>7. StoredKinds' /\ BackKinds' BY <2>1 DEF RevokeInv, RevokeKinds, StoredKinds, BackKinds
  <2> QED BY <2>2, <2>3, <2>4, <2>5, <2>6, <2>7 DEF RevokeInv, RevokeKinds
<1>2. ASSUME NEW answered \in BOOLEAN, BumpAnswers(answered), removal = "revoking", answered PROVE RevokeInv'
  <2>1. /\ bumping # None /\ bumping' = None
        /\ (memory' \in Memories /\ memory'.gen = IF bumping > memory.gen THEN bumping ELSE memory.gen)
        /\ removal' = "waiting" /\ revoked' = bumping
        /\ conn' = NobodyThere /\ call' \in Admitted /\ (call' = NobodyThere \/ call'.before)
        /\ UNCHANGED <<keeps, kept, reading, tool, tokens, held, stored, acts, overwritten, back>>
    <3>1. bumping \in Int BY DEF RevokeInv, RevokeShapes
    <3>2. Knows(Merged(bumping)) => memory' \in Memories /\ memory'.gen = Merged(bumping)
      BY <3>1, KnowsOne, MergesOne
    <3>3. Revoked(bumping) /\ Knows(Merged(bumping)) BY <1>2 DEF BumpAnswers
    <3> QED BY <1>2, <3>1, <3>2, <3>3, MergesOne, LetInBefore DEF BumpAnswers, siteVars, heldVars
  <2>2. RevokeShapes'
    BY <2>1, NobodyIsAdmitted DEF RevokeInv, RevokeShapes, None, Keepings, Memories, Admitted
  <2>3. RevokeBounds'
    BY <2>1, RevocationAssumption DEF RevokeInv, RevokeShapes, RevokeBounds, None
  <2>4. RevokeOrder'
    BY <2>1 DEF RevokeInv, RevokeShapes, RevokeBounds, RevokeOrder, InForce, Since, NobodyThere, None
  <2>5. DeletedStaysDeleted' /\ NobodyHoldsTheDeleted'
    BY <2>1 DEF RevokeInv, DeletedStaysDeleted, NobodyHoldsTheDeleted, RevokeShapes, RevokeOrder, InForce, Since, None
  <2>6. RemovalKinds' BY <2>1 DEF RevokeInv, RevokeKinds, RemovalKinds
  <2>7. StoredKinds' /\ BackKinds' BY <2>1 DEF RevokeInv, RevokeKinds, StoredKinds, BackKinds
  <2> QED BY <2>2, <2>3, <2>4, <2>5, <2>6, <2>7 DEF RevokeInv, RevokeKinds
<1>3. CASE RemovalAsked /\ RevokedInFile
  <2>1. /\ keeps = "file"
        /\ acts < MaxRevocations /\ acts' = acts + 1
        /\ kept' \in Keepings /\ kept'.gen = kept.gen + 1
        /\ (memory' \in Memories /\ memory'.gen = kept.gen + 1)
        /\ removal' = "waiting" /\ revoked' = kept.gen + 1
        /\ conn' = NobodyThere /\ call' \in Admitted /\ (call' = NobodyThere \/ call'.before)
        /\ UNCHANGED <<keeps, reading, bumping, tool, tokens, held, stored, overwritten, back>>
    <3>1. kept \in Keepings /\ kept.gen \in Int /\ kept.gen + 1 \in Int
      BY DEF RevokeInv, RevokeShapes
    <3>2. Revoked(kept.gen + 1) /\ Knows(kept.gen + 1)
      <4>1. keeps # "store" BY <1>3 DEF RevokedInFile
      <4> QED BY <1>3, <4>1 DEF RemovalAsked, RevokedInFile, BumpLeaves
    <3>3. [kept EXCEPT !.gen = @ + 1] \in Keepings /\ [kept EXCEPT !.gen = @ + 1].gen = kept.gen + 1
      BY <3>1 DEF Keepings
    <3>4. memory' \in Memories /\ memory'.gen = kept.gen + 1 BY <3>1, <3>2, KnowsOne
    <3> QED BY <1>3, <3>1, <3>2, <3>3, <3>4, LetInBefore DEF RemovalAsked, RevokedInFile, Counts, siteVars, heldVars
  <2>2. RevokeShapes'
    BY <2>1, NobodyIsAdmitted DEF RevokeInv, RevokeShapes, None, Keepings, Memories, Admitted
  <2>3. RevokeBounds'
    BY <2>1, RevocationAssumption DEF RevokeInv, RevokeShapes, RevokeBounds, None
  <2>4. RevokeOrder'
    BY <2>1 DEF RevokeInv, RevokeShapes, RevokeBounds, RevokeOrder, InForce, Since, NobodyThere, None
  <2>5. DeletedStaysDeleted' /\ NobodyHoldsTheDeleted'
    BY <2>1 DEF RevokeInv, DeletedStaysDeleted, NobodyHoldsTheDeleted, RevokeShapes, RevokeOrder, InForce, Since, None
  <2>6. RemovalKinds' BY <2>1 DEF RevokeInv, RevokeKinds, RemovalKinds
  <2>7. StoredKinds' /\ BackKinds' BY <2>1 DEF RevokeInv, RevokeKinds, StoredKinds, BackKinds
  <2> QED BY <2>2, <2>3, <2>4, <2>5, <2>6, <2>7 DEF RevokeInv, RevokeKinds
<1>4. CASE RemovalAsked /\ BumpLeaves
  <2>1. /\ keeps = "store"
        /\ acts < MaxRevocations /\ acts' = acts + 1
        /\ kept' \in Keepings /\ kept'.gen = kept.gen + 1 /\ bumping' = kept.gen + 1
        /\ removal' = "revoking"
        /\ UNCHANGED <<keeps, memory, reading, tool, tokens, conn, call, held, stored, revoked, overwritten, back>>
    BY <1>4 DEF RemovalAsked, RevokedInFile, BumpLeaves, Counts, siteVars, heldVars, RevokeInv, RevokeShapes, Keepings, Memories
  <2>2. RevokeShapes'
    BY <2>1, NobodyIsAdmitted DEF RevokeInv, RevokeShapes, None, Keepings, Memories, Admitted
  <2>3. RevokeBounds'
    BY <2>1, RevocationAssumption DEF RevokeInv, RevokeShapes, RevokeBounds, None
  <2>4. RevokeOrder'
    BY <2>1 DEF RevokeInv, RevokeShapes, RevokeBounds, RevokeOrder, InForce, Since, NobodyThere, None
  <2>5. DeletedStaysDeleted' /\ NobodyHoldsTheDeleted'
    BY <2>1 DEF RevokeInv, DeletedStaysDeleted, NobodyHoldsTheDeleted, RevokeShapes, RevokeOrder, InForce, Since, None
  <2>6. RemovalKinds' BY <2>1 DEF RevokeInv, RevokeKinds, RemovalKinds
  <2>7. StoredKinds' /\ BackKinds' BY <2>1 DEF RevokeInv, RevokeKinds, StoredKinds, BackKinds
  <2> QED BY <2>2, <2>3, <2>4, <2>5, <2>6, <2>7 DEF RevokeInv, RevokeKinds
<1>5. CASE LooksForHolder \/ GivesUp
  <2>1. /\ removal' \in {"locking", "none"}
        /\ UNCHANGED <<keeps, kept, memory, reading, bumping, tool, tokens, conn, call, held, stored, acts, revoked, overwritten, back>>
    BY <1>5 DEF LooksForHolder, GivesUp, keepVars, siteVars, gameVars, RevokeInv, RevokeShapes, Keepings, Memories
  <2>2. RevokeShapes'
    BY <2>1, NobodyIsAdmitted DEF RevokeInv, RevokeShapes, None, Keepings, Memories, Admitted
  <2>3. RevokeBounds'
    BY <2>1, RevocationAssumption DEF RevokeInv, RevokeShapes, RevokeBounds, None
  <2>4. RevokeOrder'
    BY <2>1 DEF RevokeInv, RevokeShapes, RevokeBounds, RevokeOrder, InForce, Since, NobodyThere, None
  <2>5. DeletedStaysDeleted' /\ NobodyHoldsTheDeleted'
    BY <2>1 DEF RevokeInv, DeletedStaysDeleted, NobodyHoldsTheDeleted, RevokeShapes, RevokeOrder, InForce, Since, None
  <2>6. RemovalKinds' BY <2>1 DEF RevokeInv, RevokeKinds, RemovalKinds
  <2>7. StoredKinds' /\ BackKinds' BY <2>1 DEF RevokeInv, RevokeKinds, StoredKinds, BackKinds
  <2> QED BY <2>2, <2>3, <2>4, <2>5, <2>6, <2>7 DEF RevokeInv, RevokeKinds
<1>6. CASE Deletes
  <2>1. /\ \/ ~held /\ removal' = "done" /\ stored' = "gone"
           \/ removal' = "waiting" /\ stored' = stored
        /\ UNCHANGED <<keeps, kept, memory, reading, bumping, tool, tokens, conn, call, held, acts, revoked, overwritten, back>>
    BY <1>6 DEF Deletes, MayDelete, keepVars, siteVars, RevokeInv, RevokeShapes, Keepings, Memories
  <2>2. RevokeShapes'
    BY <2>1, NobodyIsAdmitted DEF RevokeInv, RevokeShapes, None, Keepings, Memories, Admitted
  <2>3. RevokeBounds'
    BY <2>1, RevocationAssumption DEF RevokeInv, RevokeShapes, RevokeBounds, None
  <2>4. RevokeOrder'
    BY <2>1 DEF RevokeInv, RevokeShapes, RevokeBounds, RevokeOrder, InForce, Since, NobodyThere, None
  <2>5. DeletedStaysDeleted' /\ NobodyHoldsTheDeleted'
    BY <2>1 DEF RevokeInv, DeletedStaysDeleted, NobodyHoldsTheDeleted, RevokeShapes, RevokeOrder, InForce, Since, None
  <2>6. RemovalKinds' BY <2>1 DEF RevokeInv, RevokeKinds, RemovalKinds
  <2>7. StoredKinds' /\ BackKinds' BY <2>1 DEF RevokeInv, RevokeKinds, StoredKinds, BackKinds
  <2> QED BY <2>2, <2>3, <2>4, <2>5, <2>6, <2>7 DEF RevokeInv, RevokeKinds
<1> QED BY <1>1, <1>2, <1>3, <1>4, <1>5, <1>6 DEF RemovalAsked

LEMMA RevokeStays == ASSUME RevokeInv, [RevokeNext]_revokeVars PROVE RevokeInv'
<1>1. CASE UNCHANGED revokeVars
  <2>1. UNCHANGED <<keeps, kept, memory, reading, bumping, tool, tokens, conn, call, held, removal, stored, acts, revoked, overwritten, back>>
    BY <1>1 DEF revokeVars
  <2>2. RevokeShapes' /\ RevokeBounds' /\ RevokeOrder' /\ DeletedStaysDeleted' /\ NobodyHoldsTheDeleted'
    BY <2>1 DEF RevokeInv, RevokeShapes, RevokeBounds, RevokeOrder, InForce, Since, DeletedStaysDeleted, NobodyHoldsTheDeleted
  <2>3. RevokeKinds' BY <2>1 DEF RevokeInv, RevokeKinds, RemovalKinds, StoredKinds, BackKinds
  <2> QED BY <2>2, <2>3 DEF RevokeInv
<1> QED BY <1>1, KeepingStays, TokensStay, RemovalStays DEF RevokeNext

-----------------------------------------------------------------------------
(* Sign-outs and denials (WebSessions).                                    *)

\* What was issued is of now or of before: a session and a pass last no longer than from now, and the
\* last sign-out is over.
Knocks(o) == o = [code |-> o.code, launch |-> o.launch, renewal |-> o.renewal]
WebClocks ==
  /\ clock \in Nat /\ signedOut \in Int /\ signedOut <= clock /\ signedOut >= Never
  /\ pass.expiry \in Int /\ pass.expiry <= Second + PassTtl
  /\ pass.expiry # Never => pass.expiry >= PassTtl
  /\ \A t \in sessions : t.expiry \in Int /\ (t.by # "kept" => t.expiry <= Second + SessionTtl)
\* A launch and a renewal that are under way came across a denial or did not; a renewal by the desktop's
\* token is neither.
WebRequests ==
  /\ Knocks(opening)
  /\ opening.launch \notin {"idle", "on"} => opening.launch = "across"
  /\ opening.renewal \notin {"idle", "on", "desktop"} => opening.renewal = "across"
WebShapes == WebClocks /\ WebRequests
WebInv == WebShapes /\ DenialsHold

LEMMA Halved2 ==
  ASSUME NEW n \in Nat
  PROVE  n \div 2 \in Nat /\ 2 * (n \div 2) <= n /\ n <= 2 * (n \div 2) + 1
OBVIOUS

LEMMA SecondIs ==
  ASSUME WebInv
  PROVE  Second \in Nat /\ 2 * Second <= clock /\ clock <= 2 * Second + 1
BY Halved2 DEF Second, WebInv, WebShapes, WebClocks

LEMMA TermsArePositive ==
  SessionTtl \in Nat \ {0} /\ PassTtl \in Nat \ {0} /\ KeptTtl \in Nat \ {0}
BY WebSessionsAssumption

LEMMA WebBegins == WebInit => WebInv
<1> SUFFICES ASSUME WebInit PROVE WebInv OBVIOUS
<1>1. Second = 0 /\ clock = 0 BY DEF WebInit, Second
<1>2. WebClocks BY <1>1, TermsArePositive DEF WebInit, WebClocks, Never, KeptToken
<1>3. WebRequests BY DEF WebInit, WebRequests, NotOpening, Knocks
<1>4. DenialsHold BY DEF WebInit, DenialsHold
<1> QED BY <1>2, <1>3, <1>4 DEF WebInv, WebShapes

\* A token of a sign-in is judged by when it was issued.
LEMMA SessionsAreTaken ==
  ASSUME WebInv, NEW t \in sessions, t.by # "kept"
  PROVE  Accepts(t) <=> t.expiry > Second /\ ~IssuedBeforeSignOut(t.expiry - SessionTtl)
BY SecondIs, TermsArePositive DEF Accepts, TakenForSession, WebInv, WebShapes, WebClocks

\* What is under way is a record of three, whatever becomes of one of them.
LEMMA RequestsAreThree ==
  ASSUME NEW o, Knocks(o), NEW v
  PROVE  /\ Knocks([o EXCEPT !.code = v]) /\ Knocks([o EXCEPT !.launch = v])
         /\ Knocks([o EXCEPT !.renewal = v])
         /\ [o EXCEPT !.code = v].code = v /\ [o EXCEPT !.code = v].launch = o.launch
         /\ [o EXCEPT !.code = v].renewal = o.renewal
         /\ [o EXCEPT !.launch = v].launch = v /\ [o EXCEPT !.launch = v].code = o.code
         /\ [o EXCEPT !.launch = v].renewal = o.renewal
         /\ [o EXCEPT !.renewal = v].renewal = v /\ [o EXCEPT !.renewal = v].launch = o.launch
         /\ [o EXCEPT !.renewal = v].code = o.code
BY DEF Knocks

LEMMA AcrossIs ==
  ASSUME NEW o, Knocks(o)
  PROVE  /\ Knocks(Across(o))
         /\ Across(o).code = IF o.code = "approved" THEN "across" ELSE o.code
         /\ Across(o).launch = IF o.launch = "on" THEN "across" ELSE o.launch
         /\ Across(o).renewal = IF o.renewal = "on" THEN "across" ELSE o.renewal
<1> DEFINE c == IF o.code = "approved" THEN "across" ELSE o.code
           l == IF o.launch = "on" THEN "across" ELSE o.launch
           r == IF o.renewal = "on" THEN "across" ELSE o.renewal
<1>1. Across(o) = [[[o EXCEPT !.code = c] EXCEPT !.launch = l] EXCEPT !.renewal = r]
  <2>1. Across(o) = [o EXCEPT !.code = c, !.launch = l, !.renewal = r] BY DEF Across
  <2> HIDE DEF c, l, r
  <2> QED BY <2>1 DEF Knocks
<1> HIDE DEF c, l, r
<1>2. Across(o) = [code |-> c, launch |-> l, renewal |-> r] BY <1>1 DEF Knocks
<1>3. Knocks(Across(o)) /\ Across(o).code = c /\ Across(o).launch = l /\ Across(o).renewal = r
  BY <1>2 DEF Knocks
<1> QED BY <1>3 DEF c, l, r

\* Neither tokens nor the clock nor the last sign-out: what is asked for and goes on.
LEMMA RequestsStay ==
  ASSUME WebInv,
         \/ RequestsAccess \/ CodeAsked \/ CodeComes \/ Launches \/ HangsUp
         \/ \E state \in {"approved", "denied"} : Decides(state)
         \/ \E t \in sessions : RenewalAsked(t) \/ Plays(t)
  PROVE  WebInv'
<1>1. UNCHANGED <<clock, signedOut, sessions, pass>>
  BY DEF RequestsAccess, CodeAsked, CodeComes, Launches, HangsUp, Decides, RenewalAsked, Plays
<1>2. \A t : Accepts(t)' <=> Accepts(t)
  BY <1>1 DEF Accepts, TakenForSession, IssuedBeforeSignOut, Second
<1>3. PassHolds' <=> PassHolds BY <1>1 DEF PassHolds, IssuedBeforeSignOut, Second
<1>4. WebClocks' BY <1>1 DEF WebInv, WebShapes, WebClocks, Second
<1>5. WebRequests /\ DenialsHold BY DEF WebInv, WebShapes
<1>6. CASE RequestsAccess \/ \E state \in {"approved", "denied"} : Decides(state)
  <2>1. UNCHANGED opening BY <1>6, Zenon DEF RequestsAccess, Decides
  <2>2. access' = "denied" => deciding'
    <3>1. CASE RequestsAccess BY <3>1 DEF RequestsAccess
    <3>2. ASSUME NEW state \in {"approved", "denied"}, Decides(state) PROVE access' = "denied" => deciding'
      BY <3>2 DEF Decides
    <3> QED BY <1>6, <3>1, <3>2
  <2> QED BY <2>1, <2>2, <1>4, <1>5 DEF WebInv, WebShapes, WebRequests, DenialsHold
<1>7. CASE CodeAsked
  <2>1. opening' = [opening EXCEPT !.code = access] /\ UNCHANGED <<access, deciding, code>>
    BY <1>7 DEF CodeAsked
  <2>2. Knocks(opening)' /\ opening'.code = access /\ opening'.launch = opening.launch
        /\ opening'.renewal = opening.renewal
    BY <2>1, <1>5, RequestsAreThree DEF WebRequests
  <2>3. WebRequests' BY <2>1, <2>2, <1>5 DEF WebRequests
  <2>4. DenialsHold' BY <2>1, <2>2, <1>1, <1>2, <1>3, <1>5 DEF DenialsHold
  <2> QED BY <2>3, <2>4, <1>4 DEF WebInv, WebShapes
<1>8. CASE CodeComes
  <2>1. /\ opening' = [opening EXCEPT !.code = "idle"] /\ UNCHANGED <<access, deciding>>
        /\ code' = IF opening.code \in {"approved", "across"}
                   THEN [lapses |-> Second + CodeTtl, across |-> opening.code = "across"] ELSE code
    BY <1>8 DEF CodeComes
  <2>2. Knocks(opening)' /\ opening'.code = "idle" /\ opening'.launch = opening.launch
        /\ opening'.renewal = opening.renewal
    BY <2>1, <1>5, RequestsAreThree DEF WebRequests
  <2>3. WebRequests' BY <2>1, <2>2, <1>5 DEF WebRequests
  <2>4. code' = code \/ (code'.across <=> opening.code # "approved") BY <2>1
  <2>5. DenialsHold' BY <2>1, <2>2, <2>4, <1>1, <1>2, <1>3, <1>5 DEF DenialsHold
  <2> QED BY <2>3, <2>5, <1>4 DEF WebInv, WebShapes
<1>9. CASE Launches
  <2> DEFINE way == IF code.lapses <= Second THEN opening.launch ELSE IF code.across THEN "across" ELSE "on"
  <2>1. /\ opening' = [opening EXCEPT !.launch = way] /\ UNCHANGED <<access, deciding>>
        /\ code' = NoCode /\ code # NoCode /\ opening.launch = "idle"
    BY <1>9 DEF Launches
  <2>2. way \in {"idle", "on", "across"} /\ (way = "on" => ~code.across) BY <2>1
  <2> HIDE DEF way
  <2>3. Knocks(opening)' /\ opening'.code = opening.code /\ opening'.launch = way
        /\ opening'.renewal = opening.renewal
    BY <2>1, <1>5, RequestsAreThree DEF WebRequests
  <2>4. WebRequests' BY <2>1, <2>2, <2>3, <1>5 DEF WebRequests
  <2>5. DenialsHold' BY <2>1, <2>2, <2>3, <1>1, <1>2, <1>3, <1>5 DEF DenialsHold
  <2> QED BY <2>4, <2>5, <1>4 DEF WebInv, WebShapes
<1>10. CASE HangsUp \/ \E t \in sessions : Plays(t)
  <2>1. UNCHANGED <<opening, access, deciding, code>> BY <1>10 DEF HangsUp, Plays
  <2> QED BY <2>1, <1>1, <1>2, <1>3, <1>4, <1>5 DEF WebInv, WebShapes, WebRequests, DenialsHold
<1>11. ASSUME NEW t \in sessions, RenewalAsked(t) PROVE WebInv'
  <2> DEFINE way == IF t.across THEN "across" ELSE IF t.by = "launch" THEN "on" ELSE "desktop"
  <2>1. /\ opening' = [opening EXCEPT !.renewal = way] /\ UNCHANGED <<access, deciding, code>>
        /\ Accepts(t)
    BY <1>11 DEF RenewalAsked
  <2>2. way \in {"on", "across", "desktop"} /\ (way = "on" => ~t.across /\ t.by = "launch")
    OBVIOUS
  <2> HIDE DEF way
  <2>3. Knocks(opening)' /\ opening'.code = opening.code /\ opening'.launch = opening.launch
        /\ opening'.renewal = way
    BY <2>1, <2>2, <1>5, RequestsAreThree DEF WebRequests
  <2>4. WebRequests' BY <2>1, <2>2, <2>3, <1>5 DEF WebRequests
  <2>5. DenialsHold' BY <2>1, <2>2, <2>3, <1>1, <1>2, <1>3, <1>5 DEF DenialsHold
  <2> QED BY <2>4, <2>5, <1>4 DEF WebInv, WebShapes
<1> QED BY <1>6, <1>7, <1>8, <1>9, <1>10, <1>11

\* A launch ends: what it came across is on the token and on the pass that it issues.
LEMMA LaunchesEnd == ASSUME WebInv, LaunchEnds PROVE WebInv'
<1> DEFINE token == [expiry |-> Second + SessionTtl, by |-> "launch", across |-> opening.launch = "across"]
<1>1. /\ opening.launch # "idle" /\ opening' = [opening EXCEPT !.launch = "idle"]
      /\ sessions' = sessions \cup {token}
      /\ pass' = [expiry |-> Second + PassTtl, across |-> opening.launch = "across"]
      /\ UNCHANGED <<clock, access, deciding, signedOut, code>>
  BY DEF LaunchEnds
<1>2. WebRequests /\ DenialsHold /\ WebClocks /\ UNCHANGED Second
  BY <1>1 DEF WebInv, WebShapes, Second
<1>3. token.expiry = Second + SessionTtl /\ token.by = "launch" /\ (token.across <=> opening.launch = "across")
  OBVIOUS
<1> HIDE DEF token
<1>4. Knocks(opening)' /\ opening'.code = opening.code /\ opening'.launch = "idle"
      /\ opening'.renewal = opening.renewal
  BY <1>1, <1>2, RequestsAreThree DEF WebRequests
<1>5. WebRequests' BY <1>1, <1>2, <1>4 DEF WebRequests
<1>6. WebClocks' BY <1>1, <1>2, <1>3, SecondIs, TermsArePositive DEF WebClocks
<1>7. \A t : Accepts(t)' <=> Accepts(t)
  BY <1>1, <1>2 DEF Accepts, TakenForSession, IssuedBeforeSignOut
<1>8. pass'.across <=> opening.launch = "across" BY <1>1
<1>9. DenialsHold' BY <1>1, <1>2, <1>3, <1>4, <1>7, <1>8 DEF DenialsHold, WebRequests
<1> QED BY <1>5, <1>6, <1>9 DEF WebInv, WebShapes

LEMMA RenewalsEnd == ASSUME WebInv, RenewalEnds PROVE WebInv'
<1> DEFINE token == [expiry |-> Second + SessionTtl, by |-> IF opening.renewal = "desktop" THEN "desktop" ELSE "launch",
                     across |-> opening.renewal = "across"]
<1>1. /\ opening.renewal # "idle" /\ opening' = [opening EXCEPT !.renewal = "idle"]
      /\ sessions' = sessions \cup {token}
      /\ UNCHANGED <<clock, access, deciding, signedOut, code, pass>>
  BY DEF RenewalEnds
<1>2. WebRequests /\ DenialsHold /\ WebClocks /\ UNCHANGED Second
  BY <1>1 DEF WebInv, WebShapes, Second
<1>3. /\ token.expiry = Second + SessionTtl
      /\ token.by = "launch" => opening.renewal # "desktop"
      /\ token.across <=> opening.renewal = "across"
  OBVIOUS
<1> HIDE DEF token
<1>4. Knocks(opening)' /\ opening'.code = opening.code /\ opening'.launch = opening.launch
      /\ opening'.renewal = "idle"
  BY <1>1, <1>2, RequestsAreThree DEF WebRequests
<1>5. WebRequests' BY <1>1, <1>2, <1>4 DEF WebRequests
<1>6. WebClocks' BY <1>1, <1>2, <1>3, SecondIs, TermsArePositive DEF WebClocks
<1>7. \A t : Accepts(t)' <=> Accepts(t)
  BY <1>1, <1>2 DEF Accepts, TakenForSession, IssuedBeforeSignOut
<1>8. PassHolds' <=> PassHolds BY <1>1, <1>2 DEF PassHolds, IssuedBeforeSignOut
<1>9. DenialsHold' BY <1>1, <1>2, <1>3, <1>4, <1>7, <1>8 DEF DenialsHold, WebRequests
<1> QED BY <1>5, <1>6, <1>9 DEF WebInv, WebShapes

\* A file is asked for on a pass that holds, and what that came across the new one keeps.
LEMMA FilesAreServed == ASSUME WebInv, FileAsked PROVE WebInv'
<1>1. /\ PassHolds /\ pass' = [pass EXCEPT !.expiry = Second + PassTtl]
      /\ UNCHANGED <<clock, access, deciding, signedOut, code, opening, sessions>>
  BY DEF FileAsked
<1>2. WebRequests /\ DenialsHold /\ WebClocks /\ UNCHANGED Second
  BY <1>1 DEF WebInv, WebShapes, Second
<1>3. WebRequests' BY <1>1, <1>2 DEF WebRequests
<1>4. pass'.across = pass.across /\ (pass'.expiry = Second + PassTtl \/ pass' = pass) BY <1>1
<1>5. WebClocks' BY <1>1, <1>2, <1>4, SecondIs, TermsArePositive DEF WebClocks
<1>6. \A t : Accepts(t)' <=> Accepts(t)
  BY <1>1, <1>2 DEF Accepts, TakenForSession, IssuedBeforeSignOut
<1>7. DenialsHold' BY <1>1, <1>2, <1>4, <1>6 DEF DenialsHold
<1> QED BY <1>3, <1>5, <1>7 DEF WebInv, WebShapes

\* The sessions end: no token of a sign-in, and no pass, of till then is good for anything.
LEMMA SessionsEnd ==
  ASSUME WebInv, SignsOut \/ DenialEnds
  PROVE  WebInv'
<1>1. /\ signedOut' = clock /\ opening' = Across(opening)
      /\ UNCHANGED <<clock, access, sessions, pass>>
      /\ (code' = NoCode \/ (code' = code /\ deciding' = deciding))
  BY DEF SignsOut, DenialEnds
<1>2. WebRequests /\ DenialsHold /\ WebClocks /\ UNCHANGED Second
  BY <1>1 DEF WebInv, WebShapes, Second
<1>3. /\ Knocks(opening)'
      /\ opening'.code = IF opening.code = "approved" THEN "across" ELSE opening.code
      /\ opening'.launch = IF opening.launch = "on" THEN "across" ELSE opening.launch
      /\ opening'.renewal = IF opening.renewal = "on" THEN "across" ELSE opening.renewal
  BY <1>1, <1>2, AcrossIs DEF WebRequests
<1>4. WebRequests' BY <1>1, <1>2, <1>3 DEF WebRequests
<1>5. WebClocks' BY <1>1, <1>2 DEF WebClocks, Never
<1>6. \A t \in sessions : t.by = "launch" => ~Accepts(t)'
  BY <1>1, <1>2, SecondIs, TermsArePositive DEF Accepts, TakenForSession, IssuedBeforeSignOut, WebClocks, Never
<1>7. ~PassHolds'
  BY <1>1, <1>2, SecondIs, TermsArePositive DEF PassHolds, IssuedBeforeSignOut, WebClocks, Never
<1>8. opening'.code # "approved" /\ opening'.launch # "on" /\ opening'.renewal # "on" BY <1>3
<1>9. DenialsHold' BY <1>1, <1>2, <1>6, <1>7, <1>8 DEF DenialsHold
<1> QED BY <1>4, <1>5, <1>9 DEF WebInv, WebShapes

LEMMA TimeIsPassing == ASSUME WebInv, TimePasses PROVE WebInv'
<1>1. /\ clock' = clock + 1
      /\ UNCHANGED <<access, deciding, signedOut, code, opening, sessions, pass>>
  BY DEF TimePasses
<1>2. WebRequests /\ DenialsHold /\ WebClocks BY DEF WebInv, WebShapes
<1>3. Second' \in Nat /\ Second \in Nat /\ Second' >= Second
  <2>1. clock + 1 \in Nat BY <1>2 DEF WebClocks
  <2>2. Second' = (clock + 1) \div 2 BY <1>1 DEF Second
  <2>3. Second' \in Nat /\ clock + 1 <= 2 * Second' + 1 BY <2>1, <2>2, Halved2
  <2>4. Second \in Nat /\ 2 * Second <= clock BY SecondIs
  <2>5. PICK n \in Nat : n = Second' BY <2>3
  <2>6. PICK m \in Nat : m = Second BY <2>4
  <2>7. clock \in Nat /\ clock + 1 <= 2 * n + 1 /\ 2 * m <= clock
    BY <2>3, <2>4, <2>5, <2>6, <1>2 DEF WebClocks
  <2>8. n >= m BY <2>7
  <2> QED BY <2>5, <2>6, <2>8
<1>4. WebRequests' BY <1>1, <1>2 DEF WebRequests
<1>5. WebClocks' BY <1>1, <1>2, <1>3, TermsArePositive DEF WebClocks
<1>6. \A t \in sessions : t.by = "launch" /\ Accepts(t)' => Accepts(t)
  <2> SUFFICES ASSUME NEW t \in sessions, t.by = "launch", Accepts(t)' PROVE Accepts(t) OBVIOUS
  <2>1. t.expiry \in Int /\ t.expiry <= Second + SessionTtl BY <1>2 DEF WebClocks
  <2> QED BY <2>1, <1>1, <1>3, TermsArePositive DEF Accepts, TakenForSession, IssuedBeforeSignOut
<1>7. PassHolds' => PassHolds BY <1>1, <1>2, <1>3 DEF PassHolds, IssuedBeforeSignOut, WebClocks
<1>8. DenialsHold' BY <1>1, <1>2, <1>6, <1>7 DEF DenialsHold
<1> QED BY <1>4, <1>5, <1>8 DEF WebInv, WebShapes

LEMMA WebStays == WebInv /\ [WebNext]_webVars => WebInv'
<1> SUFFICES ASSUME WebInv, [WebNext]_webVars PROVE WebInv' OBVIOUS
<1>1. CASE UNCHANGED webVars
  <2>1. UNCHANGED <<clock, access, deciding, signedOut, code, opening, sessions, pass>>
    BY <1>1 DEF webVars
  <2>2. (\A t : Accepts(t)' <=> Accepts(t)) /\ (PassHolds' <=> PassHolds)
    BY <2>1 DEF Accepts, TakenForSession, IssuedBeforeSignOut, Second, PassHolds
  <2> QED BY <2>1, <2>2 DEF WebInv, WebShapes, WebClocks, WebRequests, DenialsHold, Second
<1> QED BY <1>1, RequestsStay, LaunchesEnd, RenewalsEnd, FilesAreServed, SessionsEnd, TimeIsPassing DEF WebNext

\* What the invariant says of every sign-out.
LEMMA SignOutsAreKept == WebInv => SignOutsHold
<1> SUFFICES ASSUME WebInv PROVE SignOutsHold OBVIOUS
<1>1. WebClocks BY DEF WebInv, WebShapes
<1>2. ASSUME NEW t \in sessions, t.by # "kept"
      PROVE  /\ signedOut # Never /\ 2 * (t.expiry - SessionTtl) + 1 <= signedOut => ~Accepts(t)
             /\ t.expiry - SessionTtl > signedOut \div 2 /\ t.expiry > Second => Accepts(t)
  <2>1. t.expiry \in Int /\ SessionTtl \in Int /\ signedOut \in Int
    BY <1>1, TermsArePositive DEF WebClocks
  <2>2. signedOut # Never => 2 * (signedOut \div 2) + 1 >= signedOut
    BY <1>1, Halved2 DEF WebClocks, Never
  <2>3. signedOut \div 2 \in Int BY <2>1
  <2> QED BY <1>2, <2>1, <2>2, <2>3, SessionsAreTaken DEF IssuedBeforeSignOut
<1>3. pass.expiry # Never /\ 2 * (pass.expiry - PassTtl) + 1 <= signedOut => ~PassHolds
  BY <1>1, TermsArePositive DEF WebClocks, PassHolds, IssuedBeforeSignOut, Never
<1> QED BY <1>2, <1>3 DEF SignOutsHold

-----------------------------------------------------------------------------
(* Friends, and who is told of them (Friendships).                         *)

\* One account lists another and does not block it: both ways round, that is a friendship.
Lists(a, o) == o \in friends[a] /\ o \notin ignored[a]
\* A change between two accounts was torn, or is still to be told.
Unsettled(a, o) == {a, o} \in halfSaved \/ \E p \in owed : p.between = {a, o}

StoredShapes == {friends, ignored, requests} \subseteq [Players -> SUBSET Players]
\* What is owed is between two accounts, and of those that became friends it is true.
OwedFits ==
  \A p \in owed : \E a, b \in Players :
    a # b /\ p.between = {a, b} /\ p.made \in BOOLEAN /\ (p.made => AreFriends(a, b))
\* What two accounts say of one another, unless they were torn as they were saved: and only one of them asks.
PairInOrder(a, b) ==
  /\ b \in friends[a] <=> a \in friends[b]
  /\ b \in friends[a] => ~Blocked2(a, b) /\ b \notin requests[a]
  /\ Blocked2(a, b) => b \notin requests[a]
  /\ ~(b \in requests[a] /\ a \in requests[b])
PairsFit == \A a, b \in Players : {a, b} \notin halfSaved => PairInOrder(a, b)
StoredInv == StoredShapes /\ OwedFits /\ PairsFit

\* The record of a connection.
TaskShaped(t) == t = [kind |-> t.kind, asked |-> t.asked, listed |-> t.listed, todo |-> t.todo,
                      found |-> t.found, stale |-> t.stale, missed |-> t.missed]
ConnShaped(k) ==
  /\ k = [account |-> k.account, stage |-> k.stage, panel |-> k.panel, watched |-> k.watched,
          shown |-> k.shown, task |-> k.task, late |-> k.late]
  /\ k.shown = [o \in Players |-> k.shown[o]] /\ TaskShaped(k.task)
ConnShapes == conns = [c \in Connections |-> conns[c]] /\ \A c \in Connections : ConnShaped(conns[c])

\* Whoever is on the roll has logged in; a connection that has not is as it began, and none that is not
\* on the roll reads anything.  An account has one connection there, if it is anywhere.
RollFits ==
  /\ roll \subseteq Connections
  /\ \A c \in Connections : /\ c \in roll <=> conns[c].stage = "in"
                            /\ conns[c].stage = "new" => conns[c] = NewConn
                            /\ c \notin roll => conns[c].task = SessionIdle
  /\ \A c \in roll : conns[c].account \in Players
  /\ \A c, d \in roll : conns[c].account = conns[d].account => c = d
OnlineFits ==
  /\ online = [a \in Players |-> online[a]]
  /\ \A a \in Players : online[a] # Away <=> \E c \in roll : conns[c].account = a
\* Nobody is shown but who is followed, where there is a panel to show him on, and then where he is.
ShownFits ==
  \A c \in roll, o \in Players :
    conns[c].shown[o] # Away => conns[c].panel /\ o \in conns[c].watched /\ conns[c].shown[o] = online[o]
RollInv == ConnShapes /\ RollFits /\ OnlineFits /\ ShownFits

\* A friendship that ended as it was read is noted: by who asks, as a revision; by a login, as missed.
Excused(t, o) == (t.kind = "ask" /\ o \in t.stale) \/ (t.kind = "login" /\ o \in t.missed)
\* Whom a connection follows, or has found, or is still to look at.
WatchedFit(k) ==
  /\ k.watched \subseteq Players
  /\ \A o \in k.watched : AreFriends(k.account, o) \/ Unsettled(k.account, o) \/ o \in k.late
TaskFits(a, t) ==
  /\ t.found \subseteq Players /\ t.listed \subseteq Players
  /\ t.kind \notin {"login", "ask"} => t.found = {} /\ t.listed = {} /\ t.todo = {}
  /\ t.kind = "ask" => t.found \subseteq t.asked /\ t.listed \cap t.todo \subseteq t.asked
  /\ \A o \in t.found : AreFriends(a, o) \/ Unsettled(a, o) \/ Excused(t, o)
  /\ \A o \in t.listed \cap t.todo : Lists(a, o) \/ Unsettled(a, o) \/ Excused(t, o)
FollowsFit == \A c \in roll : WatchedFit(conns[c]) /\ TaskFits(conns[c].account, conns[c].task)
FriendInv == StoredInv /\ RollInv /\ FollowsFit

LEMMA TwoAre ==
  ASSUME NEW a, NEW b, NEW x, NEW y
  PROVE  {x, y} = {a, b} <=> (x = a /\ y = b) \/ (x = b /\ y = a)
OBVIOUS

LEMMA FriendsListEachOther ==
  ASSUME NEW a, NEW b
  PROVE  AreFriends(a, b) <=> Lists(a, b) /\ Lists(b, a)
BY DEF AreFriends, Blocked2, Lists

\* Nothing but what the two say of one another is changed by what is done between them.
OthersStay(a, b) ==
  \A x, y \in Players : {x, y} # {a, b} =>
    /\ y \in friends'[x] <=> y \in friends[x]
    /\ y \in ignored'[x] <=> y \in ignored[x]
    /\ y \in requests'[x] <=> y \in requests[x]

\* What is written of two accounts, f, i and r, differs from what is stored in nothing else.
SaveFits(a, b, touched, f, i, r) ==
  /\ a \in Players /\ b \in Players /\ a # b /\ touched \subseteq {a, b}
  /\ {f, i, r} \subseteq [Players -> SUBSET Players]
  /\ \A x, y \in Players : {x, y} # {a, b} =>
       (y \in f[x] <=> y \in friends[x]) /\ (y \in i[x] <=> y \in ignored[x]) /\ (y \in r[x] <=> y \in requests[x])
SavedWhole(touched, f, i, r, owes) ==
  /\ halfSaved' = halfSaved /\ owed' = owed \cup owes
  /\ \A x \in Players : /\ friends'[x] = IF x \in touched THEN f[x] ELSE friends[x]
                        /\ ignored'[x] = IF x \in touched THEN i[x] ELSE ignored[x]
                        /\ requests'[x] = IF x \in touched THEN r[x] ELSE requests[x]
SavedTorn(a, b) == {a, b} \in halfSaved' /\ halfSaved \subseteq halfSaved' /\ owed' = owed

\* A save of the two is whole or torn, and of one of them whole.
LEMMA SavesBetween ==
  ASSUME StoredShapes, NEW a, NEW b, NEW touched, NEW f, NEW i, NEW r, NEW owes,
         SaveFits(a, b, touched, f, i, r), Saves(touched, f, i, r, owes)
  PROVE  /\ StoredShapes' /\ OthersStay(a, b)
         /\ SavedTorn(a, b) \/ SavedWhole(touched, f, i, r, owes)
<1>0. /\ a \in Players /\ b \in Players /\ a # b /\ touched \subseteq {a, b}
      /\ {f, i, r} \subseteq [Players -> SUBSET Players]
      /\ \A x, y \in Players : {x, y} # {a, b} =>
           (y \in f[x] <=> y \in friends[x]) /\ (y \in i[x] <=> y \in ignored[x]) /\ (y \in r[x] <=> y \in requests[x])
  BY DEF SaveFits
<1>1. PICK written : /\ Stored(written, f, i, r)
                     /\ \/ written = touched /\ owed' = owed \cup owes /\ halfSaved' = halfSaved
                        \/ /\ owed' = owed /\ halfSaved' = halfSaved \cup {touched}
                           /\ \E x \in touched : written = {x} /\ touched # {x}
  BY DEF Saves
<1>2. \A x \in Players : /\ friends'[x] = IF x \in written THEN f[x] ELSE friends[x]
                         /\ ignored'[x] = IF x \in written THEN i[x] ELSE ignored[x]
                         /\ requests'[x] = IF x \in written THEN r[x] ELSE requests[x]
  BY <1>1 DEF Stored
<1>3. StoredShapes' BY <1>0, <1>1 DEF Stored, StoredShapes
<1>4. OthersStay(a, b) BY <1>0, <1>2 DEF OthersStay
<1>5. CASE written = touched /\ owed' = owed \cup owes /\ halfSaved' = halfSaved
  BY <1>2, <1>3, <1>4, <1>5 DEF SavedWhole
<1>6. ASSUME owed' = owed, halfSaved' = halfSaved \cup {touched}, NEW x \in touched, touched # {x}
      PROVE  SavedTorn(a, b)
  <2>1. touched = {a, b} BY <1>0, <1>6
  <2> QED BY <2>1, <1>6 DEF SavedTorn
<1> QED BY <1>1, <1>3, <1>4, <1>5, <1>6

\* What is done between a and b, as one step: what is owed of it and what it leaves of their friendship.
DeedDone(a, b) ==
  /\ a # b /\ ~Locked(a) /\ ~Locked(b) /\ StoredShapes' /\ OthersStay(a, b)
  /\ halfSaved \subseteq halfSaved' /\ owed \subseteq owed'
  /\ \A p \in owed' : p \in owed \/ (p.between = {a, b} /\ p.made \in BOOLEAN /\ (p.made => AreFriends(a, b)'))
  /\ Unsettled(a, b)' \/ ((Lists(a, b) => Lists(a, b)') /\ (Lists(b, a) => Lists(b, a)'))
  /\ {a, b} \in halfSaved' \/ ({a, b} \notin halfSaved /\ PairInOrder(a, b)' /\ PairInOrder(b, a)')
  /\ UNCHANGED <<online, roll, conns>>

\* A torn deed says no more.
LEMMA TornDeeds ==
  ASSUME NEW a, NEW b, a # b, ~Locked(a), ~Locked(b), StoredShapes', OthersStay(a, b), SavedTorn(a, b), UNCHANGED <<online, roll, conns>>
  PROVE  DeedDone(a, b)
BY DEF DeedDone, Unsettled, SavedTorn

LEMMA WholePairs ==
  ASSUME StoredInv, NEW a \in Players, NEW b \in Players, {a, b} \notin halfSaved
  PROVE  PairInOrder(a, b) /\ PairInOrder(b, a)
<1>1. {b, a} \notin halfSaved
  <2>1. {a, b} = {b, a} OBVIOUS
  <2> QED BY <2>1
<1> QED BY <1>1 DEF StoredInv, PairsFit

LEMMA OwesIs ==
  ASSUME NEW a, NEW b, NEW made \in BOOLEAN
  PROVE  \A p \in Owes(a, b, made) : p.between = {a, b} /\ p.made = made
BY DEF Owes

LEMMA AddedIs ==
  ASSUME StoredShapes, NEW a \in Players, NEW b \in Players
  PROVE  /\ Added(a, b) \in [Players -> SUBSET Players]
         /\ \A x, y \in Players : y \in Added(a, b)[x] <=> y \in friends[x] \/ {x, y} = {a, b}
<1>1. friends \in [Players -> SUBSET Players] BY DEF StoredShapes
<1> QED BY <1>1, TwoAre DEF Added

LEMMA DroppedIs ==
  ASSUME StoredShapes, NEW a \in Players, NEW b \in Players
  PROVE  /\ Dropped(a, b) \in [Players -> SUBSET Players]
         /\ \A x, y \in Players : y \in Dropped(a, b)[x] <=> y \in friends[x] /\ {x, y} # {a, b}
<1>1. friends \in [Players -> SUBSET Players] BY DEF StoredShapes
<1> QED BY <1>1, TwoAre DEF Dropped

\* One entry of a book that is kept by account.
LEMMA EntryIs ==
  ASSUME NEW g \in [Players -> SUBSET Players], NEW a \in Players, NEW b \in Players
  PROVE  /\ [g EXCEPT ![a] = @ \cup {b}] \in [Players -> SUBSET Players]
         /\ [g EXCEPT ![a] = @ \ {b}] \in [Players -> SUBSET Players]
         /\ \A x, y \in Players : /\ y \in [g EXCEPT ![a] = @ \cup {b}][x] <=> y \in g[x] \/ (x = a /\ y = b)
                                  /\ y \in [g EXCEPT ![a] = @ \ {b}][x] <=> y \in g[x] /\ ~(x = a /\ y = b)
OBVIOUS

\* Who is asked back, or who accepts, becomes a friend: that settles the request.
LEMMA BefriendsIsDone ==
  ASSUME StoredInv, NEW a \in Players, NEW b \in Players, Deed(a, b), b \in requests[a], ~Blocked2(a, b),
         Befriends(a, b), UNCHANGED <<online, roll, conns>>
  PROVE  DeedDone(a, b)
<1> DEFINE f == Added(a, b)
           r == [requests EXCEPT ![a] = @ \ {b}]
           touched == Touched(f, a, b)
<1>1. StoredShapes /\ {friends, ignored, requests} \subseteq [Players -> SUBSET Players]
  BY DEF StoredInv, StoredShapes
<1>2. f \in [Players -> SUBSET Players] /\ \A x, y \in Players : y \in f[x] <=> y \in friends[x] \/ {x, y} = {a, b}
  BY <1>1, AddedIs
<1>3. r \in [Players -> SUBSET Players] /\ \A x, y \in Players : y \in r[x] <=> y \in requests[x] /\ ~(x = a /\ y = b)
  BY <1>1, EntryIs
<1>4. touched \subseteq {a, b} /\ \A x \in {a, b} : x \notin touched => f[x] = friends[x]
  BY DEF Touched
<1>5. a # b /\ ~Locked(a) /\ ~Locked(b) BY DEF Deed
<1>6. \/ touched # {} /\ Saves(touched, f, ignored, r, Owes(a, b, TRUE))
      \/ touched = {} /\ Saves({a}, f, ignored, r, {})
  BY DEF Befriends
<1> HIDE DEF f, r, touched
<1>7. \A x, y \in Players : {x, y} # {a, b} => (y \in f[x] <=> y \in friends[x]) /\ (y \in r[x] <=> y \in requests[x])
  BY <1>2, <1>3, TwoAre
<1>8. b \in f[a] /\ a \in f[b] BY <1>2, TwoAre
<1>9. SaveFits(a, b, touched, f, ignored, r) /\ SaveFits(a, b, {a}, f, ignored, r)
  BY <1>1, <1>2, <1>3, <1>4, <1>5, <1>7 DEF SaveFits
<1>10. StoredShapes' /\ OthersStay(a, b) BY <1>1, <1>6, <1>9, SavesBetween
<1>11. CASE SavedTorn(a, b) BY <1>5, <1>10, <1>11, TornDeeds
<1>12. CASE touched # {} /\ SavedWhole(touched, f, ignored, r, Owes(a, b, TRUE))
  <2>1. b \in friends'[a] /\ a \in friends'[b] /\ ignored'[a] = ignored[a] /\ ignored'[b] = ignored[b]
    BY <1>12, <1>4, <1>8 DEF SavedWhole
  <2>2. AreFriends(a, b)' /\ Lists(a, b)' /\ Lists(b, a)' /\ ~Blocked2(a, b)' /\ ~Blocked2(b, a)'
    BY <2>1 DEF AreFriends, Blocked2, Lists
  <2>3. ASSUME {a, b} \notin halfSaved PROVE PairInOrder(a, b)' /\ PairInOrder(b, a)'
    <3>1. b \notin friends[a] /\ a \notin requests[b] BY <2>3, WholePairs DEF PairInOrder
    <3>2. a \in touched BY <3>1, <1>4, <1>8
    <3>3. b \notin requests'[a] /\ a \notin requests'[b]
      BY <3>1, <3>2, <1>12, <1>3, <1>5 DEF SavedWhole
    <3> QED BY <3>3, <2>1, <2>2 DEF PairInOrder
  <2>4. \A p \in owed' : p \in owed \/ (p.between = {a, b} /\ p.made \in BOOLEAN /\ (p.made => AreFriends(a, b)'))
    BY <1>12, <2>2, OwesIs DEF SavedWhole
  <2> QED BY <1>5, <1>10, <1>12, <2>2, <2>3, <2>4 DEF DeedDone, SavedWhole
<1>13. CASE touched = {} /\ SavedWhole({a}, f, ignored, r, {})
  <2>1. {a, b} \in halfSaved BY <1>4, <1>8, <1>13, WholePairs DEF PairInOrder
  <2>2. SavedTorn(a, b) BY <2>1, <1>13 DEF SavedTorn, SavedWhole
  <2> QED BY <2>2, <1>11
<1> QED BY <1>1, <1>6, <1>9, <1>11, <1>12, <1>13, SavesBetween

\* A request is one entry more, or one less, of one account: what it says of friends and blocks is as it was.
LEMMA RequestIsDone ==
  ASSUME StoredInv, NEW a \in Players, NEW b \in Players, a # b, ~Locked(a), ~Locked(b),
         NEW r \in [Players -> SUBSET Players], NEW x \in {a, b}, UNCHANGED <<online, roll, conns>>,
         \A y, z \in Players : {y, z} # {a, b} => (z \in r[y] <=> z \in requests[y]),
         {a, b} \notin halfSaved => /\ b \notin r[a] \/ (~Blocked2(a, b) /\ b \notin friends[a])
                                    /\ a \notin r[b] \/ (~Blocked2(a, b) /\ b \notin friends[a])
                                    /\ ~(b \in r[a] /\ a \in r[b]),
         \A y \in {a, b} : y # x => r[y] = requests[y],
         Saves({x}, friends, ignored, r, {})
  PROVE  DeedDone(a, b)
<1>1. {friends, ignored, r} \subseteq [Players -> SUBSET Players] /\ {x} \subseteq {a, b} /\ StoredShapes
  BY DEF StoredInv, StoredShapes
<1>2. SaveFits(a, b, {x}, friends, ignored, r) BY <1>1 DEF SaveFits
<1>3. StoredShapes' /\ OthersStay(a, b) /\ (SavedTorn(a, b) \/ SavedWhole({x}, friends, ignored, r, {}))
  BY <1>1, <1>2, SavesBetween
<1>4. CASE SavedTorn(a, b) BY <1>3, <1>4, TornDeeds
<1>5. CASE SavedWhole({x}, friends, ignored, r, {})
  <2>1. /\ halfSaved' = halfSaved /\ owed' = owed /\ friends'[a] = friends[a] /\ friends'[b] = friends[b]
        /\ ignored'[a] = ignored[a] /\ ignored'[b] = ignored[b]
        /\ requests'[a] = r[a] /\ requests'[b] = r[b]
    BY <1>5 DEF SavedWhole
  <2>2. ASSUME {a, b} \notin halfSaved PROVE PairInOrder(a, b)' /\ PairInOrder(b, a)'
    BY <2>1, <2>2, WholePairs DEF PairInOrder, Blocked2
  <2>3. (Lists(a, b) => Lists(a, b)') /\ (Lists(b, a) => Lists(b, a)') BY <2>1 DEF Lists
  <2> QED BY <1>3, <2>1, <2>2, <2>3 DEF DeedDone
<1> QED BY <1>3, <1>4, <1>5

LEMMA AskingIsDone ==
  ASSUME StoredInv, NEW a \in Players, NEW b \in Players, AsksToBeFriends(a, b)
  PROVE  DeedDone(a, b)
<1>1. /\ Deed(a, b) /\ b \notin friends[a] /\ ~Blocked2(a, b) /\ a \notin requests[b]
      /\ UNCHANGED <<online, roll, conns>>
      /\ IF b \in requests[a] THEN Befriends(a, b)
         ELSE Saves({b}, friends, ignored, [requests EXCEPT ![b] = @ \cup {a}], {})
  BY DEF AsksToBeFriends
<1>2. CASE b \in requests[a] BY <1>1, <1>2, BefriendsIsDone
<1>3. CASE b \notin requests[a]
  <2> DEFINE r == [requests EXCEPT ![b] = @ \cup {a}]
  <2>1. requests \in [Players -> SUBSET Players] BY DEF StoredInv, StoredShapes
  <2>2. /\ r \in [Players -> SUBSET Players]
        /\ \A y, z \in Players : z \in r[y] <=> z \in requests[y] \/ (y = b /\ z = a)
    BY <2>1, EntryIs
  <2>3. Saves({b}, friends, ignored, r, {}) BY <1>1, <1>3
  <2>4. \A y \in {a, b} : y # b => r[y] = requests[y] BY <2>1
  <2> HIDE DEF r
  <2>5. a # b /\ ~Locked(a) /\ ~Locked(b) BY <1>1 DEF Deed
  <2>6. \A y, z \in Players : {y, z} # {a, b} => (z \in r[y] <=> z \in requests[y])
    BY <2>2, TwoAre
  <2>7. b \notin r[a] BY <2>2, <1>3, <2>5
  <2> QED BY <1>1, <2>2, <2>3, <2>4, <2>5, <2>6, <2>7, RequestIsDone
<1> QED BY <1>2, <1>3

LEMMA AnsweringIsDone ==
  ASSUME StoredInv, NEW a \in Players, NEW b \in Players, NEW accepts \in BOOLEAN, AnswersRequest(a, b, accepts)
  PROVE  DeedDone(a, b)
<1>1. /\ Deed(a, b) /\ b \in requests[a] /\ UNCHANGED <<online, roll, conns>>
      /\ IF accepts /\ ~Blocked2(a, b) THEN Befriends(a, b)
         ELSE Saves({a}, friends, ignored, [requests EXCEPT ![a] = @ \ {b}], {})
  BY DEF AnswersRequest
<1>2. CASE accepts /\ ~Blocked2(a, b) BY <1>1, <1>2, BefriendsIsDone
<1>3. CASE ~(accepts /\ ~Blocked2(a, b))
  <2> DEFINE r == [requests EXCEPT ![a] = @ \ {b}]
  <2>1. requests \in [Players -> SUBSET Players] BY DEF StoredInv, StoredShapes
  <2>2. /\ r \in [Players -> SUBSET Players]
        /\ \A y, z \in Players : z \in r[y] <=> z \in requests[y] /\ ~(y = a /\ z = b)
    BY <2>1, EntryIs
  <2>3. Saves({a}, friends, ignored, r, {}) BY <1>1, <1>3
  <2>4. \A y \in {a, b} : y # a => r[y] = requests[y] BY <2>1
  <2> HIDE DEF r
  <2>5. a # b /\ ~Locked(a) /\ ~Locked(b) BY <1>1 DEF Deed
  <2>6. \A y, z \in Players : {y, z} # {a, b} => (z \in r[y] <=> z \in requests[y])
    BY <2>2, TwoAre
  <2>7. b \notin r[a] BY <2>2
  <2>8. {a, b} \notin halfSaved => a \notin r[b] BY <1>1, <2>2, WholePairs DEF PairInOrder
  <2> QED BY <1>1, <2>2, <2>3, <2>4, <2>5, <2>6, <2>7, <2>8, RequestIsDone
<1> QED BY <1>2, <1>3

LEMMA OwedIsUnsettled ==
  ASSUME NEW a, NEW b, NEW made \in BOOLEAN, Owes(a, b, made) \subseteq owed'
  PROVE  Unsettled(a, b)'
<1>1. PICK p \in owed' : p = [between |-> {a, b}, made |-> made] BY DEF Owes
<1>2. p.between = {a, b} BY <1>1
<1> QED BY <1>2 DEF Unsettled

LEMMA UnfriendingIsDone ==
  ASSUME StoredInv, NEW a \in Players, NEW b \in Players, Unfriends(a, b)
  PROVE  DeedDone(a, b)
<1> DEFINE f == Dropped(a, b)
           touched == Touched(f, a, b)
<1>1. /\ Deed(a, b) /\ b \in friends[a] /\ Saves(touched, f, ignored, requests, Owes(a, b, FALSE))
      /\ UNCHANGED <<online, roll, conns>>
  BY DEF Unfriends
<1>2. StoredShapes /\ {friends, ignored, requests} \subseteq [Players -> SUBSET Players]
  BY DEF StoredInv, StoredShapes
<1>3. f \in [Players -> SUBSET Players] /\ \A x, y \in Players : y \in f[x] <=> y \in friends[x] /\ {x, y} # {a, b}
  BY <1>2, DroppedIs
<1>4. touched \subseteq {a, b} /\ \A x \in {a, b} : x \notin touched => f[x] = friends[x]
  BY DEF Touched
<1> HIDE DEF f, touched
<1>5. a # b /\ ~Locked(a) /\ ~Locked(b) BY <1>1 DEF Deed
<1>6. SaveFits(a, b, touched, f, ignored, requests) BY <1>2, <1>3, <1>4, <1>5 DEF SaveFits
<1>7. /\ StoredShapes' /\ OthersStay(a, b)
      /\ SavedTorn(a, b) \/ SavedWhole(touched, f, ignored, requests, Owes(a, b, FALSE))
  BY <1>1, <1>2, <1>6, SavesBetween
<1>8. CASE SavedTorn(a, b) BY <1>1, <1>5, <1>7, <1>8, TornDeeds
<1>9. CASE SavedWhole(touched, f, ignored, requests, Owes(a, b, FALSE))
  <2>1. /\ halfSaved' = halfSaved /\ owed' = owed \cup Owes(a, b, FALSE)
        /\ b \notin friends'[a] /\ a \notin friends'[b]
        /\ ignored'[a] = ignored[a] /\ ignored'[b] = ignored[b]
        /\ requests'[a] = requests[a] /\ requests'[b] = requests[b]
    <3>1. b \notin f[a] /\ a \notin f[b] BY <1>3, TwoAre
    <3> QED BY <3>1, <1>4, <1>9 DEF SavedWhole
  <2>2. ASSUME {a, b} \notin halfSaved PROVE PairInOrder(a, b)' /\ PairInOrder(b, a)'
    BY <2>1, <2>2, WholePairs DEF PairInOrder, Blocked2
  <2>3. Unsettled(a, b)' BY <2>1, OwedIsUnsettled
  <2>4. \A p \in owed' : p \in owed \/ (p.between = {a, b} /\ p.made = FALSE) BY <2>1, OwesIs
  <2> QED BY <1>1, <1>5, <1>7, <2>1, <2>2, <2>3, <2>4 DEF DeedDone
<1> QED BY <1>7, <1>8, <1>9

LEMMA WithoutRequestsIs ==
  ASSUME StoredShapes, NEW a \in Players, NEW b \in Players
  PROVE  /\ WithoutRequests(a, b) \in [Players -> SUBSET Players]
         /\ \A x, y \in Players : y \in WithoutRequests(a, b)[x] <=> y \in requests[x] /\ {x, y} # {a, b}
<1>1. requests \in [Players -> SUBSET Players] BY DEF StoredShapes
<1> QED BY <1>1, TwoAre DEF WithoutRequests

LEMMA IgnoringIsDone ==
  ASSUME StoredInv, NEW a \in Players, NEW b \in Players, Ignores(a, b)
  PROVE  DeedDone(a, b)
<1> DEFINE f == Dropped(a, b)
           i == [ignored EXCEPT ![a] = @ \cup {b}]
           r == WithoutRequests(a, b)
           touched == {x \in {a, b} : f[x] # friends[x] \/ i[x] # ignored[x] \/ r[x] # requests[x]}
           owes == IF f # friends THEN Owes(a, b, FALSE) ELSE {}
<1>1. Deed(a, b) /\ Saves(touched, f, i, r, owes) /\ UNCHANGED <<online, roll, conns>>
  BY DEF Ignores
<1>2. StoredShapes /\ {friends, ignored, requests} \subseteq [Players -> SUBSET Players]
  BY DEF StoredInv, StoredShapes
<1>3. f \in [Players -> SUBSET Players] /\ \A x, y \in Players : y \in f[x] <=> y \in friends[x] /\ {x, y} # {a, b}
  BY <1>2, DroppedIs
<1>4. i \in [Players -> SUBSET Players] /\ \A x, y \in Players : y \in i[x] <=> y \in ignored[x] \/ (x = a /\ y = b)
  BY <1>2, EntryIs
<1>5. r \in [Players -> SUBSET Players] /\ \A x, y \in Players : y \in r[x] <=> y \in requests[x] /\ {x, y} # {a, b}
  BY <1>2, WithoutRequestsIs
<1>6. touched \subseteq {a, b} /\ \A x \in {a, b} : x \notin touched => f[x] = friends[x] /\ i[x] = ignored[x] /\ r[x] = requests[x]
  OBVIOUS
<1>7. (f # friends /\ owes = Owes(a, b, FALSE)) \/ (f = friends /\ owes = {}) OBVIOUS
<1> HIDE DEF f, i, r, touched, owes
<1>8. a # b /\ ~Locked(a) /\ ~Locked(b) BY <1>1 DEF Deed
<1>9. SaveFits(a, b, touched, f, i, r)
  BY <1>2, <1>3, <1>4, <1>5, <1>6, <1>8, TwoAre DEF SaveFits
<1>10. StoredShapes' /\ OthersStay(a, b) /\ (SavedTorn(a, b) \/ SavedWhole(touched, f, i, r, owes))
  BY <1>1, <1>2, <1>9, SavesBetween
<1>11. CASE SavedTorn(a, b) BY <1>1, <1>8, <1>10, <1>11, TornDeeds
<1>12. CASE SavedWhole(touched, f, i, r, owes)
  <2>1. /\ halfSaved' = halfSaved /\ owed' = owed \cup owes
        /\ friends'[a] = f[a] /\ friends'[b] = f[b] /\ ignored'[a] = i[a] /\ ignored'[b] = i[b]
        /\ requests'[a] = r[a] /\ requests'[b] = r[b]
    BY <1>6, <1>12 DEF SavedWhole
  <2>2. /\ b \notin friends'[a] /\ a \notin friends'[b] /\ b \notin requests'[a] /\ a \notin requests'[b]
    BY <2>1, <1>3, <1>5, TwoAre
  <2>3. PairInOrder(a, b)' /\ PairInOrder(b, a)' BY <2>2 DEF PairInOrder
  <2>4. Unsettled(a, b)' \/ ((Lists(a, b) => Lists(a, b)') /\ (Lists(b, a) => Lists(b, a)'))
    <3>1. CASE f # friends BY <3>1, <2>1, <1>7, OwedIsUnsettled
    <3>2. CASE f = friends BY <3>2, <2>1, <2>2 DEF Lists
    <3> QED BY <3>1, <3>2
  <2>5. \A p \in owed' : p \in owed \/ (p.between = {a, b} /\ p.made = FALSE)
    BY <2>1, <1>7, OwesIs
  <2> QED BY <1>1, <1>8, <1>10, <2>1, <2>3, <2>4, <2>5 DEF DeedDone
<1> QED BY <1>10, <1>11, <1>12

\* What is done between two accounts leaves the books of all in order.
LEMMA DeedsKeepTheBooks ==
  ASSUME StoredInv, NEW a \in Players, NEW b \in Players, DeedDone(a, b)
  PROVE  StoredInv'
<1>1. /\ a # b /\ ~Locked(a) /\ ~Locked(b) /\ StoredShapes'
      /\ halfSaved \subseteq halfSaved' /\ owed \subseteq owed'
      /\ \A p \in owed' : p \in owed \/ (p.between = {a, b} /\ p.made \in BOOLEAN /\ (p.made => AreFriends(a, b)'))
      /\ {a, b} \in halfSaved' \/ ({a, b} \notin halfSaved /\ PairInOrder(a, b)' /\ PairInOrder(b, a)')
  BY DEF DeedDone
<1>2. \A x, y \in Players : {x, y} # {a, b} =>
        /\ y \in friends'[x] <=> y \in friends[x]
        /\ y \in ignored'[x] <=> y \in ignored[x]
        /\ y \in requests'[x] <=> y \in requests[x]
  BY DEF DeedDone, OthersStay
<1>3. \A x, y \in Players : {x, y} # {a, b} => {y, x} # {a, b} OBVIOUS
<1>4. OwedFits'
  <2> SUFFICES ASSUME NEW p \in owed'
               PROVE  \E c, d \in Players : /\ c # d /\ p.between = {c, d} /\ p.made \in BOOLEAN
                                            /\ (p.made => AreFriends(c, d)')
    BY DEF OwedFits
  <2>1. CASE p \in owed
    <3>1. PICK c \in Players, d \in Players : c # d /\ p.between = {c, d} /\ p.made \in BOOLEAN /\ (p.made => AreFriends(c, d))
      BY <2>1 DEF StoredInv, OwedFits
    <3>2. {c, d} # {a, b} /\ {d, c} # {a, b} BY <3>1, <2>1, <1>1 DEF Locked
    <3>3. AreFriends(c, d) => AreFriends(c, d)' BY <3>2, <1>2 DEF AreFriends, Blocked2
    <3> QED BY <3>1, <3>3
  <2>2. CASE p \notin owed BY <2>2, <1>1
  <2> QED BY <2>1, <2>2
<1>5. PairsFit'
  <2> SUFFICES ASSUME NEW x \in Players, NEW y \in Players, {x, y} \notin halfSaved'
               PROVE  PairInOrder(x, y)'
    BY DEF PairsFit
  <2>1. CASE {x, y} = {a, b} BY <2>1, <1>1, TwoAre
  <2>2. CASE {x, y} # {a, b}
    <3>1. PairInOrder(x, y) BY <1>1 DEF StoredInv, PairsFit
    <3> QED BY <3>1, <2>2, <1>2, <1>3 DEF PairInOrder, Blocked2
  <2> QED BY <2>1, <2>2
<1> QED BY <1>1, <1>4, <1>5 DEF StoredInv

\* A friendship that ends leaves the two of them unsettled.
FriendsAreMissed ==
  \A x, y \in Players : /\ Unsettled(x, y) => Unsettled(x, y)'
                        /\ Lists(x, y) => Lists(x, y)' \/ Unsettled(x, y)'

LEMMA DeedsAreMissed ==
  ASSUME NEW a \in Players, NEW b \in Players, DeedDone(a, b)
  PROVE  FriendsAreMissed
<1>1. /\ halfSaved \subseteq halfSaved' /\ owed \subseteq owed'
      /\ Unsettled(a, b)' \/ ((Lists(a, b) => Lists(a, b)') /\ (Lists(b, a) => Lists(b, a)'))
  BY DEF DeedDone
<1>2. \A x, y \in Players : {x, y} # {a, b} =>
        (y \in friends'[x] <=> y \in friends[x]) /\ (y \in ignored'[x] <=> y \in ignored[x])
  BY DEF DeedDone, OthersStay
<1>3. \A x, y \in Players : Unsettled(x, y) => Unsettled(x, y)' BY <1>1 DEF Unsettled
<1>4. ASSUME NEW x \in Players, NEW y \in Players, Lists(x, y) PROVE Lists(x, y)' \/ Unsettled(x, y)'
  <2>1. CASE {x, y} # {a, b} BY <2>1, <1>2, <1>4 DEF Lists
  <2>2. CASE {x, y} = {a, b}
    <3>1. Unsettled(a, b)' => Unsettled(x, y)' BY <2>2 DEF Unsettled
    <3>2. (x = a /\ y = b) \/ (x = b /\ y = a) BY <2>2, TwoAre
    <3> QED BY <3>1, <3>2, <1>1, <1>4
  <2> QED BY <2>1, <2>2
<1> QED BY <1>3, <1>4 DEF FriendsAreMissed

LEMMA UnblockingKeeps ==
  ASSUME StoredInv, NEW a \in Players, NEW b \in Players, Unblocks(a, b)
  PROVE  StoredInv' /\ FriendsAreMissed
<1>1. ignored' = [ignored EXCEPT ![a] = @ \ {b}] /\ UNCHANGED <<friends, requests, owed, halfSaved>>
  BY DEF Unblocks
<1>2. {friends, ignored, requests} \subseteq [Players -> SUBSET Players]
  BY DEF StoredInv, StoredShapes
<1>3. ignored' \in [Players -> SUBSET Players] /\ \A x, y \in Players : y \in ignored'[x] => y \in ignored[x]
  BY <1>1, <1>2, EntryIs
<1>4. StoredShapes' BY <1>1, <1>2, <1>3 DEF StoredShapes
<1>5. \A x, y \in Players : AreFriends(x, y) => AreFriends(x, y)'
  BY <1>1, <1>3 DEF AreFriends, Blocked2
<1>6. OwedFits' BY <1>1, <1>5 DEF StoredInv, OwedFits
<1>7. PairsFit'
  <2> SUFFICES ASSUME NEW x \in Players, NEW y \in Players, {x, y} \notin halfSaved'
               PROVE  PairInOrder(x, y)'
    BY DEF PairsFit
  <2>1. PairInOrder(x, y) BY <1>1 DEF StoredInv, PairsFit
  <2> QED BY <2>1, <1>1, <1>3 DEF PairInOrder, Blocked2
<1>8. FriendsAreMissed BY <1>1, <1>3 DEF FriendsAreMissed, Unsettled, Lists
<1> QED BY <1>4, <1>6, <1>7, <1>8 DEF StoredInv

\* The connections stay as they are: what they are told of a deed they are told later.
LEMMA FollowersWait ==
  ASSUME RollInv, FollowsFit, FriendsAreMissed, UNCHANGED <<online, roll, conns>>
  PROVE  RollInv' /\ FollowsFit'
<1>1. RollInv' BY DEF RollInv, ConnShapes, RollFits, OnlineFits, ShownFits
<1>2. ASSUME NEW c \in roll PROVE WatchedFit(conns[c])' /\ TaskFits(conns[c].account, conns[c].task)'
  <2> DEFINE k == conns[c]
             a == k.account
             t == k.task
  <2>1. a \in Players /\ WatchedFit(k) /\ TaskFits(a, t) BY DEF RollInv, RollFits, FollowsFit
  <2>2. \A o \in Players : Unsettled(a, o) => Unsettled(a, o)' BY <2>1 DEF FriendsAreMissed
  <2>3. \A o \in Players : Lists(a, o) => Lists(a, o)' \/ Unsettled(a, o)'
    BY <2>1 DEF FriendsAreMissed
  <2>4. \A o \in Players : AreFriends(a, o) => AreFriends(a, o)' \/ Unsettled(a, o)'
    <3>1. \A o \in Players : Unsettled(o, a)' => Unsettled(a, o)'
      <4>1. \A o : {a, o} = {o, a} OBVIOUS
      <4> QED BY <4>1 DEF Unsettled
    <3>2. \A o \in Players : Lists(o, a) => Lists(o, a)' \/ Unsettled(o, a)'
      BY <2>1 DEF FriendsAreMissed
    <3> QED BY <3>1, <3>2, <2>3 DEF AreFriends, Blocked2, Lists
  <2> QED BY <2>1, <2>2, <2>3, <2>4 DEF WatchedFit, TaskFits, Excused
<1> QED BY <1>1, <1>2 DEF FollowsFit

LEMMA DeedsAreFine ==
  ASSUME FriendInv, NEW a \in Players, NEW b \in Players,
         \/ AsksToBeFriends(a, b) \/ (\E accepts \in BOOLEAN : AnswersRequest(a, b, accepts))
         \/ Unfriends(a, b) \/ Ignores(a, b) \/ Unblocks(a, b)
  PROVE  FriendInv'
<1>1. CASE Unblocks(a, b)
  <2>1. UNCHANGED <<online, roll, conns>> BY <1>1 DEF Unblocks
  <2> QED BY <1>1, <2>1, UnblockingKeeps, FollowersWait DEF FriendInv
<1>2. CASE ~Unblocks(a, b)
  <2>1. DeedDone(a, b)
    BY <1>2, AskingIsDone, AnsweringIsDone, UnfriendingIsDone, IgnoringIsDone DEF FriendInv
  <2>2. UNCHANGED <<online, roll, conns>> BY <2>1 DEF DeedDone
  <2> QED BY <2>1, <2>2, DeedsKeepTheBooks, DeedsAreMissed, FollowersWait DEF FriendInv
<1> QED BY <1>1, <1>2

\* What each step does to the record of a connection: here, to what it shows.
ShownElse(k, h, s) ==
  /\ ConnShaped(h) /\ h.account = k.account /\ h.stage = k.stage /\ h.panel = k.panel
  /\ h.watched = k.watched /\ h.task = k.task /\ h.late = k.late
  /\ \A q \in Players : h.shown[q] = s[q]

LEMMA ToldIs ==
  ASSUME NEW k, ConnShaped(k), NEW o \in Players, NEW where
  PROVE  ShownElse(k, Told(k, o, where), [q \in Players |-> IF q = o /\ k.panel /\ o \in k.watched THEN where[o] ELSE k.shown[q]])
<1>1. CASE k.panel /\ o \in k.watched
  <2> DEFINE s == [k.shown EXCEPT ![o] = where[o]]
  <2>1. Told(k, o, where) = [k EXCEPT !.shown = s] BY <1>1 DEF Told
  <2>2. s = [q \in Players |-> s[q]] /\ \A q \in Players : s[q] = IF q = o THEN where[o] ELSE k.shown[q]
    BY DEF ConnShaped
  <2> HIDE DEF s
  <2>3. Told(k, o, where) = [account |-> k.account, stage |-> k.stage, panel |-> k.panel, watched |-> k.watched,
                             shown |-> s, task |-> k.task, late |-> k.late]
    BY <2>1 DEF ConnShaped
  <2> QED BY <1>1, <2>2, <2>3 DEF ConnShaped, ShownElse
<1>2. CASE ~(k.panel /\ o \in k.watched) BY <1>2 DEF Told, ShownElse
<1> QED BY <1>1, <1>2

LEMMA FollowsIs ==
  ASSUME NEW k, ConnShaped(k), NEW some, NEW where
  PROVE  /\ ConnShaped(Follows(k, some, where))
         /\ Follows(k, some, where).account = k.account /\ Follows(k, some, where).stage = k.stage
         /\ Follows(k, some, where).panel = k.panel /\ Follows(k, some, where).watched = k.watched \cup some
         /\ Follows(k, some, where).task = k.task /\ Follows(k, some, where).late = k.late
         /\ \A q \in Players : Follows(k, some, where).shown[q] =
              IF q \in some /\ k.panel THEN where[q] ELSE k.shown[q]
<1> DEFINE s == [o \in Players |-> IF o \in some /\ k.panel THEN where[o] ELSE k.shown[o]]
           w == k.watched \cup some
<1>1. Follows(k, some, where) = [k EXCEPT !.watched = w, !.shown = s] BY DEF Follows, ConnShaped
<1>2. s = [q \in Players |-> s[q]] /\ \A q \in Players : s[q] = IF q \in some /\ k.panel THEN where[q] ELSE k.shown[q]
  OBVIOUS
<1> HIDE DEF s, w
<1>3. Follows(k, some, where) = [account |-> k.account, stage |-> k.stage, panel |-> k.panel, watched |-> w,
                                 shown |-> s, task |-> k.task, late |-> k.late]
  BY <1>1 DEF ConnShaped
<1>4. w = k.watched \cup some BY DEF w
<1> QED BY <1>2, <1>3, <1>4 DEF ConnShaped

\* A connection hears of a change: what it reads is noted, what it was late with is not, and whom it
\* follows is who is a friend from now.
HeardAs(k, o, made, h) ==
  /\ ConnShaped(h) /\ h.account = k.account /\ h.stage = k.stage /\ h.panel = k.panel
  /\ h.watched = IF made THEN k.watched \cup {o} ELSE k.watched \ {o}
  /\ h.late = k.late \ {o}
  /\ \A q \in Players : h.shown[q] = IF q = o /\ k.panel /\ (made \/ o \in k.watched)
                                     THEN (IF made THEN online[o] ELSE Away) ELSE k.shown[q]
  /\ h.task.kind = k.task.kind /\ h.task.asked = k.task.asked /\ h.task.listed = k.task.listed
  /\ h.task.todo = k.task.todo /\ h.task.found = k.task.found
  /\ h.task.stale = IF k.task.kind = "ask" /\ o \in k.task.asked THEN k.task.stale \cup {o} ELSE k.task.stale
  /\ h.task.missed = IF k.task.kind = "login" /\ ~made THEN k.task.missed \cup {o} ELSE k.task.missed \ {o}

LEMMA HearsIs ==
  \A k, o, made : ConnShaped(k) /\ o \in Players /\ made \in BOOLEAN => HeardAs(k, o, made, Hears(k, o, made))
<1> SUFFICES ASSUME NEW k, ConnShaped(k), NEW o \in Players, NEW made \in BOOLEAN, NEW h, h = Hears(k, o, made)
             PROVE  HeardAs(k, o, made, h)
  BY Zenon
<1> DEFINE st == IF k.task.kind = "ask" /\ o \in k.task.asked THEN k.task.stale \cup {o} ELSE k.task.stale
           mi == IF k.task.kind = "login" /\ ~made THEN k.task.missed \cup {o} ELSE k.task.missed \ {o}
           la == k.late \ {o}
           settled == [k EXCEPT !.task.stale = st, !.task.missed = mi, !.late = la]
<1>1. h = IF made THEN Follows(settled, {o}, online)
          ELSE [settled EXCEPT !.watched = @ \ {o}, !.shown[o] = IF k.panel /\ o \in k.watched THEN Away ELSE @]
  BY DEF Hears, ConnShaped
<1>2. k = [account |-> k.account, stage |-> k.stage, panel |-> k.panel, watched |-> k.watched,
           shown |-> k.shown, task |-> k.task, late |-> k.late]
      /\ k.task = [kind |-> k.task.kind, asked |-> k.task.asked, listed |-> k.task.listed, todo |-> k.task.todo,
                   found |-> k.task.found, stale |-> k.task.stale, missed |-> k.task.missed]
      /\ k.shown = [q \in Players |-> k.shown[q]]
  BY DEF ConnShaped, TaskShaped
<1> HIDE DEF st, mi, la
<1> DEFINE task == [kind |-> k.task.kind, asked |-> k.task.asked, listed |-> k.task.listed, todo |-> k.task.todo,
                    found |-> k.task.found, stale |-> st, missed |-> mi]
<1>3. settled = [account |-> k.account, stage |-> k.stage, panel |-> k.panel, watched |-> k.watched,
                 shown |-> k.shown, task |-> task, late |-> la]
  <2> DEFINE t1 == [k.task EXCEPT !.stale = st]
             t2 == [t1 EXCEPT !.missed = mi]
             k1 == [k EXCEPT !.task = t1]
             k2 == [k1 EXCEPT !.task = t2]
  <2>1. t1 = [kind |-> k.task.kind, asked |-> k.task.asked, listed |-> k.task.listed, todo |-> k.task.todo,
              found |-> k.task.found, stale |-> st, missed |-> k.task.missed]
    BY <1>2
  <2>2. t2 = task
    <3> HIDE DEF t1
    <3> QED BY <2>1
  <2>3. k1 = [account |-> k.account, stage |-> k.stage, panel |-> k.panel, watched |-> k.watched,
              shown |-> k.shown, task |-> t1, late |-> k.late]
    <3> HIDE DEF t1
    <3> QED BY <1>2
  <2>4. k2 = [account |-> k.account, stage |-> k.stage, panel |-> k.panel, watched |-> k.watched,
              shown |-> k.shown, task |-> t2, late |-> k.late]
    <3> HIDE DEF t1, t2, k1
    <3> QED BY <2>3
  <2>5. settled = [k2 EXCEPT !.late = la] BY <2>3, <2>1
  <2> HIDE DEF t1, t2, k1, k2, task
  <2> QED BY <2>2, <2>4, <2>5
<1>4. TaskShaped(task) /\ task.kind = k.task.kind /\ task.asked = k.task.asked /\ task.listed = k.task.listed
      /\ task.todo = k.task.todo /\ task.found = k.task.found /\ task.stale = st /\ task.missed = mi
  BY DEF TaskShaped
<1> HIDE DEF task, settled
<1>5. /\ ConnShaped(settled) /\ settled.account = k.account /\ settled.stage = k.stage
      /\ settled.panel = k.panel /\ settled.watched = k.watched /\ settled.shown = k.shown
      /\ settled.task = task /\ settled.late = la
  BY <1>2, <1>3, <1>4 DEF ConnShaped
<1>6. CASE made
  <2>1. h = Follows(settled, {o}, online) BY <1>1, <1>6
  <2>2. /\ ConnShaped(h) /\ h.account = k.account /\ h.stage = k.stage /\ h.panel = k.panel
        /\ h.watched = k.watched \cup {o} /\ h.late = la /\ h.task = task
        /\ \A q \in Players : h.shown[q] = IF q \in {o} /\ k.panel THEN online[q] ELSE k.shown[q]
    BY <2>1, <1>5, FollowsIs
  <2> QED BY <2>2, <1>4, <1>6 DEF st, mi, la, HeardAs
<1>7. CASE ~made
  <2> DEFINE w == k.watched \ {o}
             s == [k.shown EXCEPT ![o] = IF k.panel /\ o \in k.watched THEN Away ELSE @]
  <2>1. h = [settled EXCEPT !.watched = w, !.shown = s] BY <1>1, <1>3, <1>5, <1>7
  <2>2. s = [q \in Players |-> s[q]]
        /\ \A q \in Players : s[q] = IF q = o /\ k.panel /\ o \in k.watched THEN Away ELSE k.shown[q]
    BY <1>2
  <2>3. w = k.watched \ {o} OBVIOUS
  <2> HIDE DEF s, w
  <2>4. h = [account |-> k.account, stage |-> k.stage, panel |-> k.panel, watched |-> w,
             shown |-> s, task |-> task, late |-> la]
    BY <2>1, <1>3
  <2>5. ConnShaped(h) /\ h.task = task /\ h.watched = w /\ h.late = la /\ h.shown = s
        /\ h.account = k.account /\ h.stage = k.stage /\ h.panel = k.panel
    BY <2>2, <2>4, <1>4 DEF ConnShaped
  <2> QED BY <2>2, <2>3, <2>5, <1>4, <1>7 DEF st, mi, la, HeardAs
<1> QED BY <1>6, <1>7

LEMMA OtherIs ==
  ASSUME NEW a, NEW b, a # b
  PROVE  OtherOf({a, b}, a) = b /\ OtherOf({a, b}, b) = a
BY DEF OtherOf

\* Who is told of a change: the connections of the two, each of the other.
LEMMA ChangesAreHeard ==
  ASSUME StoredInv, RollInv, NEW p \in owed, FriendshipChanged(p), NEW c \in roll
  PROVE  \/ conns[c].account \notin p.between /\ conns'[c] = conns[c]
         \/ \E o \in Players : /\ p.between = {conns[c].account, o} /\ p.made \in BOOLEAN
                               /\ conns'[c] = Hears(conns[c], o, p.made)
                               /\ p.made => AreFriends(conns[c].account, o)
<1> DEFINE x == conns[c].account
<1>1. PICK a \in Players, b \in Players : a # b /\ p.between = {a, b} /\ p.made \in BOOLEAN /\ (p.made => AreFriends(a, b))
  BY DEF StoredInv, OwedFits
<1>2. c \in Connections BY DEF RollInv, RollFits
<1>3. conns'[c] = IF x \in p.between THEN Hears(conns[c], OtherOf(p.between, x), p.made) ELSE conns[c]
  BY <1>2 DEF FriendshipChanged
<1> HIDE DEF x
<1>4. CASE x \notin p.between BY <1>3, <1>4 DEF x
<1>5. CASE x = a
  <2>1. OtherOf(p.between, x) = b BY <1>1, <1>5, OtherIs
  <2> QED BY <2>1, <1>1, <1>3, <1>5 DEF x
<1>6. CASE x = b
  <2>1. OtherOf(p.between, x) = a /\ p.between = {x, a} BY <1>1, <1>6, OtherIs
  <2>2. AreFriends(a, b) => AreFriends(b, a) BY FriendsListEachOther
  <2> QED BY <2>1, <2>2, <1>1, <1>3, <1>6 DEF x
<1> QED BY <1>1, <1>4, <1>5, <1>6

\* A change is told: those it is told follow each other from then on, or do so no longer.
LEMMA ChangesAreTold ==
  ASSUME FriendInv, NEW p \in owed, FriendshipChanged(p)
  PROVE  FriendInv'
<1>1. /\ owed' = owed \ {p} /\ UNCHANGED <<friends, ignored, requests, halfSaved, online, roll>>
      /\ conns' = [c \in Connections |-> IF c \in roll /\ conns[c].account \in p.between
                                         THEN Hears(conns[c], OtherOf(p.between, conns[c].account), p.made) ELSE conns[c]]
  BY DEF FriendshipChanged
<1>2. StoredInv /\ RollInv /\ FollowsFit BY DEF FriendInv
<1>3. \A x, y : AreFriends(x, y)' <=> AreFriends(x, y) BY <1>1 DEF AreFriends, Blocked2
<1>4. \A x, y : Lists(x, y)' <=> Lists(x, y) BY <1>1 DEF Lists
<1>5. StoredInv'
  <2>1. OwedFits' BY <1>1, <1>2, <1>3 DEF StoredInv, OwedFits
  <2> QED BY <2>1, <1>1, <1>2 DEF StoredInv, StoredShapes, PairsFit, PairInOrder, Blocked2
<1>6. \A x, y : Unsettled(x, y) => Unsettled(x, y)' \/ p.between = {x, y} BY <1>1 DEF Unsettled
<1>7. \A c \in Connections : c \notin roll => conns'[c] = conns[c] BY <1>1
<1>8. roll \subseteq Connections /\ \A c \in roll : ConnShaped(conns[c]) /\ conns[c].account \in Players
  BY <1>2 DEF RollInv, RollFits, ConnShapes
<1>9. ASSUME NEW c \in roll
      PROVE  /\ ConnShaped(conns'[c]) /\ conns'[c].account = conns[c].account /\ conns'[c].stage = conns[c].stage
             /\ \A o \in Players : conns'[c].shown[o] # Away =>
                  conns'[c].panel /\ o \in conns'[c].watched /\ conns'[c].shown[o] = online[o]
             /\ WatchedFit(conns[c])' /\ TaskFits(conns[c].account, conns[c].task)'
  <2>0. PICK k, x, h : k = conns[c] /\ x = conns[c].account /\ h = conns'[c] OBVIOUS
  <2>1. /\ ConnShaped(k) /\ k.account = x /\ x \in Players /\ WatchedFit(k) /\ TaskFits(x, k.task)
        /\ \A o \in Players : k.shown[o] # Away => k.panel /\ o \in k.watched /\ k.shown[o] = online[o]
    BY <1>2, <1>8, <2>0 DEF FollowsFit, RollInv, ShownFits
  <2>2. CASE x \notin p.between /\ h = k
    <3>1. \A o : Unsettled(x, o) => Unsettled(x, o)' BY <2>2, <1>6
    <3>2. WatchedFit(h)' /\ TaskFits(x, h.task)'
      BY <2>1, <2>2, <3>1, <1>3, <1>4 DEF WatchedFit, TaskFits
    <3> QED BY <2>0, <2>1, <2>2, <3>2 DEF WatchedFit, TaskFits
  <2>3. ASSUME NEW o \in Players, p.between = {x, o}, p.made \in BOOLEAN, h = Hears(k, o, p.made),
               p.made => AreFriends(x, o)
        PROVE  /\ ConnShaped(h) /\ h.account = x /\ h.stage = k.stage
               /\ \A q \in Players : h.shown[q] # Away => h.panel /\ q \in h.watched /\ h.shown[q] = online[q]
               /\ WatchedFit(h)' /\ TaskFits(x, h.task)'
    <3>0. HeardAs(k, o, p.made, h) BY <2>1, <2>3, HearsIs, Zenon
    <3>1. /\ ConnShaped(h) /\ h.account = k.account /\ h.stage = k.stage /\ h.panel = k.panel
          /\ h.watched = IF p.made THEN k.watched \cup {o} ELSE k.watched \ {o}
          /\ h.late = k.late \ {o}
          /\ \A q \in Players : h.shown[q] = IF q = o /\ k.panel /\ (p.made \/ o \in k.watched)
                                             THEN (IF p.made THEN online[o] ELSE Away) ELSE k.shown[q]
      BY <3>0 DEF HeardAs
    <3>2. /\ h.task.kind = k.task.kind /\ h.task.asked = k.task.asked /\ h.task.listed = k.task.listed
          /\ h.task.todo = k.task.todo /\ h.task.found = k.task.found
          /\ h.task.stale = IF k.task.kind = "ask" /\ o \in k.task.asked THEN k.task.stale \cup {o} ELSE k.task.stale
          /\ h.task.missed = IF k.task.kind = "login" /\ ~p.made THEN k.task.missed \cup {o} ELSE k.task.missed \ {o}
      BY <3>0 DEF HeardAs
    <3>3. \A q : q # o /\ Unsettled(x, q) => Unsettled(x, q)'
      <4>1. \A q : q # o => {x, q} # {x, o} OBVIOUS
      <4> QED BY <4>1, <2>3, <1>6
    <3>4. ASSUME NEW q \in Players, h.shown[q] # Away
          PROVE  h.panel /\ q \in h.watched /\ h.shown[q] = online[q]
      BY <3>1, <3>4, <2>1, <2>3
    <3>5. WatchedFit(h)'
      <4>1. h.watched \subseteq Players BY <3>1, <2>1 DEF WatchedFit
      <4>2. ASSUME NEW q \in h.watched PROVE AreFriends(x, q) \/ Unsettled(x, q)' \/ q \in h.late
        <5>1. CASE q = o BY <5>1, <3>1, <2>3
        <5>2. CASE q # o BY <5>2, <3>1, <3>3, <2>1, <2>3 DEF WatchedFit
        <5> QED BY <5>1, <5>2
      <4> QED BY <4>1, <4>2, <3>1, <2>1, <1>3 DEF WatchedFit
    <3>6. TaskFits(x, h.task)'
      <4>0. PICK t, u : t = k.task /\ u = h.task OBVIOUS
      <4>1. /\ u.found = t.found /\ u.listed = t.listed /\ u.todo = t.todo /\ u.asked = t.asked /\ u.kind = t.kind
            /\ t.found \subseteq Players /\ t.listed \subseteq Players
            /\ t.kind = "ask" => t.found \subseteq t.asked /\ t.listed \cap t.todo \subseteq t.asked
            /\ t.kind \notin {"login", "ask"} => t.found = {} /\ t.listed = {} /\ t.todo = {}
        BY <4>0, <3>2, <2>1 DEF TaskFits
      <4>2. ASSUME NEW q, Excused(t, q), q # o PROVE Excused(u, q)
        BY <4>0, <4>2, <3>2, <2>3 DEF Excused
      <4>3. ~p.made /\ t.kind = "login" => Excused(u, o) BY <4>0, <3>2 DEF Excused
      <4>4. t.kind = "ask" /\ o \in t.asked => Excused(u, o) BY <4>0, <3>2 DEF Excused
      <4>5. ASSUME NEW q \in t.found PROVE AreFriends(x, q) \/ Unsettled(x, q)' \/ Excused(u, q)
        <5>1. CASE q # o BY <5>1, <4>0, <4>2, <3>3, <2>1 DEF TaskFits
        <5>2. CASE q = o /\ p.made BY <5>2, <2>3
        <5>3. CASE q = o /\ ~p.made BY <5>3, <4>1, <4>3, <4>4, <4>5
        <5> QED BY <5>1, <5>2, <5>3, <2>3
      <4>6. ASSUME NEW q \in t.listed \cap t.todo PROVE Lists(x, q) \/ Unsettled(x, q)' \/ Excused(u, q)
        <5>1. CASE q # o BY <5>1, <4>0, <4>2, <3>3, <2>1 DEF TaskFits
        <5>2. CASE q = o /\ p.made BY <5>2, <2>3, FriendsListEachOther
        <5>3. CASE q = o /\ ~p.made BY <5>3, <4>1, <4>3, <4>4, <4>6
        <5> QED BY <5>1, <5>2, <5>3, <2>3
      <4> QED BY <4>0, <4>1, <4>5, <4>6, <1>3, <1>4 DEF TaskFits
    <3> QED BY <2>1, <3>1, <3>4, <3>5, <3>6
  <2>4. CASE \E o \in Players : /\ p.between = {x, o} /\ p.made \in BOOLEAN /\ h = Hears(k, o, p.made)
                               /\ (p.made => AreFriends(x, o))
    <3>1. /\ ConnShaped(h) /\ h.account = x /\ h.stage = k.stage
          /\ \A q \in Players : h.shown[q] # Away => h.panel /\ q \in h.watched /\ h.shown[q] = online[q]
          /\ WatchedFit(h)' /\ TaskFits(x, h.task)'
      <4>1. PICK o \in Players : /\ p.between = {x, o} /\ p.made \in BOOLEAN /\ h = Hears(k, o, p.made)
                                 /\ (p.made => AreFriends(x, o))
        BY <2>4, Zenon
      <4> QED BY <4>1, <2>3
    <3> QED BY <3>1, <2>0 DEF WatchedFit, TaskFits
  <2> QED BY <2>0, <2>2, <2>4, <1>2, ChangesAreHeard
<1>10. RollInv'
  <2>1. ConnShapes' BY <1>1, <1>2, <1>7, <1>9 DEF RollInv, ConnShapes
  <2>2. RollFits'
    <3>1. RollFits /\ roll' = roll BY <1>1, <1>2 DEF RollInv
    <3>2. \A c \in Connections : conns'[c].stage = conns[c].stage BY <1>7, <1>9
    <3>3. \A c \in roll : conns'[c].account = conns[c].account BY <1>9
    <3>4. \A c \in Connections : conns'[c].stage = "new" => c \notin roll
      BY <3>1, <3>2 DEF RollFits
    <3> QED BY <3>1, <3>2, <3>3, <3>4, <1>7 DEF RollFits
  <2>3. OnlineFits'
    <3>1. OnlineFits /\ roll' = roll /\ online' = online BY <1>1, <1>2 DEF RollInv
    <3>2. \A c \in roll : conns'[c].account = conns[c].account BY <1>9
    <3> QED BY <3>1, <3>2 DEF OnlineFits
  <2>4. ShownFits' BY <1>1, <1>9 DEF ShownFits
  <2> QED BY <2>1, <2>2, <2>3, <2>4 DEF RollInv
<1>11. FollowsFit' BY <1>1, <1>9 DEF FollowsFit
<1> QED BY <1>5, <1>10, <1>11 DEF FriendInv

\* Where nothing is done between accounts, their books are as they were.
LEMMA BooksStay ==
  ASSUME StoredInv, UNCHANGED storedVars
  PROVE  /\ StoredInv'
         /\ \A x, y : /\ AreFriends(x, y)' <=> AreFriends(x, y)
                      /\ Lists(x, y)' <=> Lists(x, y)
                      /\ Unsettled(x, y)' <=> Unsettled(x, y)
<1>1. UNCHANGED <<friends, ignored, requests, owed, halfSaved>> BY DEF storedVars
<1>2. StoredInv'
  BY <1>1 DEF StoredInv, StoredShapes, OwedFits, PairsFit, PairInOrder, AreFriends, Blocked2
<1> QED BY <1>1, <1>2 DEF AreFriends, Blocked2, Lists, Unsettled

\* A connection shows where those are whom it follows.
ShowsWell(k, at) ==
  \A o \in Players : k.shown[o] # Away => k.panel /\ o \in k.watched /\ k.shown[o] = at[o]

\* Who comes and who goes, and where: the connections that remain follow whom they followed, and a new
\* one nobody.
LEMMA RollMoves ==
  ASSUME FriendInv, UNCHANGED storedVars, RollFits', OnlineFits',
         conns' = [c \in Connections |-> conns'[c]], \A c \in Connections : ConnShaped(conns'[c]),
         \A c \in roll' : ShowsWell(conns'[c], online'),
         \A c \in roll' :
           \/ /\ c \in roll /\ conns'[c].account = conns[c].account /\ conns'[c].watched = conns[c].watched
              /\ conns'[c].task = conns[c].task /\ conns'[c].late = conns[c].late
           \/ conns'[c].watched = {} /\ conns'[c].task = [SessionIdle EXCEPT !.kind = "loading"]
  PROVE  FriendInv'
<1>1. StoredInv' /\ \A x, y : /\ AreFriends(x, y)' <=> AreFriends(x, y)
                              /\ Lists(x, y)' <=> Lists(x, y)
                              /\ Unsettled(x, y)' <=> Unsettled(x, y)
  BY BooksStay DEF FriendInv
<1>2. RollInv'
  <2>1. ConnShapes' BY DEF ConnShapes
  <2>2. ShownFits' BY DEF ShownFits, ShowsWell
  <2> QED BY <2>1, <2>2 DEF RollInv
<1>3. ASSUME NEW c \in roll' PROVE WatchedFit(conns[c])' /\ TaskFits(conns[c].account, conns[c].task)'
  <2>0. PICK k, x, h : k = conns[c] /\ x = conns'[c].account /\ h = conns'[c] OBVIOUS
  <2>1. CASE c \in roll /\ x = k.account /\ h.watched = k.watched /\ h.task = k.task /\ h.late = k.late
    <3>1. WatchedFit(k) /\ TaskFits(x, k.task) BY <2>0, <2>1 DEF FriendInv, FollowsFit
    <3>2. PICK t : t = k.task OBVIOUS
    <3>3. WatchedFit(h)' BY <2>0, <2>1, <3>1, <1>1 DEF WatchedFit
    <3>4. TaskFits(x, t)' BY <3>1, <3>2, <1>1 DEF TaskFits
    <3>5. t = h.task BY <2>1, <3>2
    <3> QED BY <2>0, <3>3, <3>4, <3>5 DEF WatchedFit, TaskFits
  <2>2. CASE h.watched = {} /\ h.task = [SessionIdle EXCEPT !.kind = "loading"]
    <3>1. PICK t : t = h.task OBVIOUS
    <3>2. t.found = {} /\ t.listed = {} /\ t.todo = {} BY <2>2, <3>1 DEF SessionIdle
    <3>3. TaskFits(x, t)' BY <3>2 DEF TaskFits
    <3>4. WatchedFit(h)' BY <2>2 DEF WatchedFit
    <3> QED BY <2>0, <3>1, <3>3, <3>4 DEF WatchedFit, TaskFits
  <2> QED BY <2>0, <2>1, <2>2
<1> QED BY <1>1, <1>2, <1>3 DEF FriendInv, FollowsFit

ToldRight(k, h, where) ==
  /\ ShowsWell(h, where) /\ ConnShaped(h) /\ h.account = k.account /\ h.stage = k.stage
  /\ h.watched = k.watched /\ h.task = k.task /\ h.late = k.late

LEMMA ToldWell ==
  ASSUME NEW k, ConnShaped(k), NEW a \in Players, NEW at, at = [o \in Players |-> at[o]], NEW w,
         ShowsWell(k, at), NEW h, h = Told(k, a, [at EXCEPT ![a] = w])
  PROVE  ToldRight(k, h, [at EXCEPT ![a] = w])
<1> DEFINE where == [at EXCEPT ![a] = w]
<1>1. \A o \in Players : where[o] = IF o = a THEN w ELSE at[o] OBVIOUS
<1> HIDE DEF where
<1>2. ShownElse(k, h, [q \in Players |-> IF q = a /\ k.panel /\ a \in k.watched THEN where[a] ELSE k.shown[q]])
  BY ToldIs DEF where
<1>3. ShowsWell(h, where) BY <1>1, <1>2 DEF ShowsWell, ShownElse
<1> QED BY <1>2, <1>3 DEF where, ShownElse, ToldRight

LEMMA RollIs ==
  ASSUME FriendInv
  PROVE  /\ roll \subseteq Connections /\ RollFits /\ online = [a \in Players |-> online[a]]
         /\ \A c \in Connections : ConnShaped(conns[c])
         /\ conns = [c \in Connections |-> conns[c]]
         /\ \A c \in roll : conns[c].account \in Players /\ ShowsWell(conns[c], online)
BY DEF FriendInv, RollInv, RollFits, OnlineFits, ShownFits, ConnShapes, ShowsWell

LEMMA PlacesAre == Town # Away /\ \A to \in {Town} \cup Dungeons : to # Away
BY DEF Town, Away, Dungeons

\* Somebody is somewhere else.
LEMMA MovesAreTold ==
  ASSUME FriendInv, NEW c \in Connections, NEW to \in {Town} \cup Dungeons, Moves(c, to)
  PROVE  FriendInv'
<1>1. PICK a : a = conns[c].account OBVIOUS
<1>2. /\ c \in roll /\ online' = [online EXCEPT ![a] = to] /\ conns' = TellWatchers(conns, a, online', roll)
      /\ UNCHANGED <<storedVars, roll>>
  BY <1>1 DEF Moves, StillOnRoll
<1>3. a \in Players BY <1>1, <1>2, RollIs
<1>4. /\ conns' = [d \in Connections |-> conns'[d]]
      /\ \A d \in Connections : conns'[d] = IF d \in roll THEN Told(conns[d], a, online') ELSE conns[d]
  BY <1>2 DEF TellWatchers
<1>5. \A d \in roll : /\ ShowsWell(conns'[d], online') /\ ConnShaped(conns'[d]) /\ conns'[d].account = conns[d].account
                      /\ conns'[d].stage = conns[d].stage /\ conns'[d].watched = conns[d].watched
                      /\ conns'[d].task = conns[d].task /\ conns'[d].late = conns[d].late
  <2> SUFFICES ASSUME NEW d \in roll
               PROVE  /\ ShowsWell(conns'[d], online') /\ ConnShaped(conns'[d]) /\ conns'[d].account = conns[d].account
                      /\ conns'[d].stage = conns[d].stage /\ conns'[d].watched = conns[d].watched
                      /\ conns'[d].task = conns[d].task /\ conns'[d].late = conns[d].late
    OBVIOUS
  <2>1. PICK k, h, at : k = conns[d] /\ h = conns'[d] /\ at = online OBVIOUS
  <2>2. ConnShaped(k) /\ ShowsWell(k, at) /\ at = [o \in Players |-> at[o]] BY <2>1, RollIs
  <2>3. h = Told(k, a, [at EXCEPT ![a] = to]) BY <2>1, <1>2, <1>4, RollIs
  <2>4. ToldRight(k, h, [at EXCEPT ![a] = to]) BY <2>2, <2>3, <1>3, ToldWell
  <2>5. [at EXCEPT ![a] = to] = online' BY <2>1, <1>2
  <2> QED BY <2>1, <2>4, <2>5 DEF ToldRight
<1>6. RollFits'
  <2>1. \A d \in Connections : /\ conns'[d].stage = conns[d].stage /\ conns'[d].account = conns[d].account
                               /\ d \notin roll => conns'[d] = conns[d]
    BY <1>4, <1>5
  <2>2. RollFits /\ roll' = roll BY <1>2, RollIs
  <2>3. \A d \in Connections : conns'[d].stage = "new" => d \notin roll
    BY <2>1, <2>2 DEF RollFits
  <2> QED BY <2>1, <2>2, <2>3 DEF RollFits
<1>7. OnlineFits'
  <2>1. OnlineFits /\ roll' = roll /\ online = [b \in Players |-> online[b]]
    BY <1>2 DEF FriendInv, RollInv, OnlineFits
  <2>2. online' = [b \in Players |-> online'[b]] /\ \A b \in Players : online'[b] = IF b = a THEN to ELSE online[b]
    BY <1>2, <2>1
  <2> QED BY <2>1, <2>2, <1>1, <1>2, <1>5, PlacesAre DEF OnlineFits
<1>8. \A d \in Connections : ConnShaped(conns'[d]) BY <1>4, <1>5, RollIs
<1>9. roll' = roll /\ UNCHANGED storedVars BY <1>2
<1> QED BY <1>4, <1>5, <1>6, <1>7, <1>8, <1>9, RollMoves

\* A connection that begins, logs in and is closed.
LEMMA NewConnIs ==
  /\ ConnShaped(NewConn) /\ NewConn.watched = {} /\ NewConn.panel = FALSE
  /\ \A o \in Players : NewConn.shown[o] = Away
  /\ TaskShaped(SessionIdle) /\ NewConn.task = SessionIdle
BY DEF NewConn, ConnShaped, TaskShaped, SessionIdle

LEMMA ClosedIs ==
  ASSUME NEW k, NEW h, h = ClosedOf(k)
  PROVE  ConnShaped(h) /\ h.account = k.account /\ h.stage = "closed" /\ h.task = SessionIdle
<1>1. PICK new : new = NewConn OBVIOUS
<1>2. h = [new EXCEPT !.account = k.account, !.stage = "closed"] BY <1>1 DEF ClosedOf
<1>3. ConnShaped(new) /\ new.task = SessionIdle BY <1>1, NewConnIs
<1>4. h = [account |-> k.account, stage |-> "closed", panel |-> new.panel, watched |-> new.watched,
           shown |-> new.shown, task |-> new.task, late |-> new.late]
  BY <1>2, <1>3 DEF ConnShaped
<1> QED BY <1>3, <1>4 DEF ConnShaped

LoggedIn(k, a, h) ==
  /\ ConnShaped(h) /\ h.account = a /\ h.stage = "in" /\ h.watched = {} /\ h.panel = FALSE
  /\ h.task = [SessionIdle EXCEPT !.kind = "loading"] /\ \A o \in Players : h.shown[o] = Away

LEMMA LoggedInIs ==
  ASSUME NEW k, k = NewConn, NEW a,
         NEW h, h = [k EXCEPT !.account = a, !.stage = "in", !.task = [SessionIdle EXCEPT !.kind = "loading"]]
  PROVE  LoggedIn(k, a, h)
<1>1. PICK task : task = [SessionIdle EXCEPT !.kind = "loading"] OBVIOUS
<1>2. TaskShaped(task) BY <1>1 DEF TaskShaped, SessionIdle
<1>3. ConnShaped(k) /\ k.watched = {} /\ k.panel = FALSE /\ \A o \in Players : k.shown[o] = Away
  BY NewConnIs
<1>4. h = [account |-> a, stage |-> "in", panel |-> k.panel, watched |-> k.watched,
           shown |-> k.shown, task |-> task, late |-> k.late]
  <2>1. h = [k EXCEPT !.account = a, !.stage = "in", !.task = task] BY <1>1
  <2> QED BY <2>1, <1>3 DEF ConnShaped
<1> QED BY <1>1, <1>2, <1>3, <1>4 DEF ConnShaped, LoggedIn

\* A login: the connection that held the account is closed, and the rest are told where it is.
LEMMA LoginsAreTold ==
  ASSUME FriendInv, NEW c \in Connections, NEW a \in Players, LogsIn(c, a)
  PROVE  FriendInv'
<1>1. PICK before, k : before = HoldersOf(a) /\ k = [conns[c] EXCEPT !.account = a, !.stage = "in",
                                                                  !.task = [SessionIdle EXCEPT !.kind = "loading"]]
  OBVIOUS
<1>2. /\ conns[c].stage = "new" /\ online' = [online EXCEPT ![a] = Town]
      /\ roll' = (roll \ before) \cup {c} /\ UNCHANGED storedVars
      /\ conns' = [d \in Connections |-> IF d \in before THEN ClosedOf(conns[d])
                                         ELSE TellWatchers([conns EXCEPT ![c] = k], a, online', roll \cup {c})[d]]
  BY <1>1 DEF LogsIn
<1>3. before \subseteq roll /\ \A d \in roll : d \in before <=> conns[d].account = a
  BY <1>1 DEF HoldersOf
<1>4. c \notin roll /\ conns[c] = NewConn
  <2>1. conns[c].stage # "in" BY <1>2
  <2> QED BY <2>1, <1>2, RollIs DEF RollFits
<1>5. LoggedIn(conns[c], a, k) BY <1>1, <1>4, LoggedInIs
<1>6. /\ conns' = [d \in Connections |-> conns'[d]]
      /\ \A d \in Connections : conns'[d] = IF d \in before THEN ClosedOf(conns[d])
                                            ELSE IF d = c THEN Told(k, a, online')
                                            ELSE IF d \in roll THEN Told(conns[d], a, online') ELSE conns[d]
  BY <1>2, RollIs DEF TellWatchers
<1>7. conns'[c] = k
  <2>1. Told(k, a, online') = k BY <1>5 DEF Told, LoggedIn
  <2> QED BY <2>1, <1>3, <1>4, <1>6
<1>8. \A d \in before : ConnShaped(conns'[d]) /\ conns'[d].account = a /\ conns'[d].stage = "closed" /\ conns'[d].task = SessionIdle
  BY <1>3, <1>6, ClosedIs, RollIs
<1>9. \A d \in roll \ before :
        /\ ShowsWell(conns'[d], online') /\ ConnShaped(conns'[d]) /\ conns'[d].account = conns[d].account
        /\ conns'[d].stage = conns[d].stage /\ conns'[d].watched = conns[d].watched
        /\ conns'[d].task = conns[d].task /\ conns'[d].late = conns[d].late
  <2> SUFFICES ASSUME NEW d \in roll \ before
               PROVE  /\ ShowsWell(conns'[d], online') /\ ConnShaped(conns'[d]) /\ conns'[d].account = conns[d].account
                      /\ conns'[d].stage = conns[d].stage /\ conns'[d].watched = conns[d].watched
                      /\ conns'[d].task = conns[d].task /\ conns'[d].late = conns[d].late
    OBVIOUS
  <2>1. PICK m, h, at : m = conns[d] /\ h = conns'[d] /\ at = online OBVIOUS
  <2>2. ConnShaped(m) /\ ShowsWell(m, at) /\ at = [o \in Players |-> at[o]] BY <2>1, RollIs
  <2>3. h = Told(m, a, [at EXCEPT ![a] = Town]) BY <2>1, <1>2, <1>4, <1>6, RollIs
  <2>4. ToldRight(m, h, [at EXCEPT ![a] = Town]) BY <2>2, <2>3, ToldWell
  <2>5. [at EXCEPT ![a] = Town] = online' BY <2>1, <1>2
  <2> QED BY <2>1, <2>4, <2>5 DEF ToldRight
<1>10. \A d \in Connections : d \notin roll /\ d # c => conns'[d] = conns[d] BY <1>3, <1>6
<1>11. RollFits'
  <2>1. RollFits BY RollIs
  <2>2. roll' \subseteq Connections BY <1>2, RollIs
  <2>3. \A d \in Connections : d \in roll' <=> conns'[d].stage = "in"
    <3> SUFFICES ASSUME NEW d \in Connections PROVE d \in roll' <=> conns'[d].stage = "in"
      OBVIOUS
    <3>1. CASE d = c BY <3>1, <1>2, <1>5, <1>7 DEF LoggedIn
    <3>2. CASE d \in before BY <3>2, <1>2, <1>3, <1>4, <1>8
    <3>3. CASE d # c /\ d \in roll \ before BY <3>3, <2>1, <1>2, <1>9, ZenonT(60) DEF RollFits
    <3>4. CASE d # c /\ d \notin roll BY <3>4, <2>1, <1>2, <1>10 DEF RollFits
    <3> QED BY <3>1, <3>2, <3>3, <3>4
  <2>4. \A d \in Connections : conns'[d].stage = "new" => conns'[d] = NewConn
    <3>1. \A d \in roll : conns[d].stage = "in" BY <2>1 DEF RollFits
    <3> QED BY <3>1, <2>1, <1>3, <1>5, <1>7, <1>8, <1>9, <1>10 DEF RollFits, LoggedIn
  <2>5. \A d \in Connections : d \notin roll' => conns'[d].task = SessionIdle
    BY <2>1, <1>2, <1>3, <1>8, <1>10 DEF RollFits
  <2>6. \A d \in roll' : conns'[d].account \in Players /\ (d # c => d \in roll /\ conns'[d].account = conns[d].account
                                                                     /\ conns'[d].account # a)
    BY <1>2, <1>3, <1>5, <1>7, <1>9, RollIs, ZenonT(60) DEF LoggedIn
  <2>7. conns'[c].account = a BY <1>5, <1>7 DEF LoggedIn
  <2>8. \A d, e \in roll' : conns'[d].account = conns'[e].account => d = e
    BY <2>1, <2>6, <2>7 DEF RollFits
  <2> QED BY <2>2, <2>3, <2>4, <2>5, <2>6, <2>8 DEF RollFits
<1>12. OnlineFits'
  <2>1. OnlineFits BY DEF FriendInv, RollInv
  <2>2. online' = [b \in Players |-> online'[b]] /\ \A b \in Players : online'[b] = IF b = a THEN Town ELSE online[b]
    BY <1>2, RollIs
  <2>3. c \in roll' /\ conns'[c].account = a BY <1>2, <1>5, <1>7 DEF LoggedIn
  <2>4. \A d \in roll' : d # c => d \in roll /\ conns'[d].account = conns[d].account
    BY <1>2, <1>9
  <2>5. \A d \in roll : conns[d].account # a => d \in roll' /\ conns'[d].account = conns[d].account
    BY <1>2, <1>3, <1>9
  <2>6. ASSUME NEW b \in Players PROVE online'[b] # Away <=> \E d \in roll' : conns'[d].account = b
    <3>1. CASE b = a BY <3>1, <2>2, <2>3, PlacesAre
    <3>2. CASE b # a
      <4>1. online'[b] # Away <=> \E d \in roll : conns[d].account = b
        BY <3>2, <2>1, <2>2 DEF OnlineFits
      <4> QED BY <4>1, <3>2, <2>3, <2>4, <2>5
    <3> QED BY <3>1, <3>2
  <2> QED BY <2>2, <2>6 DEF OnlineFits
<1>13. \A d \in Connections : ConnShaped(conns'[d])
  BY <1>5, <1>7, <1>8, <1>9, <1>10, RollIs DEF LoggedIn
<1>14. \A d \in roll' : ShowsWell(conns'[d], online')
  <2>1. ShowsWell(k, online') BY <1>5 DEF LoggedIn, ShowsWell
  <2>2. \A d \in roll' : d = c \/ d \in roll \ before BY <1>2
  <2> QED BY <2>1, <2>2, <1>7, <1>9
<1>15. \A d \in roll' :
         \/ /\ d \in roll /\ conns'[d].account = conns[d].account /\ conns'[d].watched = conns[d].watched
            /\ conns'[d].task = conns[d].task /\ conns'[d].late = conns[d].late
         \/ conns'[d].watched = {} /\ conns'[d].task = [SessionIdle EXCEPT !.kind = "loading"]
  <2>1. k.watched = {} /\ k.task = [SessionIdle EXCEPT !.kind = "loading"] BY <1>5 DEF LoggedIn
  <2>2. \A d \in roll' : d = c \/ d \in roll \ before BY <1>2
  <2> QED BY <2>1, <2>2, <1>7, <1>9
<1> QED BY <1>2, <1>6, <1>11, <1>12, <1>13, <1>14, <1>15, RollMoves

LEMMA LeavingIsTold ==
  ASSUME FriendInv, NEW c \in Connections, Leaves(c)
  PROVE  FriendInv'
<1>1. PICK a, k : a = conns[c].account /\ k = ClosedOf(conns[c]) OBVIOUS
<1>2. c \in roll BY RollIs DEF Leaves, RollFits
<1>3. /\ roll' = roll \ {c} /\ online' = [online EXCEPT ![a] = Away] /\ UNCHANGED storedVars
      /\ conns' = TellWatchers([conns EXCEPT ![c] = k], a, online', roll \ {c})
  BY <1>1, <1>2 DEF Leaves
<1>4. a \in Players BY <1>1, <1>2, RollIs
<1>5. /\ conns' = [d \in Connections |-> conns'[d]]
      /\ \A d \in Connections : conns'[d] = IF d = c THEN k
                                            ELSE IF d \in roll THEN Told(conns[d], a, online') ELSE conns[d]
  BY <1>3, RollIs DEF TellWatchers
<1>6. conns'[c] = k /\ ConnShaped(k) /\ k.stage = "closed" /\ k.task = SessionIdle
  BY <1>1, <1>5, ClosedIs
<1>7. \A d \in roll \ {c} :
        /\ ShowsWell(conns'[d], online') /\ ConnShaped(conns'[d]) /\ conns'[d].account = conns[d].account
        /\ conns'[d].stage = conns[d].stage /\ conns'[d].watched = conns[d].watched
        /\ conns'[d].task = conns[d].task /\ conns'[d].late = conns[d].late
  <2> SUFFICES ASSUME NEW d \in roll \ {c}
               PROVE  /\ ShowsWell(conns'[d], online') /\ ConnShaped(conns'[d]) /\ conns'[d].account = conns[d].account
                      /\ conns'[d].stage = conns[d].stage /\ conns'[d].watched = conns[d].watched
                      /\ conns'[d].task = conns[d].task /\ conns'[d].late = conns[d].late
    OBVIOUS
  <2>1. PICK m, h, at : m = conns[d] /\ h = conns'[d] /\ at = online OBVIOUS
  <2>2. ConnShaped(m) /\ ShowsWell(m, at) /\ at = [o \in Players |-> at[o]] BY <2>1, RollIs
  <2>3. h = Told(m, a, [at EXCEPT ![a] = Away]) BY <2>1, <1>3, <1>5, RollIs
  <2>4. ToldRight(m, h, [at EXCEPT ![a] = Away]) BY <2>2, <2>3, <1>4, ToldWell
  <2>5. [at EXCEPT ![a] = Away] = online' BY <2>1, <1>3
  <2> QED BY <2>1, <2>4, <2>5 DEF ToldRight
<1>8. \A d \in Connections : d \notin roll => conns'[d] = conns[d] BY <1>2, <1>5
<1>9. RollFits'
  <2>1. RollFits BY RollIs
  <2>2. \A d \in Connections : d \in roll' <=> conns'[d].stage = "in"
    BY <2>1, <1>3, <1>6, <1>7, <1>8, ZenonT(60) DEF RollFits
  <2>3. \A d \in Connections : conns'[d].stage = "new" => conns'[d] = NewConn
    <3>1. \A d \in roll : conns[d].stage = "in" BY <2>1 DEF RollFits
    <3> QED BY <3>1, <2>1, <1>6, <1>7, <1>8 DEF RollFits
  <2>4. \A d \in Connections : d \notin roll' => conns'[d].task = SessionIdle
    BY <2>1, <1>3, <1>6, <1>8 DEF RollFits
  <2>5. \A d \in roll' : d \in roll /\ conns'[d].account = conns[d].account BY <1>3, <1>7
  <2> QED BY <2>1, <2>2, <2>3, <2>4, <2>5, RollIs DEF RollFits
<1>10. OnlineFits'
  <2>1. OnlineFits /\ RollFits BY DEF FriendInv, RollInv
  <2>2. online' = [b \in Players |-> online'[b]] /\ \A b \in Players : online'[b] = IF b = a THEN Away ELSE online[b]
    BY <1>3, RollIs
  <2>3. \A d \in roll' : d \in roll /\ d # c /\ conns'[d].account = conns[d].account /\ conns[d].account # a
    BY <1>1, <1>2, <1>3, <1>7, <2>1 DEF RollFits
  <2>4. \A d \in roll : conns[d].account # a => d \in roll' /\ conns'[d].account = conns[d].account
    BY <1>1, <1>3, <1>7
  <2>5. ASSUME NEW b \in Players PROVE online'[b] # Away <=> \E d \in roll' : conns'[d].account = b
    <3>1. CASE b = a BY <3>1, <2>2, <2>3
    <3>2. CASE b # a
      <4>1. online'[b] # Away <=> \E d \in roll : conns[d].account = b
        BY <3>2, <2>1, <2>2 DEF OnlineFits
      <4> QED BY <4>1, <3>2, <2>3, <2>4
    <3> QED BY <3>1, <3>2
  <2> QED BY <2>2, <2>5 DEF OnlineFits
<1>11. \A d \in Connections : ConnShaped(conns'[d]) BY <1>6, <1>7, <1>8, RollIs
<1> QED BY <1>3, <1>5, <1>7, <1>9, <1>10, <1>11, RollMoves

LEMMA ReassertingIsRight == ASSUME FriendInv, Reasserts PROVE FriendInv'
<1> DEFINE shown(k) == [o \in Players |-> IF k.panel /\ o \in k.watched /\ online[o] # Away THEN online[o] ELSE k.shown[o]]
<1>1. /\ UNCHANGED <<storedVars, online, roll>>
      /\ conns' = [c \in Connections |-> IF c \in roll THEN [conns[c] EXCEPT !.shown = shown(conns[c])] ELSE conns[c]]
  <2>1. \A c \in roll : ConnShaped(conns[c]) BY RollIs
  <2> QED BY <2>1 DEF Reasserts, ConnShaped
<1>2. ASSUME NEW c \in roll
      PROVE  /\ ShowsWell(conns'[c], online) /\ ConnShaped(conns'[c]) /\ conns'[c].account = conns[c].account
             /\ conns'[c].stage = conns[c].stage /\ conns'[c].watched = conns[c].watched
             /\ conns'[c].task = conns[c].task /\ conns'[c].late = conns[c].late
  <2>1. PICK k, h, s : k = conns[c] /\ h = conns'[c] /\ s = shown(conns[c]) OBVIOUS
  <2>2. ConnShaped(k) /\ ShowsWell(k, online) /\ h = [k EXCEPT !.shown = s]
    BY <2>1, <1>1, RollIs
  <2>3. /\ s = [o \in Players |-> s[o]]
        /\ \A o \in Players : s[o] = IF k.panel /\ o \in k.watched /\ online[o] # Away THEN online[o] ELSE k.shown[o]
    BY <2>1
  <2>4. h = [account |-> k.account, stage |-> k.stage, panel |-> k.panel, watched |-> k.watched,
             shown |-> s, task |-> k.task, late |-> k.late]
    BY <2>2 DEF ConnShaped
  <2>5. ConnShaped(h) /\ h.account = k.account /\ h.stage = k.stage /\ h.watched = k.watched
        /\ h.task = k.task /\ h.late = k.late /\ h.panel = k.panel /\ h.shown = s
    BY <2>2, <2>3, <2>4 DEF ConnShaped
  <2>6. ShowsWell(h, online) BY <2>2, <2>3, <2>5 DEF ShowsWell
  <2> QED BY <2>1, <2>5, <2>6
<1> HIDE DEF shown
<1>3. /\ conns' = [c \in Connections |-> conns'[c]] /\ \A c \in Connections : c \notin roll => conns'[c] = conns[c]
  BY <1>1
<1>4. RollFits'
  <2>1. \A d \in Connections : /\ conns'[d].stage = conns[d].stage /\ conns'[d].account = conns[d].account
                               /\ d \notin roll => conns'[d] = conns[d]
    BY <1>2, <1>3
  <2>2. RollFits /\ roll' = roll BY <1>1, RollIs
  <2>3. \A d \in Connections : conns'[d].stage = "new" => d \notin roll
    BY <2>1, <2>2 DEF RollFits
  <2> QED BY <2>1, <2>2, <2>3 DEF RollFits
<1>5. OnlineFits'
  <2>1. OnlineFits /\ roll' = roll /\ online' = online BY <1>1 DEF FriendInv, RollInv
  <2>2. \A c \in roll : conns'[c].account = conns[c].account BY <1>2
  <2> QED BY <2>1, <2>2 DEF OnlineFits
<1>6. \A c \in Connections : ConnShaped(conns'[c]) BY <1>2, <1>3, RollIs
<1> QED BY <1>1, <1>2, <1>3, <1>4, <1>5, <1>6, RollMoves

\* One connection goes on with what it reads.
LEMMA OneGoesOn ==
  ASSUME FriendInv, NEW c \in roll, NEW k, With(c, k), ConnShaped(k), k.account = conns[c].account,
         k.stage = conns[c].stage, ShowsWell(k, online), WatchedFit(k), TaskFits(k.account, k.task)
  PROVE  FriendInv'
<1>1. conns' = [conns EXCEPT ![c] = k] /\ UNCHANGED <<storedVars, online, roll>> BY DEF With
<1>2. StoredInv' /\ \A x, y : /\ AreFriends(x, y)' <=> AreFriends(x, y)
                              /\ Lists(x, y)' <=> Lists(x, y)
                              /\ Unsettled(x, y)' <=> Unsettled(x, y)
  BY <1>1, BooksStay DEF FriendInv
<1>3. c \in Connections /\ RollFits /\ conns = [d \in Connections |-> conns[d]] BY RollIs
<1>4. /\ conns' = [d \in Connections |-> conns'[d]]
      /\ \A d \in Connections : conns'[d] = IF d = c THEN k ELSE conns[d]
  BY <1>1, <1>3
<1>5. \A d \in Connections : conns'[d].stage = conns[d].stage /\ conns'[d].account = conns[d].account
  BY <1>4
<1>6. ConnShapes' BY <1>4, RollIs DEF ConnShapes
<1>7. RollFits'
  <2>1. conns[c].stage = "in" BY <1>3 DEF RollFits
  <2>2. \A d \in Connections : conns'[d].stage = "new" => conns'[d] = NewConn
    BY <2>1, <1>3, <1>4, <1>5 DEF RollFits
  <2>3. \A d \in Connections : d \notin roll => conns'[d].task = SessionIdle
    BY <1>3, <1>4 DEF RollFits
  <2>4. roll' = roll /\ RollFits BY <1>1, <1>3
  <2> QED BY <2>2, <2>3, <2>4, <1>5 DEF RollFits
<1>8. OnlineFits'
  <2>1. OnlineFits /\ roll \subseteq Connections BY RollIs DEF FriendInv, RollInv
  <2> QED BY <2>1, <1>1, <1>5 DEF OnlineFits
<1>9. ShownFits'
  <2>1. ShownFits /\ roll \subseteq Connections BY RollIs DEF FriendInv, RollInv
  <2> QED BY <2>1, <1>1, <1>4 DEF ShownFits, ShowsWell
<1>10. ASSUME NEW d \in roll PROVE WatchedFit(conns[d])' /\ TaskFits(conns[d].account, conns[d].task)'
  <2>1. PICK h, x, t : h = conns'[d] /\ x = conns'[d].account /\ t = conns'[d].task OBVIOUS
  <2>2. WatchedFit(h) /\ TaskFits(x, t) BY <2>1, <1>4, RollIs DEF FriendInv, FollowsFit
  <2>3. WatchedFit(h)' /\ TaskFits(x, t)' BY <2>2, <1>2 DEF WatchedFit, TaskFits
  <2> QED BY <2>1, <2>3 DEF WatchedFit, TaskFits
<1> QED BY <1>1, <1>2, <1>6, <1>7, <1>8, <1>9, <1>10 DEF FriendInv, RollInv, FollowsFit

TaskIs(k, h, t) ==
  /\ ConnShaped(h) /\ h.account = k.account /\ h.stage = k.stage /\ h.panel = k.panel
  /\ h.watched = k.watched /\ h.shown = k.shown /\ h.late = k.late /\ h.task = t

LEMMA TaskChanges ==
  ASSUME NEW k, ConnShaped(k), NEW t, TaskShaped(t), NEW h, h = [k EXCEPT !.task = t]
  PROVE  TaskIs(k, h, t)
<1>1. h = [account |-> k.account, stage |-> k.stage, panel |-> k.panel, watched |-> k.watched,
           shown |-> k.shown, task |-> t, late |-> k.late]
  BY DEF ConnShaped
<1> QED BY <1>1 DEF ConnShaped, TaskIs

\* Where only the task changes, only the task is to be looked at.
LEMMA TasksGoOn ==
  ASSUME FriendInv, NEW c \in roll, NEW t, TaskShaped(t), TaskFits(conns[c].account, t),
         With(c, [conns[c] EXCEPT !.task = t])
  PROVE  FriendInv'
<1>1. PICK k, h : k = conns[c] /\ h = [conns[c] EXCEPT !.task = t] OBVIOUS
<1>2. ConnShaped(k) /\ ShowsWell(k, online) /\ WatchedFit(k)
  BY <1>1, RollIs DEF FriendInv, FollowsFit
<1>3. TaskIs(k, h, t) BY <1>1, <1>2, TaskChanges
<1>4. WatchedFit(h) /\ ShowsWell(h, online) BY <1>2, <1>3 DEF WatchedFit, ShowsWell, TaskIs
<1>5. With(c, h) BY <1>1
<1> QED BY <1>1, <1>3, <1>4, <1>5, OneGoesOn DEF TaskIs

LEMMA IdleIs ==
  /\ TaskShaped(SessionIdle) /\ SessionIdle.kind = "idle" /\ SessionIdle.todo = {} /\ SessionIdle.found = {}
  /\ SessionIdle.listed = {}
BY DEF SessionIdle, TaskShaped

LEMMA IdleFits == ASSUME NEW a PROVE TaskFits(a, SessionIdle)
BY DEF SessionIdle, TaskFits

\* Only who is on the roll reads.
LEMMA ReadersAreOnTheRoll ==
  ASSUME FriendInv, NEW c \in Connections, conns[c].task # SessionIdle
  PROVE  c \in roll
BY RollIs DEF RollFits

LEMMA BegunFits ==
  ASSUME NEW kind \in {"login", "ask"}, NEW some, NEW a
  PROVE  /\ TaskShaped([SessionIdle EXCEPT !.kind = kind, !.asked = some, !.todo = {"own"}])
         /\ TaskShaped([SessionIdle EXCEPT !.kind = kind, !.todo = {"own"}])
         /\ TaskFits(a, [SessionIdle EXCEPT !.kind = kind, !.asked = some, !.todo = {"own"}])
         /\ TaskFits(a, [SessionIdle EXCEPT !.kind = kind, !.todo = {"own"}])
<1>1. PICK t : t = [kind |-> kind, asked |-> some, listed |-> {}, todo |-> {"own"}, found |-> {},
                    stale |-> {}, missed |-> {}]
  OBVIOUS
<1>2. PICK u : u = [kind |-> kind, asked |-> {}, listed |-> {}, todo |-> {"own"}, found |-> {},
                    stale |-> {}, missed |-> {}]
  OBVIOUS
<1>3. [SessionIdle EXCEPT !.kind = kind, !.asked = some, !.todo = {"own"}] = t
  <2>1. PICK v : v = [kind |-> kind, asked |-> {}, listed |-> {}, todo |-> {}, found |-> {}, stale |-> {}, missed |-> {}]
    OBVIOUS
  <2>2. PICK w : w = [kind |-> kind, asked |-> some, listed |-> {}, todo |-> {}, found |-> {}, stale |-> {}, missed |-> {}]
    OBVIOUS
  <2>3. [SessionIdle EXCEPT !.kind = kind] = v BY <2>1 DEF SessionIdle
  <2>4. [v EXCEPT !.asked = some] = w BY <2>1, <2>2
  <2>5. [w EXCEPT !.todo = {"own"}] = t BY <2>2, <1>1
  <2> QED BY <2>3, <2>4, <2>5
<1>4. [SessionIdle EXCEPT !.kind = kind, !.todo = {"own"}] = u
  <2>1. PICK v : v = [kind |-> kind, asked |-> {}, listed |-> {}, todo |-> {}, found |-> {}, stale |-> {}, missed |-> {}]
    OBVIOUS
  <2>2. [SessionIdle EXCEPT !.kind = kind] = v BY <2>1 DEF SessionIdle
  <2>3. [v EXCEPT !.todo = {"own"}] = u BY <2>1, <1>2
  <2> QED BY <2>2, <2>3
<1>5. TaskShaped(t) /\ TaskShaped(u) /\ TaskFits(a, t) /\ TaskFits(a, u)
  BY <1>1, <1>2 DEF TaskShaped, TaskFits
<1> QED BY <1>3, <1>4, <1>5

LEMMA PanelsAreGot == ASSUME FriendInv, NEW c \in Connections, GetsPanel(c) PROVE FriendInv'
<1>1. PICK k, t, h : /\ k = conns[c] /\ t = [SessionIdle EXCEPT !.kind = "login", !.todo = {"own"}]
                     /\ h = [conns[c] EXCEPT !.panel = TRUE, !.task = t]
  OBVIOUS
<1>2. conns[c].task.kind = "loading" /\ With(c, h) BY <1>1 DEF GetsPanel
<1>3. c \in roll BY <1>2, IdleIs, ReadersAreOnTheRoll
<1>4. ConnShaped(k) /\ ShowsWell(k, online) /\ WatchedFit(k)
  BY <1>1, <1>3, RollIs DEF FriendInv, FollowsFit
<1>5. TaskShaped(t) /\ TaskFits(k.account, t) BY <1>1, BegunFits
<1>6. h = [account |-> k.account, stage |-> k.stage, panel |-> TRUE, watched |-> k.watched,
           shown |-> k.shown, task |-> t, late |-> k.late]
  BY <1>1, <1>4 DEF ConnShaped
<1>7. /\ ConnShaped(h) /\ h.account = k.account /\ h.stage = k.stage /\ h.panel = TRUE
      /\ h.watched = k.watched /\ h.shown = k.shown /\ h.late = k.late /\ h.task = t
  BY <1>4, <1>5, <1>6 DEF ConnShaped
<1>8. WatchedFit(h) /\ ShowsWell(h, online) /\ TaskFits(h.account, h.task)
  BY <1>4, <1>5, <1>7 DEF WatchedFit, ShowsWell
<1> QED BY <1>1, <1>2, <1>3, <1>7, <1>8, OneGoesOn

LEMMA AsksAreFine == ASSUME FriendInv, NEW c \in Connections, NEW some, AsksAfter(c, some) PROVE FriendInv'
<1>1. PICK t : t = [SessionIdle EXCEPT !.kind = "ask", !.asked = some, !.todo = {"own"}] OBVIOUS
<1>2. conns[c].stage = "in" /\ With(c, [conns[c] EXCEPT !.task = t]) BY <1>1 DEF AsksAfter
<1>3. c \in roll BY <1>2, RollIs DEF RollFits
<1>4. TaskShaped(t) /\ TaskFits(conns[c].account, t) BY <1>1, BegunFits
<1> QED BY <1>2, <1>3, <1>4, TasksGoOn

LEMMA FailedReadsAreFine == ASSUME FriendInv, NEW c \in Connections, ReadFails(c) PROVE FriendInv'
<1>1. PICK t : t = SessionIdle OBVIOUS
<1>2. conns[c].task.todo # {} /\ With(c, [conns[c] EXCEPT !.task = t]) BY <1>1 DEF ReadFails
<1>3. c \in roll BY <1>2, IdleIs, ReadersAreOnTheRoll
<1> QED BY <1>1, <1>2, <1>3, IdleIs, IdleFits, TasksGoOn

\* Its own account is read: those it lists are read in turn.
LEMMA OwnReadsAreFine == ASSUME FriendInv, NEW c \in Connections, ReadsOwn(c) PROVE FriendInv'
<1>1. PICK k, a, t, listed, todo :
        /\ k = conns[c] /\ a = k.account /\ t = k.task /\ listed = friends[a] \ ignored[a]
        /\ todo = IF k.task.kind = "login" THEN friends[a] ELSE friends[a] \cap k.task.asked
  OBVIOUS
<1>2. t.todo = {"own"} /\ With(c, [k EXCEPT !.task.listed = listed, !.task.todo = todo])
  BY <1>1 DEF ReadsOwn
<1>3. c \in roll BY <1>1, <1>2, IdleIs, ReadersAreOnTheRoll
<1>4. ConnShaped(k) /\ a \in Players /\ TaskFits(a, t)
  BY <1>1, <1>3, RollIs DEF FriendInv, FollowsFit
<1>5. PICK u : u = [kind |-> t.kind, asked |-> t.asked, listed |-> listed, todo |-> todo,
                    found |-> t.found, stale |-> t.stale, missed |-> t.missed]
  OBVIOUS
<1>6. [k EXCEPT !.task.listed = listed, !.task.todo = todo] = [k EXCEPT !.task = u]
  <2>1. [t EXCEPT !.listed = listed, !.todo = todo] = u
    <3>1. TaskShaped(t) BY <1>1, <1>4 DEF ConnShaped
    <3>2. PICK v : v = [kind |-> t.kind, asked |-> t.asked, listed |-> listed, todo |-> t.todo,
                        found |-> t.found, stale |-> t.stale, missed |-> t.missed]
      OBVIOUS
    <3>3. [t EXCEPT !.listed = listed] = v BY <3>1, <3>2 DEF TaskShaped
    <3>4. [v EXCEPT !.todo = todo] = u BY <3>2, <1>5
    <3> QED BY <3>3, <3>4
  <2>2. [k EXCEPT !.task.listed = listed, !.task.todo = todo] = [k EXCEPT !.task = [t EXCEPT !.listed = listed, !.todo = todo]]
    BY <1>1, <1>4 DEF ConnShaped
  <2> QED BY <2>1, <2>2
<1>7. TaskShaped(u) /\ u.kind = t.kind /\ u.asked = t.asked /\ u.listed = listed /\ u.todo = todo
      /\ u.found = t.found /\ u.stale = t.stale /\ u.missed = t.missed
  BY <1>5 DEF TaskShaped
<1>8. TaskFits(a, u)
  <2>1. listed \subseteq Players /\ \A o \in listed : Lists(a, o)
    BY <1>1, <1>4 DEF FriendInv, StoredInv, StoredShapes, Lists
  <2>2. t.kind \in {"login", "ask"} BY <1>2, <1>4 DEF TaskFits
  <2>3. t.kind = "ask" => todo \subseteq t.asked BY <1>1
  <2>4. \A o \in t.found : AreFriends(a, o) \/ Unsettled(a, o) \/ Excused(u, o)
    BY <1>4, <1>7 DEF TaskFits, Excused
  <2>5. t.found \subseteq Players /\ (t.kind = "ask" => t.found \subseteq t.asked)
    BY <1>4 DEF TaskFits
  <2> QED BY <2>1, <2>2, <2>3, <2>4, <2>5, <1>7 DEF TaskFits
<1> QED BY <1>1, <1>2, <1>3, <1>6, <1>7, <1>8, TasksGoOn

\* One of those it lists is read: whoever lists it too is found.
LEMMA OtherReadsAreFine ==
  ASSUME FriendInv, NEW c \in Connections, NEW o \in Players, ReadsOther(c, o)
  PROVE  FriendInv'
<1>1. PICK k, a, t, todo, found :
        /\ k = conns[c] /\ a = k.account /\ t = k.task /\ todo = t.todo \ {o}
        /\ found = IF o \in t.listed /\ a \in friends[o] \ ignored[o] THEN t.found \cup {o} ELSE t.found
  OBVIOUS
<1>2. o \in t.todo BY <1>1 DEF ReadsOther
<1>3. c \in roll BY <1>1, <1>2, IdleIs, ReadersAreOnTheRoll
<1>4. ConnShaped(k) /\ TaskShaped(t) /\ a \in Players /\ TaskFits(a, t)
  BY <1>1, <1>3, RollIs DEF FriendInv, FollowsFit, ConnShaped
<1>5. PICK u : u = [kind |-> t.kind, asked |-> t.asked, listed |-> t.listed, todo |-> todo,
                    found |-> found, stale |-> t.stale, missed |-> t.missed]
  OBVIOUS
<1>6. With(c, [k EXCEPT !.task = u])
  <2>1. PICK v : v = [kind |-> t.kind, asked |-> t.asked, listed |-> t.listed, todo |-> todo,
                      found |-> t.found, stale |-> t.stale, missed |-> t.missed]
    OBVIOUS
  <2>2. [t EXCEPT !.todo = todo] = v BY <2>1, <1>4 DEF TaskShaped
  <2>3. [v EXCEPT !.found = found] = u BY <2>1, <1>5
  <2>4. PICK m : m = [k EXCEPT !.task.todo = @ \ {o},
                               !.task.found = IF o \in t.listed /\ a \in friends[o] \ ignored[o] THEN @ \cup {o} ELSE @]
    OBVIOUS
  <2>5. With(c, m) BY <2>4, <1>1 DEF ReadsOther
  <2>6. m = [k EXCEPT !.task = u]
    <3>1. PICK k1 : k1 = [k EXCEPT !.task = [t EXCEPT !.todo = todo]] OBVIOUS
    <3>2. k1 = [k EXCEPT !.task = v] /\ k1.task = v BY <3>1, <2>2, <1>4 DEF ConnShaped
    <3>3. m = [k1 EXCEPT !.task = [v EXCEPT !.found = found]]
      <4>1. m = [k1 EXCEPT !.task = [k1.task EXCEPT !.found = found]]
        <5>1. v.found = t.found BY <2>1
        <5>2. [k EXCEPT !.task.todo = @ \ {o}] = k1 BY <3>1, <1>1, <1>4 DEF ConnShaped
        <5>3. m = [k1 EXCEPT !.task.found = IF o \in t.listed /\ a \in friends[o] \ ignored[o] THEN @ \cup {o} ELSE @]
          BY <5>2, <2>4
        <5>4. k1 = [account |-> k.account, stage |-> k.stage, panel |-> k.panel, watched |-> k.watched,
                    shown |-> k.shown, task |-> v, late |-> k.late]
          BY <3>2, <1>4 DEF ConnShaped
        <5> QED BY <5>1, <5>3, <5>4, <3>2, <2>1, <1>1
      <4> QED BY <4>1, <3>2
    <3>4. m = [k1 EXCEPT !.task = u] BY <3>3, <2>3
    <3> QED BY <3>2, <3>4, <1>4 DEF ConnShaped
  <2> QED BY <2>5, <2>6
<1>7. TaskShaped(u) /\ u.kind = t.kind /\ u.asked = t.asked /\ u.listed = t.listed /\ u.todo = todo
      /\ u.found = found /\ u.stale = t.stale /\ u.missed = t.missed
  BY <1>5 DEF TaskShaped
<1>8. todo \subseteq t.todo /\ (t.kind \in {"login", "ask"}) BY <1>1, <1>2, <1>4 DEF TaskFits
<1>9. \A q : Excused(t, q) <=> Excused(u, q) BY <1>7 DEF Excused
<1>10. CASE o \in t.listed /\ a \in friends[o] \ ignored[o]
  <2>1. Lists(o, a) /\ (Lists(a, o) \/ Unsettled(a, o) \/ Excused(u, o))
    BY <1>2, <1>4, <1>9, <1>10 DEF TaskFits, Lists
  <2>2. AreFriends(a, o) \/ Unsettled(a, o) \/ Excused(u, o) BY <2>1, FriendsListEachOther
  <2>3. t.kind = "ask" => o \in t.asked BY <1>2, <1>4, <1>10 DEF TaskFits
  <2>4. found = t.found \cup {o} BY <1>1, <1>10
  <2>5. TaskFits(a, u) BY <2>2, <2>3, <2>4, <1>4, <1>7, <1>8, <1>9 DEF TaskFits
  <2> QED BY <2>5, <1>1, <1>3, <1>6, <1>7, TasksGoOn
<1>11. CASE ~(o \in t.listed /\ a \in friends[o] \ ignored[o])
  <2>1. TaskFits(a, u) BY <1>1, <1>4, <1>7, <1>8, <1>9, <1>11 DEF TaskFits
  <2> QED BY <2>1, <1>1, <1>3, <1>6, <1>7, TasksGoOn
<1> QED BY <1>10, <1>11

\* An answer is followed: whom it found is a friend, or has been a friend as it was read.
LEMMA AnswersAreFollowed == ASSUME FriendInv, NEW c \in Connections, Watches(c) PROVE FriendInv'
<1>1. PICK k, t, some, h :
        /\ k = conns[c] /\ t = k.task /\ some \in HasRoom(k, StillFriends(t)) /\ With(c, h)
        /\ h = [Follows([k EXCEPT !.task = SessionIdle], some, online) EXCEPT !.late = @ \cup (some \cap t.missed)]
        /\ t.kind \in {"login", "ask"}
  BY DEF Watches
<1>2. c \in roll
  <2>1. t.kind # "idle" BY <1>1
  <2> QED BY <2>1, <1>1, IdleIs, ReadersAreOnTheRoll
<1>3. ConnShaped(k) /\ ShowsWell(k, online) /\ WatchedFit(k) /\ TaskFits(k.account, t)
  BY <1>1, <1>2, RollIs DEF FriendInv, FollowsFit
<1>4. some \subseteq t.found /\ (t.kind = "ask" => some \cap t.stale = {})
  <2>1. some \subseteq StillFriends(t) BY <1>1 DEF HasRoom
  <2> QED BY <2>1 DEF StillFriends
<1>5. PICK done, f : done = [k EXCEPT !.task = SessionIdle] /\ f = Follows(done, some, online)
  OBVIOUS
<1>6. TaskIs(k, done, SessionIdle) BY <1>3, <1>5, IdleIs, TaskChanges
<1>7. /\ ConnShaped(f) /\ f.account = done.account /\ f.stage = done.stage /\ f.panel = done.panel
      /\ f.watched = done.watched \cup some /\ f.task = done.task /\ f.late = done.late
      /\ \A q \in Players : f.shown[q] = IF q \in some /\ done.panel THEN online[q] ELSE done.shown[q]
  <2>1. ConnShaped(done) BY <1>6 DEF TaskIs
  <2>2. f = Follows(done, some, online) BY <1>5
  <2> QED BY <2>1, <2>2, FollowsIs
<1>8. PICK late : late = f.late \cup (some \cap t.missed) OBVIOUS
<1>9. h = [f EXCEPT !.late = late] BY <1>1, <1>5, <1>7, <1>8 DEF ConnShaped
<1>10. h = [account |-> f.account, stage |-> f.stage, panel |-> f.panel, watched |-> f.watched,
            shown |-> f.shown, task |-> f.task, late |-> late]
  BY <1>7, <1>9 DEF ConnShaped
<1>11. /\ ConnShaped(h) /\ h.account = k.account /\ h.stage = k.stage /\ h.panel = k.panel
       /\ h.watched = k.watched \cup some /\ h.task = SessionIdle /\ h.late = k.late \cup (some \cap t.missed)
       /\ \A q \in Players : h.shown[q] = IF q \in some /\ k.panel THEN online[q] ELSE k.shown[q]
  <2>1. ConnShaped(h) /\ h.account = f.account /\ h.stage = f.stage /\ h.panel = f.panel
        /\ h.watched = f.watched /\ h.task = f.task /\ h.late = late /\ h.shown = f.shown
    BY <1>7, <1>10 DEF ConnShaped
  <2> QED BY <2>1, <1>6, <1>7, <1>8 DEF TaskIs
<1>12. ShowsWell(h, online) BY <1>3, <1>11 DEF ShowsWell
<1>13. WatchedFit(h)
  <2>1. some \subseteq Players BY <1>3, <1>4 DEF TaskFits
  <2>2. \A o \in some : AreFriends(k.account, o) \/ Unsettled(k.account, o) \/ o \in some \cap t.missed
    BY <1>1, <1>3, <1>4 DEF TaskFits, Excused
  <2> QED BY <2>1, <2>2, <1>3, <1>11 DEF WatchedFit
<1>14. TaskFits(h.account, h.task) BY <1>11, IdleFits
<1> QED BY <1>1, <1>2, <1>11, <1>12, <1>13, <1>14, OneGoesOn

LEMMA FriendStays == FriendInv /\ [FriendNext]_friendVars => FriendInv'
<1> SUFFICES ASSUME FriendInv, [FriendNext]_friendVars PROVE FriendInv' OBVIOUS
<1>1. CASE UNCHANGED friendVars
  <2>1. UNCHANGED <<friends, ignored, requests, owed, halfSaved, online, roll, conns>>
    BY <1>1 DEF friendVars
  <2>2. UNCHANGED storedVars BY <2>1 DEF storedVars
  <2>3. FriendsAreMissed BY <2>2, BooksStay DEF FriendsAreMissed, FriendInv
  <2> QED BY <2>1, <2>2, <2>3, BooksStay, FollowersWait DEF FriendInv
<1>2. CASE \E a, b \in Players : \/ AsksToBeFriends(a, b) \/ \E accepts \in BOOLEAN : AnswersRequest(a, b, accepts)
                                 \/ Unfriends(a, b) \/ Ignores(a, b) \/ Unblocks(a, b)
  BY <1>2, DeedsAreFine
<1>3. CASE \E p \in owed : FriendshipChanged(p) BY <1>3, ChangesAreTold
<1>4. CASE \E c \in Connections, a \in Players : LogsIn(c, a) BY <1>4, LoginsAreTold
<1>5. CASE \E c \in Connections : Leaves(c) \/ (\E to \in {Town} \cup Dungeons : Moves(c, to))
  BY <1>5, LeavingIsTold, MovesAreTold
<1>6. CASE Reasserts BY <1>6, ReassertingIsRight
<1>7. CASE \E c \in Connections : GetsPanel(c) \/ ReadsOwn(c) \/ ReadFails(c) \/ Watches(c)
  BY <1>7, PanelsAreGot, OwnReadsAreFine, FailedReadsAreFine, AnswersAreFollowed
<1>8. CASE \E c \in Connections, some \in SUBSET Players : conns[c].account \notin some /\ AsksAfter(c, some)
  BY <1>8, AsksAreFine
<1>9. CASE \E c \in Connections, o \in Players : ReadsOther(c, o) BY <1>9, OtherReadsAreFine
<1> QED BY <1>1, <1>2, <1>3, <1>4, <1>5, <1>6, <1>7, <1>8, <1>9 DEF FriendNext

LEMMA FriendBegins == FriendInit => FriendInv
<1> SUFFICES ASSUME FriendInit PROVE FriendInv OBVIOUS
<1>1. /\ friends = [a \in Players |-> {}] \/ friends = [a \in Players |-> Players \ {a}]
      /\ ignored = [a \in Players |-> {}] /\ requests = [a \in Players |-> {}] /\ owed = {}
      /\ online = [a \in Players |-> Away] /\ roll = {} /\ conns = [c \in Connections |-> NewConn]
  BY DEF FriendInit
<1>2. StoredInv BY <1>1 DEF StoredInv, StoredShapes, OwedFits, PairsFit, PairInOrder, Blocked2
<1>3. RollInv
  <2>1. NewConn.stage = "new" /\ NewConn.task = SessionIdle BY DEF NewConn
  <2>2. RollFits BY <2>1, <1>1 DEF RollFits
  <2> QED BY <2>2, <1>1, NewConnIs DEF RollInv, ConnShapes, OnlineFits, ShownFits
<1>4. FollowsFit BY <1>1 DEF FollowsFit
<1> QED BY <1>2, <1>3, <1>4 DEF FriendInv

LEMMA FriendshipsAreBoth == FriendInv => FriendshipsAreMutual
BY DEF FriendInv, StoredInv, PairsFit, PairInOrder, FriendshipsAreMutual

LEMMA FollowedAreFriends == FriendInv => OnlyFriendsAreFollowed
BY DEF FriendInv, FollowsFit, WatchedFit, Unsettled, OnlyFriendsAreFollowed

LEMMA PanelsAreTrue == FriendInv => PanelsTellTheTruth
<1> SUFFICES ASSUME FriendInv PROVE PanelsTellTheTruth OBVIOUS
<1>1. RollFits /\ OnlineFits BY DEF FriendInv, RollInv
<1>2. ASSUME NEW a \in Players PROVE Cardinality(HoldersOf(a)) = IF online[a] = Away THEN 0 ELSE 1
  <2>1. CASE online[a] = Away
    <3>1. HoldersOf(a) = {} BY <2>1, <1>1 DEF OnlineFits, HoldersOf
    <3> QED BY <2>1, <3>1, FS_EmptySet
  <2>2. CASE online[a] # Away
    <3>1. PICK c \in roll : conns[c].account = a BY <2>2, <1>1 DEF OnlineFits
    <3>2. HoldersOf(a) = {c} BY <3>1, <1>1 DEF RollFits, HoldersOf
    <3> QED BY <2>2, <3>2, FS_Singleton
  <2> QED BY <2>1, <2>2
<1>3. \A c \in roll, o \in Players : conns[c].shown[o] # Away => o \in conns[c].watched /\ conns[c].shown[o] = online[o]
  BY RollIs DEF ShowsWell
<1> QED BY <1>2, <1>3 DEF PanelsTellTheTruth

-----------------------------------------------------------------------------
(* Object ids of the workers (WorkerSlots): each slot issues those of its    *)
(* own remainder, none lower than one a client has met.                     *)

LEMMA Divides ==
  ASSUME NEW n \in Nat \ {0}, NEW a \in Nat
  PROVE  a \div n \in Nat /\ (a % n) \in 0 .. n - 1 /\ a = n * (a \div n) + (a % n)
  OBVIOUS

LEMMA DividesAlone ==
  ASSUME NEW n \in Nat \ {0}, NEW q \in Int, NEW r \in 0 .. n - 1
  PROVE  (n * q + r) % n = r
  OBVIOUS

LEMMA ModAdd == ASSUME NEW n \in Nat \ {0}, NEW a \in Nat, NEW k \in Nat
  PROVE (a + k * n) % n = a % n
<1> DEFINE q == a \div n  r == a % n
<1>1. q \in Nat /\ r \in 0 .. n - 1 /\ a = n * q + r BY Divides
<1> HIDE DEF q, r
<1>2. a + k * n = n * (q + k) + r
  <2>1. n * (q + k) = n * q + k * n BY <1>1
  <2> QED BY <2>1, <1>1
<1>3. (n * (q + k) + r) % n = r
  <2>1. q + k \in Int BY <1>1
  <2> QED BY <1>1, <2>1, DividesAlone
<1> QED BY <1>2, <1>3 DEF r

LEMMA ModNear == ASSUME NEW n \in Nat \ {0}, NEW a \in Nat, NEW b \in Nat, a < b, b < a + n
  PROVE a % n # b % n
<1> DEFINE q == a \div n  r == a % n  p == b \div n
<1> SUFFICES ASSUME b % n = r PROVE FALSE OBVIOUS
<1>1. q \in Nat /\ r \in 0 .. n - 1 /\ a = n * q + r BY Divides
<1>2. p \in Nat /\ b = n * p + r BY Divides
<1> HIDE DEF q, r, p
<1>3. n * (p - q) = b - a BY <1>1, <1>2
<1>4. p - q > 0 BY <1>1, <1>2, <1>3
<1>5. n * (p - q) >= n BY <1>1, <1>2, <1>4
<1> QED BY <1>3, <1>5

LEMMA ModWindow == ASSUME NEW n \in Nat \ {0}, NEW a \in Nat, NEW b \in Nat
  PROVE \E c \in b .. b + n - 1 : c % n = a % n
<1> DEFINE r == a % n  p == b \div n  s == b % n
<1>1. r \in 0 .. n - 1 BY Divides
<1>2. p \in Nat /\ s \in 0 .. n - 1 /\ b = n * p + s BY Divides
<1> DEFINE c == IF s <= r THEN n * p + r ELSE n * (p + 1) + r
<1>3. n * (p + 1) = n * p + n /\ n * p \in Int BY <1>2
<1>4. c \in b .. b + n - 1
  <2> HIDE DEF r, s, p
  <2> QED BY <1>1, <1>2, <1>3
<1>5. c % n = r
  <2> HIDE DEF r, p, s
  <2>1. (n * p + r) % n = r /\ (n * (p + 1) + r) % n = r BY <1>1, <1>2, DividesAlone
  <2> QED BY <2>1 DEF c
<1> QED BY <1>4, <1>5

LEMMA RoundUpIs == ASSUME NEW n \in Nat \ {0}, NEW a \in Nat
  PROVE ((a + n - 1) \div n) * n >= a /\ (a + n - 1) \div n \in Nat
OBVIOUS

LaneRest(w) == (FirstDoid + Lane(w)) % Stride
Serves(w) == State(w) \in {"starting", "ready"}

OnSlots(f) == f = [w \in Slots |-> f[w]]
ThreadShaped(t) ==
  t = [state |-> t.state, next |-> t.next, unsent |-> t.unsent, asked |-> t.asked]
ThreadOf(s, next, unsent, wasAsked) == [state |-> s, next |-> next, unsent |-> unsent, asked |-> wasAsked]
SlotOf(t, high, fails) == [thread |-> t, high |-> high, fails |-> fails]
SlotShaped(k) ==
  /\ k = [thread |-> k.thread, high |-> k.high, fails |-> k.fails]
  /\ ThreadShaped(k.thread)
SlotShape ==
  /\ OnSlots(slot) /\ met \subseteq Nat
  /\ \A w \in Slots : SlotShaped(slot[w]) /\ slot[w].high \in Int

\* What thread t of slot w has numbered and not sent, when the pool knows of numbers up to high
OwnNumber(w, t, high, id) ==
  id \in Nat /\ id % Stride = LaneRest(w) /\ high < id /\ id < t.next /\ id < DoidFloor /\ id \notin LocalIds
KeepsLane(w, t, high) ==
  /\ t.next \in Nat /\ t.next % Stride = LaneRest(w) /\ high < t.next
  /\ \A id \in t.unsent : OwnNumber(w, t, high, id)
  /\ t.unsent # {} => \E top \in t.unsent : \A id \in t.unsent : id <= top
LanesAreKept == \A w \in Slots : Serves(w) => KeepsLane(w, slot[w].thread, slot[w].high)

\* Whatever a client has met, the pool knows a number of its lane that is no lower
MetAreKnown ==
  \A id \in met : /\ id < DoidFloor /\ id \notin LocalIds
                  /\ \A w \in Slots : id % Stride = LaneRest(w) => id <= slot[w].high
SlotInv == SlotShape /\ LanesAreKept /\ MetAreKnown /\ ~clash

LEMMA StrideIs == Stride \in Nat \ {0} /\ \A w \in Slots : w \in Nat /\ w + 1 < Stride
<1>1. Cardinality(Slots) \in Nat BY SlotAssumption, FS_CardinalityType
<1> QED BY <1>1, SlotAssumption DEF Stride

LEMMA LanesDiffer == ASSUME NEW v \in Slots, NEW w \in Slots, v # w PROVE LaneRest(v) # LaneRest(w)
<1>1. v \in Nat /\ w \in Nat /\ FirstDoid \in Nat /\ Stride \in Nat \ {0}
  BY StrideIs, SlotAssumption
<1>2. FirstDoid + Lane(v) \in Nat /\ FirstDoid + Lane(w) \in Nat BY <1>1 DEF Lane
<1>3. CASE v < w
  <2>1. FirstDoid + Lane(v) < FirstDoid + Lane(w) /\ FirstDoid + Lane(w) < FirstDoid + Lane(v) + Stride
    BY <1>1, <1>3, StrideIs DEF Lane
  <2> QED BY <2>1, <1>1, <1>2, ModNear DEF LaneRest
<1>4. CASE w < v
  <2>1. FirstDoid + Lane(w) < FirstDoid + Lane(v) /\ FirstDoid + Lane(v) < FirstDoid + Lane(w) + Stride
    BY <1>1, <1>4, StrideIs DEF Lane
  <2> QED BY <2>1, <1>1, <1>2, ModNear DEF LaneRest
<1> QED BY <1>1, <1>3, <1>4

\* The next number is of the lane, no earlier and not of the client's own
LEMMA IssuedKeepsLane ==
  ASSUME NEW n \in Nat
  PROVE  Issued(n) \in Nat /\ Issued(n) % Stride = n % Stride /\ n <= Issued(n) /\ Issued(n) \notin LocalIds
<1>1. CASE n \in LocalIds
  <2>1. AfterLocal \in Nat /\ n < AfterLocal /\ Stride \in Nat \ {0}
    BY <1>1, StrideIs, SlotAssumption DEF AfterLocal, LocalIds
  <2>2. \E id \in AfterLocal .. AfterLocal + Stride - 1 : id % Stride = n % Stride
    BY <2>1, ModWindow
  <2>3. Issued(n) \in AfterLocal .. AfterLocal + Stride - 1 /\ Issued(n) % Stride = n % Stride
    BY <1>1, <2>2 DEF Issued, InLane
  <2> QED BY <2>1, <2>3, SlotAssumption DEF AfterLocal, LocalIds
<1>2. CASE n \notin LocalIds BY <1>2 DEF Issued
<1> QED BY <1>1, <1>2

\* A replacement starts in its lane, past what is known
LEMMA ReplacementKeepsLane ==
  ASSUME NEW w \in Slots, slot[w].high \in Int
  PROVE  /\ ReplacementStart(w) \in Nat /\ slot[w].high < ReplacementStart(w)
         /\ (ReplacementStart(w) + Lane(w)) % Stride = LaneRest(w)
<1> DEFINE h == slot[w].high  a == Above(h)  k == (a + Stride - 1) \div Stride
<1>1. FirstDoid \in Nat /\ Stride \in Nat \ {0} /\ w \in Nat /\ h \in Int
  BY StrideIs, SlotAssumption
<1>2. a \in Nat /\ h < FirstDoid + a
  <2> HIDE DEF h
  <2> QED BY <1>1 DEF Above
<1>3. k * Stride >= a /\ k \in Nat
  <2> HIDE DEF a
  <2> QED BY <1>1, <1>2, RoundUpIs
<1>4. ReplacementStart(w) = FirstDoid + k * Stride BY DEF ReplacementStart, RoundUp
<1> HIDE DEF h, a, k
<1>5. k * Stride \in Nat BY <1>1, <1>3
<1>6. ReplacementStart(w) \in Nat /\ h < ReplacementStart(w) BY <1>1, <1>2, <1>3, <1>4, <1>5
<1>7. ReplacementStart(w) + Lane(w) = (FirstDoid + Lane(w)) + k * Stride
  BY <1>1, <1>4, <1>5 DEF Lane
<1>8. FirstDoid + Lane(w) \in Nat BY <1>1 DEF Lane
<1>9. ((FirstDoid + Lane(w)) + k * Stride) % Stride = LaneRest(w)
  BY <1>1, <1>3, <1>8, ModAdd DEF LaneRest
<1> QED BY <1>6, <1>7, <1>9 DEF h

LEMMA HighestIs ==
  ASSUME NEW ids, NEW top \in ids, \A id \in ids : id \in Int /\ id <= top
  PROVE  Highest(ids, 0) = top
<1>1. ids # {} /\ \E id \in ids : \A other \in ids : other <= id OBVIOUS
<1>2. Highest(ids, 0) \in ids /\ \A other \in ids : other <= Highest(ids, 0) BY <1>1 DEF Highest
<1> QED BY <1>2

\* What a step of one slot leaves of the others
SlotBecomes(w, t, high, fails) ==
  slot' = [slot EXCEPT ![w] = SlotOf(t, high, fails)]

LEMMA OneSlotMoves ==
  ASSUME SlotShape, met' \subseteq Nat, NEW w \in Slots, NEW t, NEW high \in Int, NEW fails,
         ThreadShaped(t),
         SlotBecomes(w, t, high, fails)
  PROVE  /\ SlotShape'
         /\ slot'[w].thread = t /\ slot'[w].high = high
         /\ \A v \in Slots : v # w => slot'[v] = slot[v]
<1> DEFINE k == SlotOf(t, high, fails)
<1>1. slot' = [slot EXCEPT ![w] = k] BY DEF SlotBecomes
<1>2. SlotShaped(k) /\ k.high = high /\ k.thread = t BY DEF SlotShaped, SlotOf
<1> HIDE DEF k
<1>3. OnSlots(slot') /\ slot'[w] = k /\ \A v \in Slots : v # w => slot'[v] = slot[v]
  BY <1>1 DEF SlotShape, OnSlots
<1> QED BY <1>2, <1>3 DEF SlotShape, OnSlots

\* A step of one thread after which it keeps its lane, and nothing is sent
LEMMA QuietStep ==
  ASSUME SlotInv, met' = met, clash' = clash, NEW w \in Slots, NEW t, NEW high \in Int, NEW fails,
         ThreadShaped(t),
         SlotBecomes(w, t, high, fails), slot[w].high <= high,
         t.state \in {"starting", "ready"} => KeepsLane(w, t, high)
  PROVE  SlotInv'
<1>1. /\ SlotShape' /\ slot'[w].thread = t /\ slot'[w].high = high
      /\ \A v \in Slots : v # w => slot'[v] = slot[v]
  <2>1. SlotShape /\ met' \subseteq Nat BY DEF SlotInv, SlotShape
  <2> QED BY <2>1, OneSlotMoves
<1>2. LanesAreKept'
  <2> SUFFICES ASSUME NEW v \in Slots, Serves(v)'
               PROVE  KeepsLane(v, slot'[v].thread, slot'[v].high)
    BY DEF LanesAreKept, KeepsLane, OwnNumber, LaneRest
  <2>1. CASE v = w BY <1>1, <2>1 DEF Serves, State
  <2>2. CASE v # w BY <1>1, <2>2 DEF Serves, State, SlotInv, LanesAreKept
  <2> QED BY <2>1, <2>2
<1>3. MetAreKnown'
  <2> SUFFICES ASSUME NEW id \in met
               PROVE  /\ id < DoidFloor /\ id \notin LocalIds
                      /\ \A v \in Slots : id % Stride = LaneRest(v) => id <= slot'[v].high
    BY DEF MetAreKnown, LaneRest
  <2>1. id < DoidFloor /\ id \notin LocalIds BY DEF SlotInv, MetAreKnown
  <2>2. ASSUME NEW v \in Slots, id % Stride = LaneRest(v) PROVE id <= slot'[v].high
    <3>1. id <= slot[v].high BY <2>2 DEF SlotInv, MetAreKnown
    <3>2. id \in Int /\ slot[v].high \in Int BY DEF SlotInv, SlotShape
    <3>3. CASE v = w BY <1>1, <3>1, <3>2, <3>3
    <3>4. CASE v # w BY <1>1, <3>1, <3>4
    <3> QED BY <3>3, <3>4
  <2> QED BY <2>1, <2>2
<1> QED BY <1>1, <1>2, <1>3 DEF SlotInv

\* Its lane is kept whatever it is otherwise
LEMMA SameLane ==
  ASSUME NEW w, NEW t, NEW high, NEW k, KeepsLane(w, t, high), k.next = t.next, k.unsent = t.unsent
  PROVE  KeepsLane(w, k, high)
  BY DEF KeepsLane, OwnNumber

\* A field of a slot's thread written, as a record written out
LEMMA ThreadWritten ==
  ASSUME NEW k, SlotShaped(k), NEW x
  PROVE  /\ [k EXCEPT !.thread = [k.thread EXCEPT !.state = x]] =
              SlotOf(ThreadOf(x, k.thread.next, k.thread.unsent, k.thread.asked), k.high, k.fails)
         /\ [k EXCEPT !.thread = [k.thread EXCEPT !.next = x]] =
              SlotOf(ThreadOf(k.thread.state, x, k.thread.unsent, k.thread.asked), k.high, k.fails)
         /\ [k EXCEPT !.thread = [k.thread EXCEPT !.unsent = x]] =
              SlotOf(ThreadOf(k.thread.state, k.thread.next, x, k.thread.asked), k.high, k.fails)
         /\ [k EXCEPT !.thread = [k.thread EXCEPT !.asked = x]] =
              SlotOf(ThreadOf(k.thread.state, k.thread.next, k.thread.unsent, x), k.high, k.fails)
<1> PICK t : t = k.thread OBVIOUS
<1>1. k = [thread |-> t, high |-> k.high, fails |-> k.fails]
      /\ t = [state |-> t.state, next |-> t.next, unsent |-> t.unsent, asked |-> t.asked]
  BY DEF SlotShaped, ThreadShaped
<1>2. ASSUME NEW u PROVE [k EXCEPT !.thread = u] = SlotOf(u, k.high, k.fails) BY <1>1 DEF SlotOf
<1>3. [t EXCEPT !.state = x] = ThreadOf(x, t.next, t.unsent, t.asked) BY <1>1 DEF ThreadOf
<1>4. [t EXCEPT !.next = x] = ThreadOf(t.state, x, t.unsent, t.asked) BY <1>1 DEF ThreadOf
<1>5. [t EXCEPT !.unsent = x] = ThreadOf(t.state, t.next, x, t.asked) BY <1>1 DEF ThreadOf
<1>6. [t EXCEPT !.asked = x] = ThreadOf(t.state, t.next, t.unsent, x) BY <1>1 DEF ThreadOf
<1> QED BY <1>2, <1>3, <1>4, <1>5, <1>6

LEMMA UnsentWritten ==
  ASSUME NEW k, SlotShaped(k), NEW x, NEW state, NEW next, NEW wasAsked, NEW high, NEW fails,
         k.thread.state = state, k.thread.next = next, k.thread.asked = wasAsked, k.high = high, k.fails = fails
  PROVE  [k EXCEPT !.thread = [k.thread EXCEPT !.unsent = x]] = SlotOf(ThreadOf(state, next, x, wasAsked), high, fails)
  BY ThreadWritten

LEMMA SlotWritten ==
  ASSUME NEW k, SlotShaped(k), NEW x
  PROVE  /\ [k EXCEPT !.high = x] = SlotOf(k.thread, x, k.fails)
         /\ [k EXCEPT !.fails = x] = SlotOf(k.thread, k.high, x)
         /\ [k EXCEPT !.thread = x] = SlotOf(x, k.high, k.fails)
  BY DEF SlotShaped, SlotOf

LEMMA SlotOfIs ==
  ASSUME NEW t, NEW high, NEW fails
  PROVE  /\ SlotOf(t, high, fails).thread = t /\ SlotOf(t, high, fails).high = high /\ SlotOf(t, high, fails).fails = fails
         /\ ThreadShaped(t) => SlotShaped(SlotOf(t, high, fails))
  BY DEF SlotOf, SlotShaped

LEMMA ThreadOfIs ==
  ASSUME NEW s, NEW next, NEW unsent, NEW wasAsked
  PROVE  /\ ThreadShaped(ThreadOf(s, next, unsent, wasAsked))
         /\ ThreadOf(s, next, unsent, wasAsked).state = s /\ ThreadOf(s, next, unsent, wasAsked).next = next
         /\ ThreadOf(s, next, unsent, wasAsked).unsent = unsent /\ ThreadOf(s, next, unsent, wasAsked).asked = wasAsked
  BY DEF ThreadOf, ThreadShaped

\* The steps that write a field, or two
LEMMA StateEntered ==
  ASSUME OnSlots(slot), NEW w \in Slots, SlotShaped(slot[w]), NEW x, slot' = [slot EXCEPT ![w].thread.state = x]
  PROVE  SlotBecomes(w, ThreadOf(x, slot[w].thread.next, slot[w].thread.unsent, slot[w].thread.asked), slot[w].high, slot[w].fails)
<1> PICK k : k = slot[w] OBVIOUS
<1>1. slot' = [slot EXCEPT ![w] = [k EXCEPT !.thread = [k.thread EXCEPT !.state = x]]] OBVIOUS
<1>2. [k EXCEPT !.thread = [k.thread EXCEPT !.state = x]] = SlotOf(ThreadOf(x, k.thread.next, k.thread.unsent, k.thread.asked), k.high, k.fails)
  BY ThreadWritten
<1> QED BY <1>1, <1>2 DEF SlotBecomes

LEMMA AskedEntered ==
  ASSUME OnSlots(slot), NEW w \in Slots, SlotShaped(slot[w]), NEW x, slot' = [slot EXCEPT ![w].thread.asked = x]
  PROVE  SlotBecomes(w, ThreadOf(slot[w].thread.state, slot[w].thread.next, slot[w].thread.unsent, x), slot[w].high, slot[w].fails)
<1> PICK k : k = slot[w] OBVIOUS
<1>1. slot' = [slot EXCEPT ![w] = [k EXCEPT !.thread = [k.thread EXCEPT !.asked = x]]] OBVIOUS
<1>2. [k EXCEPT !.thread = [k.thread EXCEPT !.asked = x]] = SlotOf(ThreadOf(k.thread.state, k.thread.next, k.thread.unsent, x), k.high, k.fails)
  BY ThreadWritten
<1> QED BY <1>1, <1>2 DEF SlotBecomes

LEMMA NextEntered ==
  ASSUME OnSlots(slot), NEW w \in Slots, SlotShaped(slot[w]), NEW x, NEW y,
         slot' = [[slot EXCEPT ![w].thread.next = x] EXCEPT ![w].thread.unsent = y]
  PROVE  SlotBecomes(w, ThreadOf(slot[w].thread.state, x, y, slot[w].thread.asked), slot[w].high, slot[w].fails)
<1> PICK k : k = slot[w] OBVIOUS
<1> PICK m : m = SlotOf(ThreadOf(k.thread.state, x, k.thread.unsent, k.thread.asked), k.high, k.fails)
  OBVIOUS
<1>1. [slot EXCEPT ![w].thread.next = x] = [slot EXCEPT ![w] = m]
  <2>1. [slot EXCEPT ![w].thread.next = x] = [slot EXCEPT ![w] = [k EXCEPT !.thread = [k.thread EXCEPT !.next = x]]]
    OBVIOUS
  <2>2. [k EXCEPT !.thread = [k.thread EXCEPT !.next = x]] = m BY ThreadWritten
  <2> QED BY <2>1, <2>2
<1>2. slot' = [[slot EXCEPT ![w] = m] EXCEPT ![w].thread.unsent = y] BY <1>1
<1>3. SlotShaped(m) /\ m.thread = ThreadOf(k.thread.state, x, k.thread.unsent, k.thread.asked) /\ m.high = k.high /\ m.fails = k.fails
  BY SlotOfIs, ThreadOfIs, SMTT(30) DEF SlotShaped
<1>4. slot' = [slot EXCEPT ![w] = [m EXCEPT !.thread = [m.thread EXCEPT !.unsent = y]]]
  BY <1>2 DEF OnSlots
<1>5. [m EXCEPT !.thread = [m.thread EXCEPT !.unsent = y]] = SlotOf(ThreadOf(k.thread.state, x, y, k.thread.asked), k.high, k.fails)
  <2>1. m.thread.state = k.thread.state /\ m.thread.next = x /\ m.thread.asked = k.thread.asked
    BY <1>3, ThreadOfIs
  <2> QED BY <1>3, <2>1, UnsentWritten, SMTT(30)
<1> QED BY <1>4, <1>5 DEF SlotBecomes

LEMMA MarkEntered ==
  ASSUME OnSlots(slot), NEW w \in Slots, SlotShaped(slot[w]), NEW x, NEW y,
         slot' = [[slot EXCEPT ![w].high = x] EXCEPT ![w].thread.unsent = y]
  PROVE  SlotBecomes(w, ThreadOf(slot[w].thread.state, slot[w].thread.next, y, slot[w].thread.asked), x, slot[w].fails)
<1> PICK k : k = slot[w] OBVIOUS
<1> PICK m : m = SlotOf(k.thread, x, k.fails) OBVIOUS
<1>1. [slot EXCEPT ![w].high = x] = [slot EXCEPT ![w] = m]
  <2>1. [slot EXCEPT ![w].high = x] = [slot EXCEPT ![w] = [k EXCEPT !.high = x]] OBVIOUS
  <2>2. [k EXCEPT !.high = x] = m BY SlotWritten
  <2> QED BY <2>1, <2>2
<1>2. slot' = [[slot EXCEPT ![w] = m] EXCEPT ![w].thread.unsent = y] BY <1>1
<1>3. SlotShaped(m) /\ m.thread = k.thread /\ m.high = x /\ m.fails = k.fails
  BY SlotOfIs, ThreadOfIs DEF SlotShaped
<1>4. slot' = [slot EXCEPT ![w] = [m EXCEPT !.thread = [m.thread EXCEPT !.unsent = y]]]
  BY <1>2 DEF OnSlots
<1>5. [m EXCEPT !.thread = [m.thread EXCEPT !.unsent = y]] = SlotOf(ThreadOf(k.thread.state, k.thread.next, y, k.thread.asked), x, k.fails)
  <2>1. m.thread.state = k.thread.state /\ m.thread.next = k.thread.next /\ m.thread.asked = k.thread.asked
    BY <1>3, ThreadOfIs
  <2> QED BY <1>3, <2>1, UnsentWritten
<1> QED BY <1>4, <1>5 DEF SlotBecomes

LEMMA LossEntered ==
  ASSUME OnSlots(slot), NEW w \in Slots, SlotShaped(slot[w]), NEW x, NEW y,
         slot' = [[slot EXCEPT ![w].fails = x] EXCEPT ![w].thread = y]
  PROVE  SlotBecomes(w, y, slot[w].high, x)
<1> PICK k : k = slot[w] OBVIOUS
<1> PICK m : m = SlotOf(k.thread, k.high, x) OBVIOUS
<1>1. [slot EXCEPT ![w].fails = x] = [slot EXCEPT ![w] = m]
  <2>1. [slot EXCEPT ![w].fails = x] = [slot EXCEPT ![w] = [k EXCEPT !.fails = x]] OBVIOUS
  <2>2. [k EXCEPT !.fails = x] = m BY SlotWritten
  <2> QED BY <2>1, <2>2
<1>2. slot' = [[slot EXCEPT ![w] = m] EXCEPT ![w].thread = y] BY <1>1
<1>3. SlotShaped(m) /\ m.thread = k.thread /\ m.high = k.high /\ m.fails = x
  BY SlotOfIs, ThreadOfIs DEF SlotShaped
<1>4. slot' = [slot EXCEPT ![w] = [m EXCEPT !.thread = y]] BY <1>2 DEF OnSlots
<1>5. [m EXCEPT !.thread = y] = SlotOf(y, k.high, x)
  <2>1. [m EXCEPT !.thread = y] = SlotOf(y, m.high, m.fails) BY <1>3, SlotWritten
  <2> QED BY <1>3, <2>1
<1> QED BY <1>4, <1>5 DEF SlotBecomes

\* A step that touches only the thread's state, or whether it was asked
LEMMA StateStep ==
  ASSUME SlotInv, met' = met, clash' = clash, NEW w \in Slots, NEW s, NEW wasAsked,
         SlotBecomes(w, ThreadOf(s, slot[w].thread.next, slot[w].thread.unsent, wasAsked), slot[w].high, slot[w].fails),
         s \in {"starting", "ready"} => State(w) \in {"starting", "ready"}
  PROVE  SlotInv'
<1> DEFINE t == ThreadOf(s, slot[w].thread.next, slot[w].thread.unsent, wasAsked)
<1>1. ThreadShaped(t) /\ t.state = s /\ t.next = slot[w].thread.next /\ t.unsent = slot[w].thread.unsent
  BY ThreadOfIs
<1>2. slot[w].high \in Int /\ slot[w].high <= slot[w].high BY DEF SlotInv, SlotShape
<1> HIDE DEF t
<1>3. State(w) \in {"starting", "ready"} => KeepsLane(w, slot[w].thread, slot[w].high)
  BY DEF SlotInv, LanesAreKept, Serves
<1>4. t.state \in {"starting", "ready"} => KeepsLane(w, t, slot[w].high) BY <1>1, <1>3, SameLane
<1>5. SlotBecomes(w, t, slot[w].high, slot[w].fails) BY DEF t
<1> QED BY <1>1, <1>2, <1>4, <1>5, QuietStep

LEMMA SlotStep ==
  ASSUME SlotInv, [SlotNext]_slotVars
  PROVE  SlotInv'
<1>0. CASE UNCHANGED slotVars
  BY <1>0 DEF slotVars, SlotInv, SlotShape, LanesAreKept, MetAreKnown, Serves, State, KeepsLane, OwnNumber
<1>s. ASSUME NEW w \in Slots
      PROVE  /\ SlotShaped(slot[w]) /\ slot[w].high \in Int /\ OnSlots(slot)
             /\ State(w) \in {"starting", "ready"} => KeepsLane(w, slot[w].thread, slot[w].high)
             /\ State(w) = slot[w].thread.state
  BY <1>s DEF SlotInv, SlotShape, LanesAreKept, Serves, State
<1>1. ASSUME NEW w \in Slots, Starts(w) PROVE SlotInv'
  <2>1. slot' = [slot EXCEPT ![w].thread.state = "ready"] /\ State(w) = "starting" /\ met' = met /\ clash' = clash
    BY <1>1 DEF Starts
  <2>2. SlotBecomes(w, ThreadOf("ready", slot[w].thread.next, slot[w].thread.unsent, slot[w].thread.asked), slot[w].high, slot[w].fails)
    BY <1>s, <2>1, StateEntered
  <2> QED BY <2>1, <2>2, StateStep
<1>2. ASSUME NEW w \in Slots, NEW x, slot' = [slot EXCEPT ![w].thread.asked = x], met' = met, clash' = clash
      PROVE  SlotInv'
  <2>1. SlotBecomes(w, ThreadOf(slot[w].thread.state, slot[w].thread.next, slot[w].thread.unsent, x), slot[w].high, slot[w].fails)
    BY <1>s, <1>2, AskedEntered
  <2> QED BY <1>2, <1>s, <2>1, StateStep
<1>3. ASSUME NEW w \in Slots, IsAsked(w) \/ Answers(w) PROVE SlotInv'
  BY <1>2, <1>3 DEF IsAsked, Answers
<1>4. ASSUME NEW w \in Slots, Hangs(w) PROVE SlotInv'
  <2> PICK x : x = IF State(w) = "ready" THEN "hung" ELSE "stuck" OBVIOUS
  <2>1. slot' = [slot EXCEPT ![w].thread.state = x] /\ met' = met /\ clash' = clash
    BY <1>4 DEF Hangs, State
  <2>2. SlotBecomes(w, ThreadOf(x, slot[w].thread.next, slot[w].thread.unsent, slot[w].thread.asked), slot[w].high, slot[w].fails)
    BY <1>s, <2>1, StateEntered
  <2>3. State(w) \in {"starting", "ready"} BY <1>4 DEF Hangs
  <2> QED BY <2>1, <2>2, <2>3, StateStep
<1>5. ASSUME NEW w \in Slots, slot' = Lost(w), met' = met, clash' = clash PROVE SlotInv'
  <2> PICK fails : fails = IF State(w) \in {"ready", "hung"} THEN 0 ELSE slot[w].fails + 1
    OBVIOUS
  <2> PICK s : s = IF ~open THEN "unmade" ELSE IF fails >= MaxFailures THEN "down" ELSE "dead"
    OBVIOUS
  <2> PICK t : t = [Thread(0) EXCEPT !.state = s] OBVIOUS
  <2>1. ThreadShaped(t) /\ t.state = s /\ s \notin {"starting", "ready"}
    BY DEF ThreadShaped, Thread
  <2>2. slot' = [slot EXCEPT ![w].fails = fails, ![w].thread = t] BY <1>5 DEF Lost
  <2>3. slot' = [[slot EXCEPT ![w].fails = fails] EXCEPT ![w].thread = t] BY <2>2
  <2>5. SlotBecomes(w, t, slot[w].high, fails) /\ slot[w].high \in Int /\ slot[w].high <= slot[w].high
    <3>1. SlotBecomes(w, t, slot[w].high, fails) BY <1>s, <2>3, LossEntered
    <3>2. slot[w].high \in Int BY <1>s
    <3> QED BY <3>1, <3>2
  <2> QED BY <1>5, <2>1, <2>5, QuietStep
<1>6. ASSUME NEW w \in Slots, Dies(w) \/ Terminated(w) PROVE SlotInv'
  BY <1>5, <1>6 DEF Dies, Terminated
<1>7. ASSUME NEW w \in Slots, Replaces(w) PROVE SlotInv'
  <2> DEFINE t == Thread(ReplacementStart(w) + Lane(w))  high == ReplacementStart(w) - 1
  <2>1. SlotBecomes(w, t, high, slot[w].fails) /\ met' = met /\ clash' = clash
    BY <1>7 DEF Replaces, Slot, SlotOf, SlotBecomes
  <2>2. /\ ReplacementStart(w) \in Nat /\ slot[w].high < ReplacementStart(w) /\ slot[w].high \in Int
        /\ (ReplacementStart(w) + Lane(w)) % Stride = LaneRest(w)
    BY <1>s, ReplacementKeepsLane
  <2>3. w \in Nat BY StrideIs
  <2>4. high \in Int /\ slot[w].high <= high /\ high = ReplacementStart(w) - 1 BY <2>2
  <2>5. ThreadShaped(t) /\ t.next = ReplacementStart(w) + Lane(w) /\ t.unsent = {}
    BY DEF ThreadShaped, Thread
  <2> HIDE DEF t, high
  <2>6. t.next \in Nat /\ high < t.next /\ t.next % Stride = LaneRest(w)
    BY <2>2, <2>3, <2>4, <2>5 DEF Lane
  <2>7. KeepsLane(w, t, high) BY <2>5, <2>6 DEF KeepsLane
  <2> QED BY <2>1, <2>4, <2>5, <2>7, QuietStep
<1>8. ASSUME NEW w \in Slots, Numbers(w) PROVE SlotInv'
  <2> PICK o : o = slot[w].thread OBVIOUS
  <2> PICK id : id = Issued(o.next) OBVIOUS
  <2> PICK t : t = ThreadOf(o.state, id + Stride, o.unsent \cup {id}, o.asked) OBVIOUS
  <2>1. id < DoidFloor /\ SlotBecomes(w, t, slot[w].high, slot[w].fails) /\ met' = met /\ clash' = clash
    <3>1. /\ id < DoidFloor /\ met' = met /\ clash' = clash
          /\ slot' = [slot EXCEPT ![w].thread.next = id + Stride, ![w].thread.unsent = @ \cup {id}]
      BY <1>8 DEF Numbers
    <3>2. slot' = [[slot EXCEPT ![w].thread.next = id + Stride] EXCEPT ![w].thread.unsent = o.unsent \cup {id}]
      BY <1>8, <1>s DEF Numbers, SlotShaped, ThreadShaped, OnSlots
    <3>7. SlotBecomes(w, t, slot[w].high, slot[w].fails) BY <1>s, <3>2, NextEntered
    <3> QED BY <3>1, <3>7
  <2>2. KeepsLane(w, o, slot[w].high) /\ slot[w].high \in Int /\ slot[w].high <= slot[w].high
    BY <1>8, <1>s DEF Numbers
  <2>3. id \in Nat /\ id % Stride = LaneRest(w) /\ o.next <= id /\ id \notin LocalIds /\ o.next \in Nat
    BY <2>2, IssuedKeepsLane DEF KeepsLane
  <2>4. Stride \in Nat \ {0} /\ (id + Stride) % Stride = id % Stride
    <3>1. Stride \in Nat \ {0} /\ (id + 1 * Stride) % Stride = id % Stride
      BY <2>3, StrideIs, ModAdd
    <3> QED BY <3>1
  <2>5. ThreadShaped(t) /\ t.next = id + Stride /\ t.unsent = o.unsent \cup {id} BY ThreadOfIs
  <2>6. t.next \in Nat /\ id < t.next /\ slot[w].high < id /\ t.next % Stride = LaneRest(w) /\ slot[w].high < t.next
    BY <2>2, <2>3, <2>4, <2>5, SMTT(30) DEF KeepsLane
  <2>7. \A i \in t.unsent : OwnNumber(w, t, slot[w].high, i)
    <3>1. OwnNumber(w, t, slot[w].high, id) BY <2>1, <2>3, <2>6 DEF OwnNumber
    <3>2. ASSUME NEW i \in o.unsent PROVE OwnNumber(w, t, slot[w].high, i)
      <4>1. OwnNumber(w, o, slot[w].high, i) BY <2>2 DEF KeepsLane
      <4> QED BY <4>1, <2>3, <2>6 DEF OwnNumber
    <3> QED BY <2>5, <3>1, <3>2
  <2>8. id \in t.unsent /\ \A i \in t.unsent : i <= id
    <3>1. ASSUME NEW i \in o.unsent PROVE i <= id
      <4>1. OwnNumber(w, o, slot[w].high, i) BY <2>2 DEF KeepsLane
      <4> QED BY <4>1, <2>3 DEF OwnNumber
    <3>2. id <= id BY <2>3
    <3> QED BY <2>5, <3>1, <3>2
  <2>9. KeepsLane(w, t, slot[w].high) BY <2>6, <2>7, <2>8 DEF KeepsLane
  <2> QED BY <2>1, <2>2, <2>5, <2>9, QuietStep
<1>9. ASSUME NEW w \in Slots, Flushes(w) PROVE SlotInv'
  <2> PICK o : o = slot[w].thread OBVIOUS
  <2> PICK high : high = slot[w].high OBVIOUS
  <2> PICK t : t = ThreadOf(o.state, o.next, {}, o.asked) OBVIOUS
  <2>1. /\ o.unsent # {} /\ met' = met \cup o.unsent /\ clash' = (clash \/ o.unsent \cap met # {})
        /\ SlotBecomes(w, t, Heard(w), slot[w].fails)
    <3> PICK hd : hd = Heard(w) OBVIOUS
    <3>1. /\ o.unsent # {} /\ met' = met \cup o.unsent /\ clash' = (clash \/ o.unsent \cap met # {})
          /\ slot' = [[slot EXCEPT ![w].high = hd] EXCEPT ![w].thread.unsent = {}]
      BY <1>9 DEF Flushes
    <3>5. SlotBecomes(w, t, hd, slot[w].fails) BY <1>s, <3>1, MarkEntered
    <3> QED BY <3>1, <3>5
  <2>2. KeepsLane(w, o, high) /\ high \in Int /\ SlotShape /\ met \subseteq Nat
    BY <1>9, <1>s DEF Flushes, SlotInv, SlotShape
  <2>3. PICK top \in o.unsent : \A id \in o.unsent : id <= top BY <2>1, <2>2 DEF KeepsLane
  <2>4. OwnNumber(w, o, high, top) /\ \A id \in o.unsent : OwnNumber(w, o, high, id)
    BY <2>2 DEF KeepsLane
  <2>5. Heard(w) = top
    <3>1. \A id \in o.unsent \cup {high} : id \in Int /\ id <= top
      BY <2>2, <2>3, <2>4 DEF OwnNumber
    <3> QED BY <3>1, <2>3, HighestIs DEF Heard
  <2>6. ThreadShaped(t) /\ t.unsent = {} /\ t.next = o.next BY ThreadOfIs
  <2>7. met' \subseteq Nat /\ top \in Int
    <3>1. \A id \in o.unsent : id \in Nat BY <2>4 DEF OwnNumber
    <3>2. met' \subseteq Nat BY <2>1, <2>2, <3>1
    <3> QED BY <2>3, <3>1, <3>2
  <2>8. /\ SlotShape' /\ slot'[w].thread = t /\ slot'[w].high = top
        /\ \A v \in Slots : v # w => slot'[v] = slot[v]
    BY <2>1, <2>2, <2>5, <2>6, <2>7, OneSlotMoves
  <2>9. ~clash'
    <3>1. ASSUME NEW id \in o.unsent PROVE id \notin met
      <4>1. id % Stride = LaneRest(w) /\ high < id /\ id \in Nat BY <2>4, <3>1 DEF OwnNumber
      <4>2. id \in met => id <= high BY <4>1 DEF SlotInv, MetAreKnown
      <4> QED BY <4>1, <4>2, <2>2
    <3> QED BY <2>1, <3>1 DEF SlotInv
  <2>10. LanesAreKept'
    <3> SUFFICES ASSUME NEW v \in Slots, Serves(v)'
                 PROVE  KeepsLane(v, slot'[v].thread, slot'[v].high)
      BY DEF LanesAreKept, KeepsLane, OwnNumber, LaneRest
    <3>1. CASE v = w
      <4>1. t.next \in Nat /\ t.next % Stride = LaneRest(w) /\ top < t.next
        BY <2>2, <2>4, <2>6 DEF KeepsLane, OwnNumber
      <4> QED BY <2>6, <2>8, <3>1, <4>1 DEF KeepsLane
    <3>2. CASE v # w BY <2>8, <3>2 DEF Serves, State, SlotInv, LanesAreKept
    <3> QED BY <3>1, <3>2
  <2>11. MetAreKnown'
    <3> SUFFICES ASSUME NEW id \in met'
                 PROVE  /\ id < DoidFloor /\ id \notin LocalIds
                        /\ \A v \in Slots : id % Stride = LaneRest(v) => id <= slot'[v].high
      BY DEF MetAreKnown, LaneRest
    <3>1. CASE id \in met
      <4>1. id < DoidFloor /\ id \notin LocalIds /\ id \in Nat
        BY <3>1, <2>2 DEF SlotInv, MetAreKnown
      <4>2. ASSUME NEW v \in Slots, id % Stride = LaneRest(v) PROVE id <= slot'[v].high
        <5>1. id <= slot[v].high BY <3>1, <4>2 DEF SlotInv, MetAreKnown
        <5>2. high < top BY <2>4 DEF OwnNumber
        <5>3. CASE v = w BY <2>2, <2>7, <2>8, <4>1, <5>1, <5>2, <5>3
        <5>4. CASE v # w BY <2>8, <5>1, <5>4
        <5> QED BY <5>3, <5>4
      <4> QED BY <4>1, <4>2
    <3>2. CASE id \in o.unsent
      <4>1. id < DoidFloor /\ id \notin LocalIds /\ id % Stride = LaneRest(w) /\ id <= top
        BY <3>2, <2>3, <2>4 DEF OwnNumber
      <4>2. ASSUME NEW v \in Slots, id % Stride = LaneRest(v) PROVE v = w
        BY <4>1, <4>2, LanesDiffer
      <4> QED BY <4>1, <4>2, <2>8
    <3> QED BY <2>1, <3>1, <3>2
  <2> QED BY <2>8, <2>9, <2>10, <2>11 DEF SlotInv
<1> QED BY <1>0, <1>1, <1>3, <1>4, <1>6, <1>7, <1>8, <1>9 DEF SlotNext, Recovers

LEMMA SlotStart == SlotInit => SlotInv
<1> SUFFICES ASSUME SlotInit PROVE SlotInv OBVIOUS
<1>1. FirstDoid \in Nat /\ \A w \in Slots : w \in Nat BY StrideIs, SlotAssumption
<1>2. SlotShape
  <2>1. ASSUME NEW w \in Slots
        PROVE  slot[w] = [thread |-> Thread(FirstDoid + Lane(w)), high |-> FirstDoid - 1, fails |-> 0]
    BY DEF SlotInit, Slot
  <2>2. OnSlots(slot) BY DEF SlotInit, OnSlots
  <2>3. ASSUME NEW w \in Slots PROVE SlotShaped(slot[w]) /\ slot[w].high \in Int
    <3>1. slot[w] = SlotOf(Thread(FirstDoid + Lane(w)), FirstDoid - 1, 0) /\ FirstDoid - 1 \in Int
      BY <1>1, <2>1, <2>3 DEF SlotOf
    <3>2. ThreadShaped(Thread(FirstDoid + Lane(w))) BY DEF ThreadShaped, Thread
    <3> QED BY <3>1, <3>2, SlotOfIs
  <2> QED BY <2>2, <2>3 DEF SlotInit, SlotShape
<1>3. LanesAreKept BY <1>1 DEF SlotInit, Slot, Thread, LanesAreKept, KeepsLane, LaneRest, Lane
<1> QED BY <1>2, <1>3 DEF SlotInit, SlotInv, MetAreKnown

LEMMA SlotInvIsEnough == SlotInv => NumbersAreNew
  BY DEF SlotInv, MetAreKnown, LanesAreKept, KeepsLane, Serves, NumbersAreNew, LaneRest

-----------------------------------------------------------------------------
(* Packets in a row.                                                       *)

Kinds == KindsFor([browser |-> TRUE]) \cup KindsFor([browser |-> FALSE])
Packets == [n : Nat \ {0}, kind : Kinds]
Rising(q) == \A i, j \in 1..Len(q) : i < j => q[i].n < q[j].n
Before(q, d) == \A i \in 1..Len(q), j \in 1..Len(d) : q[i].n < d[j].n
First(h, q) == h # Nothing => \A i \in 1..Len(q) : h.n < q[i].n
UpTo(q, top) == \A i \in 1..Len(q) : q[i].n <= top
\* The numbers of q are those up to the top, one after the other
Counted(q, top) == \A i \in 1..Len(q) : q[i].n = top - Len(q) + i

\* What is handled, queued, decoded and on its way, of all that was sent
InOrder(h, q, d, w, sent) ==
  /\ Rising(q) /\ Rising(d) /\ Rising(w)
  /\ Before(q, d) /\ Before(q, w) /\ Before(d, w)
  /\ First(h, q) /\ First(h, d) /\ First(h, w)
  /\ UpTo(q, sent) /\ UpTo(d, sent) /\ UpTo(w, sent) /\ (h # Nothing => h.n <= sent)
\* of a client's own stream
WithoutGap(h, q, w, sent) ==
  /\ Counted(w, sent) /\ Counted(q, sent - Len(w))
  /\ h # Nothing => h.n = sent - Len(w) - Len(q)

LEMMA PacketIs == ASSUME NEW p \in Packets PROVE p.n \in Nat /\ p # Nothing
  BY DEF Packets, Nothing

LEMMA Joined ==
  ASSUME NEW a \in Seq(Packets), NEW b \in Seq(Packets)
  PROVE  /\ a \o b \in Seq(Packets) /\ Len(a \o b) = Len(a) + Len(b)
         /\ \A i \in 1..Len(a \o b) : \/ i \in 1..Len(a) /\ (a \o b)[i] = a[i]
                                      \/ i - Len(a) \in 1..Len(b) /\ (a \o b)[i] = b[i - Len(a)] /\ i > Len(a)
         /\ Len(a) \in Nat /\ Len(b) \in Nat
  OBVIOUS

LEMMA Cut ==
  ASSUME NEW a \in Seq(Packets), NEW n \in 1..Len(a)
  PROVE  /\ SubSeq(a, 1, n) \in Seq(Packets) /\ Len(SubSeq(a, 1, n)) = n
         /\ \A i \in 1..n : SubSeq(a, 1, n)[i] = a[i]
         /\ SubSeq(a, n + 1, Len(a)) \in Seq(Packets) /\ Len(SubSeq(a, n + 1, Len(a))) = Len(a) - n
         /\ \A i \in 1..(Len(a) - n) : SubSeq(a, n + 1, Len(a))[i] = a[n + i]
  OBVIOUS

LEMMA Beheaded ==
  ASSUME NEW a \in Seq(Packets), a # <<>>
  PROVE  /\ Head(a) = a[1] /\ Head(a) \in Packets /\ Tail(a) \in Seq(Packets)
         /\ Len(Tail(a)) = Len(a) - 1 /\ Len(a) \in Nat \ {0}
         /\ \A i \in 1..Len(Tail(a)) : Tail(a)[i] = a[i + 1] /\ i + 1 \in 1..Len(a)
         /\ 1 \in 1..Len(a)
  OBVIOUS

IsJoin(j, a, b) == j = a \o b
IsCut(c, r, w, n) == c = SubSeq(w, 1, n) /\ r = SubSeq(w, n + 1, Len(w)) /\ n \in 1..Len(w)

\* Rows that are joined
LEMMA JoinedRow ==
  ASSUME NEW a \in Seq(Packets), NEW b \in Seq(Packets), NEW j, IsJoin(j, a, b)
  PROVE  /\ Rising(a) /\ Rising(b) /\ Before(a, b) => Rising(j)
         /\ \A x \in Seq(Packets) : Before(a, x) /\ Before(b, x) => Before(j, x)
         /\ \A x \in Seq(Packets) : Before(x, a) /\ Before(x, b) => Before(x, j)
         /\ \A h : First(h, a) /\ First(h, b) => First(h, j)
         /\ \A top : UpTo(a, top) /\ UpTo(b, top) => UpTo(j, top)
         /\ j \in Seq(Packets) /\ Len(j) = Len(a) + Len(b)
<1>0. /\ Len(j) = Len(a) + Len(b) /\ Len(a) \in Nat /\ Len(b) \in Nat
      /\ \A i \in 1..Len(j) : \/ i \in 1..Len(a) /\ j[i] = a[i]
                              \/ i - Len(a) \in 1..Len(b) /\ j[i] = b[i - Len(a)] /\ i > Len(a)
  BY Joined DEF IsJoin
<1>1. ASSUME Rising(a), Rising(b), Before(a, b) PROVE Rising(j)
  <2> SUFFICES ASSUME NEW i \in 1..Len(j), NEW k \in 1..Len(j), i < k PROVE j[i].n < j[k].n
    BY DEF Rising
  <2>1. CASE k \in 1..Len(a)
    <3>1. i \in 1..Len(a) /\ j[i] = a[i] /\ j[k] = a[k] BY <1>0, <2>1
    <3> QED BY <1>1, <2>1, <3>1 DEF Rising
  <2>2. CASE k \notin 1..Len(a) /\ i \in 1..Len(a)
    <3>1. j[i] = a[i] /\ k - Len(a) \in 1..Len(b) /\ j[k] = b[k - Len(a)] BY <1>0, <2>2
    <3> QED BY <1>1, <2>2, <3>1 DEF Before
  <2>3. CASE i \notin 1..Len(a)
    <3>1. /\ i - Len(a) \in 1..Len(b) /\ j[i] = b[i - Len(a)]
          /\ k - Len(a) \in 1..Len(b) /\ j[k] = b[k - Len(a)] /\ i - Len(a) < k - Len(a)
      BY <1>0, <2>3
    <3> QED BY <1>1, <3>1 DEF Rising
  <2> QED BY <2>1, <2>2, <2>3
<1>2. ASSUME NEW x, Before(a, x), Before(b, x) PROVE Before(j, x) BY <1>0, <1>2 DEF Before
<1>3. ASSUME NEW x, Before(x, a), Before(x, b) PROVE Before(x, j) BY <1>0, <1>3 DEF Before
<1>4. ASSUME NEW h, First(h, a), First(h, b) PROVE First(h, j) BY <1>0, <1>4 DEF First
<1>5. ASSUME NEW top, UpTo(a, top), UpTo(b, top) PROVE UpTo(j, top) BY <1>0, <1>5 DEF UpTo
<1>6. j \in Seq(Packets) /\ Len(j) = Len(a) + Len(b) BY Joined DEF IsJoin
<1> QED BY <1>1, <1>2, <1>3, <1>4, <1>5, <1>6

\* and cut in two
LEMMA CutRow ==
  ASSUME NEW w \in Seq(Packets), NEW n, NEW c, NEW r, IsCut(c, r, w, n)
  PROVE  /\ Rising(w) => Rising(c) /\ Rising(r) /\ Before(c, r)
         /\ \A x \in Seq(Packets) : Before(x, w) => Before(x, c) /\ Before(x, r)
         /\ \A h : First(h, w) => First(h, c) /\ First(h, r)
         /\ \A top : UpTo(w, top) => UpTo(c, top) /\ UpTo(r, top)
         /\ c \in Seq(Packets) /\ r \in Seq(Packets) /\ Len(c) = n /\ Len(r) = Len(w) - n
         /\ \A i \in 1..n : c[i] = w[i]
         /\ \A i \in 1..Len(r) : r[i] = w[n + i]
<1>0. /\ c \in Seq(Packets) /\ Len(c) = n /\ \A i \in 1..Len(c) : c[i] = w[i] /\ i \in 1..Len(w) /\ i <= n
      /\ r \in Seq(Packets) /\ Len(r) = Len(w) - n /\ \A i \in 1..Len(r) : r[i] = w[n + i] /\ n + i \in 1..Len(w) /\ n < n + i
      /\ Len(w) \in Nat
  BY Cut, SMTT(30) DEF IsCut
<1>1. ASSUME Rising(w) PROVE Rising(c) /\ Rising(r) /\ Before(c, r)
  <2>1. Rising(c) BY <1>0, <1>1 DEF Rising
  <2>2. ASSUME NEW i \in 1..Len(r), NEW k \in 1..Len(r), i < k PROVE r[i].n < r[k].n
    <3>1. n + i < n + k BY <1>0, <2>2
    <3> QED BY <1>0, <1>1, <3>1 DEF Rising
  <2>3. ASSUME NEW i \in 1..Len(c), NEW k \in 1..Len(r) PROVE c[i].n < r[k].n
    <3>1. i < n + k BY <1>0
    <3> QED BY <1>0, <1>1, <3>1 DEF Rising
  <2> QED BY <2>1, <2>2, <2>3 DEF Rising, Before
<1>2. ASSUME NEW x, Before(x, w) PROVE Before(x, c) /\ Before(x, r) BY <1>0, <1>2 DEF Before
<1>3. ASSUME NEW h, First(h, w) PROVE First(h, c) /\ First(h, r) BY <1>0, <1>3 DEF First
<1>4. ASSUME NEW top, UpTo(w, top) PROVE UpTo(c, top) /\ UpTo(r, top) BY <1>0, <1>4 DEF UpTo
<1> QED BY <1>0, <1>1, <1>2, <1>3, <1>4

\* What is read goes to the end of the queue
LEMMA QueuedInOrder ==
  ASSUME NEW h, NEW q \in Seq(Packets), NEW d \in Seq(Packets), NEW w \in Seq(Packets), NEW sent \in Nat, NEW p \in Seq(Packets),
         InOrder(h, q, d, w, sent), Rising(p), Before(q, p), Before(p, d), Before(p, w), First(h, p), UpTo(p, sent)
  PROVE  InOrder(h, q \o p, d, w, sent)
<1> PICK j : j = q \o p OBVIOUS
<1>j. IsJoin(j, q, p) BY DEF IsJoin
<1>0. Rising(q) /\ Before(q, d) /\ Before(q, w) /\ First(h, q) /\ UpTo(q, sent) BY DEF InOrder
<1>1. Rising(j) /\ Before(j, d) /\ Before(j, w) /\ First(h, j) /\ UpTo(j, sent)
  BY <1>j, <1>0, JoinedRow
<1> QED BY <1>1 DEF InOrder

LEMMA TakenInOrder ==
  ASSUME NEW q \in Seq(Packets), NEW d \in Seq(Packets), NEW w \in Seq(Packets), NEW sent \in Nat,
         InOrder(Nothing, q, d, w, sent), q # <<>>
  PROVE  InOrder(Head(q), Tail(q), d, w, sent)
<1> PICK t : t = Tail(q) OBVIOUS
<1>0. /\ Head(q) = q[1] /\ t \in Seq(Packets) /\ Len(t) = Len(q) - 1 /\ Len(q) \in Nat \ {0}
      /\ \A i \in 1..Len(t) : t[i] = q[i + 1] /\ i + 1 \in 1..Len(q)
      /\ 1 \in 1..Len(q)
  BY Beheaded
<1>1. Rising(t) /\ First(q[1], t) BY <1>0 DEF Rising, First, InOrder
<1>2. Before(t, d) /\ Before(t, w) /\ First(q[1], d) /\ First(q[1], w)
  BY <1>0 DEF Before, First, InOrder
<1>3. UpTo(t, sent) /\ q[1].n <= sent BY <1>0 DEF UpTo, InOrder
<1> QED BY <1>0, <1>1, <1>2, <1>3 DEF InOrder

LEMMA DecodedInOrder ==
  ASSUME NEW h, NEW q \in Seq(Packets), NEW d \in Seq(Packets), NEW w \in Seq(Packets), NEW sent \in Nat,
         InOrder(h, q, d, w, sent), d # <<>>
  PROVE  /\ InOrder(h, q, Tail(d), w, sent)
         /\ Rising(<<Head(d)>>) /\ Before(q, <<Head(d)>>) /\ Before(<<Head(d)>>, Tail(d)) /\ Before(<<Head(d)>>, w)
         /\ First(h, <<Head(d)>>) /\ UpTo(<<Head(d)>>, sent)
<1> PICK t : t = Tail(d) OBVIOUS
<1> PICK p : p = <<Head(d)>> OBVIOUS
<1>0. /\ t \in Seq(Packets) /\ Len(t) = Len(d) - 1 /\ Len(d) \in Nat \ {0}
      /\ \A i \in 1..Len(t) : t[i] = d[i + 1] /\ i + 1 \in 1..Len(d)
      /\ 1 \in 1..Len(d) /\ Head(d) = d[1]
  BY Beheaded
<1>a. Len(p) = 1 /\ p[1] = d[1] BY <1>0
<1>1. Rising(t) /\ Rising(p) /\ Before(p, t) BY <1>0, <1>a DEF Rising, Before, InOrder
<1>2. Before(t, w) /\ Before(q, t) /\ First(h, t) /\ Before(p, w) /\ Before(q, p) /\ First(h, p)
  BY <1>0, <1>a DEF Before, First, InOrder
<1>3. UpTo(t, sent) /\ UpTo(p, sent) BY <1>0, <1>a DEF UpTo, InOrder
<1> QED BY <1>1, <1>2, <1>3 DEF InOrder

\* A browser's bytes go to its frames
LEMMA ReadInOrder ==
  ASSUME NEW h, NEW q \in Seq(Packets), NEW d \in Seq(Packets), NEW w \in Seq(Packets), NEW sent \in Nat,
         InOrder(h, q, d, w, sent), NEW n \in 1..Len(w),
         NEW c, NEW r, NEW j, IsCut(c, r, w, n), IsJoin(j, d, c)
  PROVE  InOrder(h, q, j, r, sent)
<1>0. c \in Seq(Packets) /\ r \in Seq(Packets) BY CutRow
<1>1. Rising(w) /\ Before(d, w) /\ Before(q, w) /\ First(h, w) /\ UpTo(w, sent) BY DEF InOrder
<1>2. Rising(c) /\ Rising(r) /\ Before(c, r) /\ UpTo(c, sent) /\ UpTo(r, sent) BY <1>1, CutRow
<1>3. Before(d, c) /\ Before(d, r) /\ Before(q, c) /\ Before(q, r) /\ First(h, c) /\ First(h, r)
  BY <1>1, CutRow
<1>4. Rising(d) /\ Before(q, d) /\ First(h, d) /\ UpTo(d, sent) BY DEF InOrder
<1>5. Rising(j) BY <1>0, <1>2, <1>3, <1>4, JoinedRow
<1>6. Before(j, r) /\ Before(q, j) BY <1>0, <1>2, <1>3, <1>4, JoinedRow
<1>7. First(h, j) /\ UpTo(j, sent) BY <1>0, <1>2, <1>3, <1>4, JoinedRow
<1> QED BY <1>1, <1>2, <1>3, <1>4, <1>5, <1>6, <1>7 DEF InOrder

\* A client's own stream is queued as it is read
LEMMA ReadWithoutGap ==
  ASSUME NEW h, NEW q \in Seq(Packets), NEW w \in Seq(Packets), NEW sent \in Nat,
         WithoutGap(h, q, w, sent), NEW n \in 1..Len(w),
         NEW c, NEW r, NEW j, IsCut(c, r, w, n), IsJoin(j, q, c)
  PROVE  WithoutGap(h, j, r, sent)
<1>0. c \in Seq(Packets) /\ r \in Seq(Packets) /\ Len(c) = n /\ Len(r) = Len(w) - n BY CutRow
<1>1. \A i \in 1..n : c[i] = w[i] BY CutRow
<1>2. \A i \in 1..Len(r) : r[i] = w[n + i] BY CutRow
<1>3. Len(w) \in Nat /\ Len(q) \in Nat /\ n \in Nat /\ n <= Len(w) OBVIOUS
<1>7. /\ Len(j) = Len(q) + n
      /\ \A i \in 1..Len(j) : \/ i \in 1..Len(q) /\ j[i] = q[i]
                              \/ i - Len(q) \in 1..n /\ j[i] = c[i - Len(q)] /\ i > Len(q)
  <2>1. j = q \o c BY DEF IsJoin
  <2> QED BY <1>0, <2>1, Joined
<1>8. Counted(r, sent)
  <2> SUFFICES ASSUME NEW i \in 1..Len(r) PROVE r[i].n = sent - Len(r) + i BY DEF Counted
  <2>1. n + i \in 1..Len(w) /\ r[i] = w[n + i] BY <1>0, <1>2, <1>3
  <2>2. w[n + i].n = sent - Len(w) + (n + i) BY <2>1 DEF Counted, WithoutGap
  <2>3. i \in Nat BY <1>0, <1>3
  <2>4. sent - (Len(w) - n) + i = sent - Len(w) + (n + i) BY <1>3, <2>3
  <2> QED BY <1>0, <2>1, <2>2, <2>4
<1>9. Counted(j, sent - Len(r))
  <2> SUFFICES ASSUME NEW i \in 1..Len(j) PROVE j[i].n = sent - Len(r) - Len(j) + i
    BY DEF Counted
  <2>0. i \in Int OBVIOUS
  <2>1. CASE i \in 1..Len(q) /\ j[i] = q[i]
    <3>1. q[i].n = sent - Len(w) - Len(q) + i BY <2>1 DEF Counted, WithoutGap
    <3>2. sent - (Len(w) - n) - (Len(q) + n) + i = sent - Len(w) - Len(q) + i BY <1>3, <2>0
    <3> QED BY <1>0, <1>7, <2>1, <3>1, <3>2
  <2>2. CASE i - Len(q) \in 1..n /\ j[i] = c[i - Len(q)] /\ i > Len(q)
    <3>0. i - Len(q) \in 1..Len(w) BY <1>3, <2>2
    <3>1. c[i - Len(q)] = w[i - Len(q)] BY <1>1, <2>2
    <3>2. w[i - Len(q)].n = sent - Len(w) + (i - Len(q)) BY <3>0 DEF Counted, WithoutGap
    <3>3. sent - (Len(w) - n) - (Len(q) + n) + i = sent - Len(w) + (i - Len(q)) BY <1>3, <2>0
    <3> QED BY <1>0, <1>7, <2>2, <3>1, <3>2, <3>3
  <2> QED BY <1>7, <2>1, <2>2
<1>10. h # Nothing => h.n = sent - Len(r) - Len(j)
  <2>1. sent - (Len(w) - n) - (Len(q) + n) = sent - Len(w) - Len(q) BY <1>3
  <2>2. h # Nothing => h.n = sent - Len(w) - Len(q) BY DEF WithoutGap
  <2> QED BY <1>0, <1>7, <2>1, <2>2
<1> QED BY <1>8, <1>9, <1>10 DEF WithoutGap

LEMMA QueueReads ==
  ASSUME NEW h, NEW q \in Seq(Packets), NEW w \in Seq(Packets), NEW sent \in Nat,
         InOrder(h, q, <<>>, w, sent), NEW n \in 1..Len(w),
         NEW c, NEW r, NEW j, IsCut(c, r, w, n), IsJoin(j, q, c)
  PROVE  InOrder(h, j, <<>>, r, sent)
<1>0. c \in Seq(Packets) /\ r \in Seq(Packets) BY CutRow
<1>1. Rising(w) /\ Before(q, w) /\ First(h, w) /\ UpTo(w, sent) BY DEF InOrder
<1>2. Rising(c) /\ Rising(r) /\ Before(c, r) /\ UpTo(c, sent) /\ UpTo(r, sent) BY <1>1, CutRow
<1>3. Before(q, c) /\ Before(q, r) /\ First(h, c) /\ First(h, r) BY <1>1, CutRow
<1>4. Rising(q) /\ First(h, q) /\ UpTo(q, sent) BY DEF InOrder
<1>5. Rising(j) BY <1>0, <1>2, <1>3, <1>4, JoinedRow
<1>6. Before(j, r) BY <1>0, <1>2, <1>3, <1>4, JoinedRow
<1>7. First(h, j) /\ UpTo(j, sent) BY <1>0, <1>2, <1>3, <1>4, JoinedRow
<1>8. Before(j, <<>>) /\ Before(<<>>, r) /\ Rising(<<>>) /\ UpTo(<<>>, sent) /\ First(h, <<>>)
  BY DEF Before, Rising, UpTo, First
<1>9. h # Nothing => h.n <= sent BY DEF InOrder
<1> QED BY <1>2, <1>3, <1>5, <1>6, <1>7, <1>8, <1>9 DEF InOrder

LEMMA TakenWithoutGap ==
  ASSUME NEW q \in Seq(Packets), NEW w \in Seq(Packets), NEW sent \in Nat, WithoutGap(Nothing, q, w, sent), q # <<>>
  PROVE  WithoutGap(Head(q), Tail(q), w, sent)
<1> PICK t : t = Tail(q) OBVIOUS
<1>0. /\ Head(q) = q[1] /\ t \in Seq(Packets) /\ Len(t) = Len(q) - 1 /\ Len(q) \in Nat \ {0}
      /\ \A i \in 1..Len(t) : t[i] = q[i + 1] /\ i + 1 \in 1..Len(q)
      /\ 1 \in 1..Len(q) /\ Len(w) \in Nat
  BY Beheaded
<1>1. Counted(t, sent - Len(w)) BY <1>0 DEF Counted, WithoutGap
<1>2. q[1].n = sent - Len(w) - Len(t) BY <1>0 DEF Counted, WithoutGap
<1> QED BY <1>0, <1>1, <1>2 DEF WithoutGap

\* The next packet a client sends
LEMMA SentInOrder ==
  ASSUME NEW h, h = Nothing \/ h \in Packets, NEW q \in Seq(Packets), NEW d \in Seq(Packets), NEW w \in Seq(Packets), NEW sent \in Nat,
         InOrder(h, q, d, w, sent), NEW p \in Packets, p.n = sent + 1
  PROVE  /\ InOrder(h, q, d, Append(w, p), sent + 1)
         /\ WithoutGap(h, q, w, sent) => WithoutGap(h, q, Append(w, p), sent + 1)
<1> PICK a : a = Append(w, p) OBVIOUS
<1>0. /\ Len(a) = Len(w) + 1 /\ Len(w) \in Nat /\ Len(q) \in Nat /\ Len(d) \in Nat
      /\ \A i \in 1..Len(a) : (i \in 1..Len(w) /\ a[i] = w[i]) \/ (i = Len(w) + 1 /\ a[i] = p)
  OBVIOUS
<1>a. /\ \A i \in 1..Len(q) : q[i].n \in Nat /\ q[i].n <= sent
      /\ \A i \in 1..Len(d) : d[i].n \in Nat /\ d[i].n <= sent
      /\ \A i \in 1..Len(w) : w[i].n \in Nat /\ w[i].n <= sent
      /\ h # Nothing => h.n \in Nat /\ h.n <= sent
  <2>1. /\ \A i \in 1..Len(q) : q[i] \in Packets
        /\ \A i \in 1..Len(d) : d[i] \in Packets
        /\ \A i \in 1..Len(w) : w[i] \in Packets
    BY ElementOfSeq
  <2> QED BY <2>1, PacketIs DEF InOrder, UpTo
<1>1. Rising(a) /\ Before(q, a) /\ Before(d, a) /\ First(h, a)
  BY <1>0, <1>a DEF Rising, Before, First, InOrder
<1>2. UpTo(a, sent + 1) /\ UpTo(q, sent + 1) /\ UpTo(d, sent + 1) /\ (h # Nothing => h.n <= sent + 1)
  <2>1. \A x : x \in Nat /\ x <= sent => x <= sent + 1 OBVIOUS
  <2>2. p.n <= sent + 1 OBVIOUS
  <2>3. UpTo(q, sent + 1) /\ UpTo(d, sent + 1) /\ (h # Nothing => h.n <= sent + 1)
    BY <1>a, <2>1 DEF UpTo
  <2>4. UpTo(a, sent + 1) BY <1>0, <1>a, <2>1, <2>2 DEF UpTo
  <2> QED BY <2>3, <2>4
<1>3. ASSUME WithoutGap(h, q, w, sent) PROVE WithoutGap(h, q, a, sent + 1)
  <2>1. Counted(a, sent + 1) BY <1>0, <1>3 DEF Counted, WithoutGap
  <2>2. sent + 1 - Len(a) = sent - Len(w) BY <1>0
  <2> QED BY <1>3, <2>1, <2>2 DEF WithoutGap
<1> QED BY <1>1, <1>2, <1>3 DEF InOrder

-----------------------------------------------------------------------------
(* One socket: what each of its handlers keeps.                            *)

\* A socket is what its fields are
SocketShaped(k) == k = [stage |-> k.stage, destroyed |-> k.destroyed, browser |-> k.browser, peer |-> k.peer, counted |-> k.counted,
  authenticated |-> k.authenticated, closed |-> k.closed, timers |-> k.timers, sent |-> k.sent, odd |-> k.odd, wire |-> k.wire,
  decoder |-> k.decoder, queue |-> k.queue, handling |-> k.handling, reasons |-> k.reasons, paused |-> k.paused,
  externallyPaused |-> k.externallyPaused, controlBackpressured |-> k.controlBackpressured, closing |-> k.closing,
  out |-> k.out, needsDrain |-> k.needsDrain, ended |-> k.ended, soon |-> k.soon, sends |-> k.sends]
Rows(k) == /\ k.wire \in Seq(Packets) /\ k.decoder \in Seq(Packets) /\ k.queue \in Seq(Packets)
           /\ (k.handling \in Packets \/ k.handling = Nothing) /\ k.sent \in Nat
Dead(k) == k.closed \/ k.destroyed \/ k.closing

\* What a handler leaves alone
Seat(j, k) == j.stage = k.stage /\ j.counted = k.counted /\ j.browser = k.browser /\ (Dead(k) => Dead(j))
Line(j, k) == j.decoder = k.decoder /\ j.queue = k.queue /\ j.handling = k.handling /\ j.wire = k.wire /\ j.sent = k.sent
Flow(j, k) == j.reasons = k.reasons /\ j.externallyPaused = k.externallyPaused /\ j.paused = k.paused
              /\ j.controlBackpressured = k.controlBackpressured
EndsAlike(j, k) == j.closing = k.closing /\ j.closed = k.closed /\ j.destroyed = k.destroyed
Same(j, k) == Seat(j, k) /\ Line(j, k) /\ Flow(j, k) /\ EndsAlike(j, k)
\* and what every one of them keeps
Kept(j, k) == SocketShaped(j) /\ (Rows(k) => Rows(j)) /\ Seat(j, k)

LEMMA DestroyedIs == ASSUME NEW k, SocketShaped(k) PROVE Kept(Destroyed(k), k) /\ Destroyed(k).destroyed /\ Dead(Destroyed(k)) /\ Destroyed(k).peer = "none"
<1> PICK j : j = Destroyed(k) OBVIOUS
<1>1. SocketShaped(j) BY DEF Destroyed, NewSocket, SocketShaped
<1>2. Seat(j, k) /\ j.destroyed /\ Dead(j) /\ j.peer = "none"
  BY DEF Destroyed, NewSocket, Seat, Dead, SocketShaped
<1>3. Rows(j) BY DEF Destroyed, NewSocket, Rows
<1> QED BY <1>1, <1>2, <1>3 DEF Kept

LEMMA WroteIs == ASSUME NEW k, SocketShaped(k) PROVE SocketShaped(Wrote(k)) /\ Same(Wrote(k), k) /\ (k.needsDrain => Wrote(k).needsDrain)
                                                      /\ (k.out + 1 >= HighWater => Wrote(k).needsDrain)
<1> PICK j : j = Wrote(k) OBVIOUS
<1>1. SocketShaped(j) BY DEF Wrote, SocketShaped
<1>2. Seat(j, k) /\ EndsAlike(j, k) BY DEF Wrote, Seat, EndsAlike, Dead, SocketShaped
<1>3. Line(j, k) /\ Flow(j, k) BY DEF Wrote, Line, Flow, SocketShaped
<1>4. (k.needsDrain => j.needsDrain) /\ (k.out + 1 >= HighWater => j.needsDrain)
  BY DEF Wrote, SocketShaped
<1> QED BY <1>1, <1>2, <1>3, <1>4 DEF Same

LEMMA SameIsKept == ASSUME NEW k, NEW j, SocketShaped(j), Same(j, k) PROVE Kept(j, k)
  BY DEF Same, Kept, Line, Rows

LEMMA SaysCloseIs == ASSUME NEW k, SocketShaped(k) PROVE Kept(SaysClose(k), k) /\ Dead(SaysClose(k))
<1>1. CASE k.closing \/ k.destroyed
  <2>1. SaysClose(k) = k BY <1>1 DEF SaysClose
  <2> QED BY <1>1, <2>1 DEF Kept, Seat, Dead
<1>2. CASE ~(k.closing \/ k.destroyed)
  <2> PICK w : w = Wrote(k) OBVIOUS
  <2>1. SocketShaped(w) /\ Kept(w, k) BY WroteIs, SameIsKept
  <2> PICK j : j = [w EXCEPT !.closing = TRUE] OBVIOUS
  <2>2. SocketShaped(j) /\ Seat(j, w) /\ Line(j, w) /\ Dead(j)
    BY <2>1 DEF SocketShaped, Seat, Line, Dead
  <2>3. Kept(j, k) BY <2>1, <2>2 DEF Kept, Line, Rows, Seat
  <2> QED BY <1>2, <2>2, <2>3 DEF SaysClose
<1> QED BY <1>1, <1>2

LEMMA KeptBoth == ASSUME NEW i, NEW j, NEW k, Kept(i, j), Kept(j, k) PROVE Kept(i, k)
  BY DEF Kept, Seat

LEMMA EndedIs == ASSUME NEW k, SocketShaped(k) PROVE Kept(Ended(k), k) /\ (k.browser \/ Dead(k) => Dead(Ended(k)))
<1>1. ASSUME NEW w, SocketShaped(w) PROVE SocketShaped([w EXCEPT !.ended = TRUE]) /\ Same([w EXCEPT !.ended = TRUE], w)
  <2> PICK j : j = [w EXCEPT !.ended = TRUE] OBVIOUS
  <2>1. SocketShaped(j) BY <1>1 DEF SocketShaped
  <2>2. Seat(j, w) /\ EndsAlike(j, w) /\ Line(j, w) /\ Flow(j, w)
    BY <1>1 DEF SocketShaped, Seat, EndsAlike, Line, Flow, Dead
  <2> QED BY <2>1, <2>2 DEF Same
<1>2. CASE k.browser
  <2>1. Kept(SaysClose(k), k) /\ Dead(SaysClose(k)) BY SaysCloseIs
  <2>2. Kept([SaysClose(k) EXCEPT !.ended = TRUE], SaysClose(k))
    BY <1>1, <2>1, SameIsKept DEF Kept
  <2> QED BY <1>2, <2>1, <2>2, KeptBoth DEF Ended, Kept, Seat
<1>3. CASE ~k.browser
  <2>1. Kept([k EXCEPT !.ended = TRUE], k) BY <1>1, SameIsKept
  <2> QED BY <1>3, <2>1 DEF Ended, Kept, Seat
<1> QED BY <1>2, <1>3

LEMMA FailsIs == ASSUME NEW k, SocketShaped(k) PROVE Kept(Fails(k), k) /\ Dead(Fails(k))
<1> PICK w : w = SaysClose(k) OBVIOUS
<1>1. Kept(w, k) /\ Dead(w) /\ SocketShaped(w) BY SaysCloseIs DEF Kept
<1> PICK j : j = [w EXCEPT !.ended = TRUE, !.soon = TRUE] OBVIOUS
<1>2. SocketShaped(j) /\ Seat(j, w) /\ Line(j, w)
  BY <1>1, ZenonT(60) DEF SocketShaped, Seat, Line, Dead
<1>3. Kept(j, w) BY <1>2 DEF Kept, Rows, Line
<1> QED BY <1>1, <1>3, KeptBoth DEF Fails, Kept, Seat

LEMMA CloseSessionIs == ASSUME NEW k, SocketShaped(k), NEW flush \in BOOLEAN
  PROVE Kept(CloseSession(k, flush), k) /\ Dead(CloseSession(k, flush)) /\ CloseSession(k, flush).closed
<1>1. CASE k.closed BY <1>1 DEF CloseSession, Kept, Seat, Dead
<1>2. CASE ~k.closed
  <2> PICK c : c = [k EXCEPT !.closed = TRUE, !.timers = @ \ {"login"}, !.queue = <<>>] OBVIOUS
  <2>1. SocketShaped(c) /\ c.closed BY DEF SocketShaped
  <2>2. c.stage = k.stage /\ c.counted = k.counted /\ c.browser = k.browser BY DEF SocketShaped
  <2>3. c.wire = k.wire /\ c.decoder = k.decoder /\ c.queue = <<>> /\ c.handling = k.handling /\ c.sent = k.sent
    BY DEF SocketShaped
  <2>4. Kept(c, k) /\ Dead(c) BY <2>1, <2>2, <2>3 DEF Kept, Seat, Rows, Dead
  <2>5. CASE ~flush
    <3>1. CloseSession(k, flush) = Destroyed(c) BY <1>2, <2>5 DEF CloseSession
    <3>2. Destroyed(c).closed BY <2>1 DEF Destroyed, NewSocket
    <3> QED BY <2>1, <2>4, <3>1, <3>2, DestroyedIs, KeptBoth
  <2>6. CASE flush
    <3> PICK e : e = Ended(c) OBVIOUS
    <3>1. Kept(e, c) /\ Dead(e) /\ SocketShaped(e) BY <2>1, <2>4, EndedIs DEF Kept
    <3>0. e.closed
      <4>1. c.browser => e = [SaysClose(c) EXCEPT !.ended = TRUE] BY DEF Ended
      <4>2. ~c.browser => e = [c EXCEPT !.ended = TRUE] BY DEF Ended
      <4>3. SaysClose(c).closed BY <2>1, WroteIs DEF SaysClose, SocketShaped, Same, EndsAlike
      <4>4. SocketShaped(SaysClose(c)) BY <2>1, SaysCloseIs DEF Kept
      <4>5. ASSUME NEW x, SocketShaped(x), x.closed PROVE [x EXCEPT !.ended = TRUE].closed
        BY <4>5 DEF SocketShaped
      <4>6. CASE c.browser BY <4>1, <4>3, <4>4, <4>5, <4>6
      <4>7. CASE ~c.browser BY <2>1, <4>2, <4>5, <4>7
      <4> QED BY <4>6, <4>7
    <3> PICK t : t = IF c.destroyed THEN e.timers ELSE e.timers \cup {"force"} OBVIOUS
    <3> PICK j : j = [e EXCEPT !.timers = t] OBVIOUS
    <3>2. SocketShaped(j) /\ Seat(j, e) /\ Line(j, e) /\ j.closed
      BY <3>0, <3>1 DEF SocketShaped, Seat, Line, Dead
    <3>3. Kept(j, e) /\ Dead(j) BY <3>2 DEF Kept, Rows, Line, Dead
    <3>4. CloseSession(k, flush) = j BY <1>2, <2>6 DEF CloseSession
    <3> QED BY <2>4, <3>1, <3>2, <3>3, <3>4, KeptBoth
  <2> QED BY <2>5, <2>6
<1> QED BY <1>1, <1>2

-----------------------------------------------------------------------------
(* A session: what it is at, and what stops it or lets it go on.           *)

\* For now a session may be stopped for no reason any more (`stale`), and has a packet in hand that
\* will be looked after when it is done (`busy`)
Steered(k, stale) ==
  /\ k.paused => stale \/ k.reasons # {} \/ k.controlBackpressured
  /\ "write" \in k.reasons \/ k.controlBackpressured => k.needsDrain
  /\ k.browser => (k.externallyPaused <=> k.reasons # {})
  /\ ~k.browser => k.decoder = <<>> /\ ~k.controlBackpressured /\ ~k.externallyPaused
InLine(k) == /\ InOrder(k.handling, k.queue, k.decoder, k.wire, k.sent)
             /\ ~k.browser => WithoutGap(k.handling, k.queue, k.wire, k.sent)
\* The packets of a queue are looked after
Served(k, busy) ==
  /\ "queue" \in k.reasons => k.handling # Nothing /\ (busy => k.queue # <<>>)
  /\ k.queue # <<>> \/ busy => k.handling # Nothing
\* or will be when the next is taken
ToServe(k, busy) ==
  /\ "queue" \in k.reasons => (k.handling # Nothing /\ (busy => k.queue # <<>>)) \/ k.queue # <<>>
  /\ busy => k.handling # Nothing
Going(k, stale, busy) == Steered(k, stale) /\ InLine(k) /\ Served(k, busy)
\* Frames of a browser wait only for what stops them
HandedOn(k) == k.browser /\ ~k.externallyPaused /\ ~k.controlBackpressured => k.decoder = <<>>
Live(k) == Going(k, FALSE, FALSE) /\ HandedOn(k)

LEMMA StoppedIs == ASSUME NEW k, SocketShaped(k), NEW j, j = Stopped(k)
  PROVE /\ Kept(j, k) /\ Line(j, k) /\ EndsAlike(j, k)
        /\ j.reasons = k.reasons /\ j.controlBackpressured = k.controlBackpressured
        /\ j.externallyPaused = k.browser /\ j.paused /\ j.needsDrain = k.needsDrain
<1>1. SocketShaped(j) BY DEF Stopped, SocketShaped
<1>2. Seat(j, k) /\ Line(j, k) /\ EndsAlike(j, k)
  BY DEF Stopped, SocketShaped, Seat, Line, EndsAlike, Dead
<1>3. j.reasons = k.reasons /\ j.controlBackpressured = k.controlBackpressured
      /\ j.externallyPaused = k.browser /\ j.paused /\ j.needsDrain = k.needsDrain
  BY DEF Stopped, SocketShaped
<1>4. Kept(j, k) BY <1>1, <1>2 DEF Kept, Rows, Line
<1> QED BY <1>2, <1>3, <1>4

\* A handler that changes what is handled and queued, or the reasons, and nothing else
Fed(j, k, h, q, rs) ==
  /\ j.stage = k.stage /\ j.counted = k.counted /\ j.browser = k.browser /\ EndsAlike(j, k)
  /\ j.decoder = k.decoder /\ j.wire = k.wire /\ j.sent = k.sent
  /\ j.externallyPaused = k.externallyPaused /\ j.paused = k.paused /\ j.controlBackpressured = k.controlBackpressured
  /\ j.needsDrain = k.needsDrain
  /\ j.handling = h /\ j.queue = q /\ j.reasons = rs

LEMMA FedIsKept == ASSUME NEW k, NEW j, NEW h, NEW q, NEW rs, SocketShaped(j), Fed(j, k, h, q, rs),
                          Rows(k) => q \in Seq(Packets) /\ (h \in Packets \/ h = Nothing)
                   PROVE  Kept(j, k)
  BY DEF Fed, Kept, Seat, Rows, EndsAlike, Dead

LEMMA TakesNextIs == ASSUME NEW k, SocketShaped(k) PROVE Kept(TakesNext(k), k) /\ EndsAlike(TakesNext(k), k)
<1>1. CASE k.handling # Nothing \/ k.closed \/ k.queue = <<>>
  <2>1. TakesNext(k) = k BY <1>1 DEF TakesNext
  <2> QED BY <2>1 DEF Kept, Seat, EndsAlike
<1>2. CASE ~(k.handling # Nothing \/ k.closed \/ k.queue = <<>>)
  <2> PICK h : h = Head(k.queue) OBVIOUS
  <2> PICK t : t = Tail(k.queue) OBVIOUS
  <2> PICK j : j = [k EXCEPT !.handling = h, !.queue = t] OBVIOUS
  <2>1. SocketShaped(j) /\ Fed(j, k, h, t, k.reasons) BY DEF SocketShaped, Fed, EndsAlike
  <2>2. Rows(k) => t \in Seq(Packets) /\ h \in Packets BY <1>2, Beheaded DEF Rows
  <2>3. TakesNext(k) = j BY <1>2 DEF TakesNext
  <2> QED BY <2>1, <2>2, <2>3, FedIsKept DEF Fed
<1> QED BY <1>1, <1>2

LEMMA TakesNextServes ==
  ASSUME NEW k, NEW j, j = TakesNext(k), SocketShaped(k), Rows(k), ~k.closed, NEW stale, NEW busy, Steered(k, stale), InLine(k), ToServe(k, busy)
  PROVE  Going(j, stale, busy)
<1>1. CASE k.handling # Nothing \/ k.queue = <<>>
  <2>1. j = k BY <1>1 DEF TakesNext
  <2>2. Served(k, busy) BY <1>1 DEF Served, ToServe
  <2> QED BY <2>1, <2>2 DEF Going
<1>2. CASE k.handling = Nothing /\ k.queue # <<>>
  <2> PICK h : h = Head(k.queue) OBVIOUS
  <2> PICK t : t = Tail(k.queue) OBVIOUS
  <2>3. j = [k EXCEPT !.handling = h, !.queue = t] BY <1>2 DEF TakesNext
  <2>1. SocketShaped(j) /\ Fed(j, k, h, t, k.reasons)
    BY <2>3, ZenonT(60) DEF SocketShaped, Fed, EndsAlike
  <2>2. t \in Seq(Packets) /\ h \in Packets /\ h # Nothing BY <1>2, Beheaded, PacketIs DEF Rows
  <2>4. InOrder(h, t, k.decoder, k.wire, k.sent) BY <1>2, TakenInOrder DEF InLine, Rows
  <2>5. ~k.browser => WithoutGap(h, t, k.wire, k.sent) BY <1>2, TakenWithoutGap DEF InLine, Rows
  <2>6. Steered(j, stale) BY <2>1 DEF Fed, Steered
  <2>7. InLine(j) BY <2>1, <2>4, <2>5 DEF Fed, InLine
  <2>8. Served(j, busy) BY <1>2, <2>1, <2>2 DEF Fed, Served, ToServe
  <2> QED BY <2>6, <2>7, <2>8 DEF Going
<1> QED BY <1>1, <1>2

LEMMA FramedIs == ASSUME NEW p \in Seq(Packets) PROVE Framed(p) \in Seq(Packets) /\ (Malformed(p) = {} => Framed(p) = p)
<1>1. CASE Malformed(p) = {} BY <1>1 DEF Framed
<1>2. CASE Malformed(p) # {}
  <2>1. Malformed(p) \in SUBSET Nat /\ Malformed(p) \subseteq 1..Len(p) BY DEF Malformed
  <2>2. Min(Malformed(p)) \in Malformed(p) BY <1>2, <2>1, LeastIs DEF Min
  <2>3. SubSeq(p, 1, Min(Malformed(p)) - 1) \in Seq(Packets)
    <3> PICK m : m = Min(Malformed(p)) OBVIOUS
    <3>1. m \in 1..Len(p) BY <2>1, <2>2
    <3>2. SubSeq(p, 1, m - 1) \in Seq(Packets) BY <3>1, SubSeqProperties
    <3> QED BY <3>2
  <2> QED BY <1>2, <2>3 DEF Framed
<1> QED BY <1>1, <1>2

\* What a close frame does to a browser's stream
LEMMA Closes == ASSUME NEW k, SocketShaped(k)
                PROVE  /\ k.browser => Ended(k).closing \/ Ended(k).destroyed
                       /\ Fails(k).closing \/ Fails(k).destroyed
<1>s. PICK s : s = SaysClose(k) OBVIOUS
<1>1. SocketShaped(s) /\ (s.closing \/ s.destroyed)
  <2>1. CASE k.closing \/ k.destroyed BY <1>s, <2>1 DEF SaysClose
  <2>2. CASE ~(k.closing \/ k.destroyed)
    <3> PICK w : w = Wrote(k) OBVIOUS
    <3>1. SocketShaped(w) BY WroteIs
    <3>2. s = [w EXCEPT !.closing = TRUE] BY <1>s, <2>2 DEF SaysClose
    <3>3. s.closing BY <3>1, <3>2 DEF SocketShaped
    <3> QED BY <1>s, <3>3, SaysCloseIs DEF Kept
  <2> QED BY <2>1, <2>2
<1>2. ASSUME NEW x, x = [s EXCEPT !.ended = TRUE] \/ x = [s EXCEPT !.ended = TRUE, !.soon = TRUE]
      PROVE  x.closing = s.closing /\ x.destroyed = s.destroyed
  BY <1>1, <1>2, ZenonT(60) DEF SocketShaped
<1>3. (k.browser => Ended(k) = [s EXCEPT !.ended = TRUE]) /\ Fails(k) = [s EXCEPT !.ended = TRUE, !.soon = TRUE]
  BY <1>s DEF Ended, Fails
<1> QED BY <1>1, <1>2, <1>3

LEMMA CutShort == ASSUME NEW k, SocketShaped(k)
                  PROVE  CloseSession(k, FALSE).destroyed \/ CloseSession(k, FALSE) = k
<1>1. CASE k.closed BY <1>1 DEF CloseSession
<1>2. CASE ~k.closed
  <2> PICK c : c = [k EXCEPT !.closed = TRUE, !.timers = @ \ {"login"}, !.queue = <<>>] OBVIOUS
  <2>1. CloseSession(k, FALSE) = Destroyed(c) BY <1>2 DEF CloseSession
  <2>2. SocketShaped(c) BY DEF SocketShaped
  <2> QED BY <2>1, <2>2, DestroyedIs
<1> QED BY <1>1, <1>2

Slowed(q, r) == IF Len(q.queue) > ResumeAt THEN Stopped(r) ELSE q
LEMMA SlowedIs == ASSUME NEW q, NEW r PROVE Slowed(q, r) = q \/ (Slowed(q, r) = Stopped(r) /\ Len(q.queue) > ResumeAt)
  BY DEF Slowed
LEMMA ReasonsAre == ASSUME NEW k, SocketShaped(k), NEW rs, NEW j, j = [k EXCEPT !.reasons = rs]
                    PROVE  SocketShaped(j) /\ Fed(j, k, k.handling, k.queue, rs)
  BY DEF SocketShaped, Fed, EndsAlike
LEMMA QueueIs == ASSUME NEW k, SocketShaped(k), NEW q, NEW j, j = [k EXCEPT !.queue = q]
                 PROVE  SocketShaped(j) /\ Fed(j, k, k.handling, q, k.reasons)
  BY DEF SocketShaped, Fed, EndsAlike

\* The data handler in one: the queue is too long, or a length was wrong, or all is well
OnDataParts(k, p, fr, q, rs, r, s, t) ==
  fr = k.queue \o Framed(p) /\ q = [k EXCEPT !.queue = fr] /\ rs = q.reasons \cup {"queue"} /\ r = [q EXCEPT !.reasons = rs]
  /\ s = Slowed(q, r) /\ t = TakesNext(s)
LEMMA OnDataBecomes ==
  ASSUME NEW k, NEW p, NEW fr, NEW q, NEW rs, NEW r, NEW s, NEW t, OnDataParts(k, p, fr, q, rs, r, s, t)
  PROVE  OnData(k, p) = CloseSession(q, FALSE) \/ (OnData(k, p) = CloseSession(t, FALSE) /\ Malformed(p) # {})
         \/ (OnData(k, p) = t /\ Malformed(p) = {})
<1> DEFINE qq == [k EXCEPT !.queue = @ \o Framed(p)]
           rr == [qq EXCEPT !.reasons = @ \cup {"queue"}]
           tt == TakesNext(Slowed(qq, rr))
<1>1. OnData(k, p) = IF Len(qq.queue) > MaxQueued THEN CloseSession(qq, FALSE)
                     ELSE IF Malformed(p) # {} THEN CloseSession(tt, FALSE) ELSE tt
  BY DEF OnData, Slowed
<1>2. q = qq BY DEF OnDataParts
<1>3. r = rr BY <1>2 DEF OnDataParts
<1>4. t = tt BY <1>2, <1>3 DEF OnDataParts
<1> HIDE DEF qq, rr, tt
<1> QED BY <1>1, <1>2, <1>4

LEMMA OnDataIs ==
  ASSUME NEW k, SocketShaped(k), NEW p \in Seq(Packets), NEW j, j = OnData(k, p)
  PROVE  Kept(j, k) /\ (j.destroyed \/ j.decoder = k.decoder)
<1>b. PICK b : b = k.queue \o Framed(p) OBVIOUS
<1>q. PICK q : q = [k EXCEPT !.queue = b] OBVIOUS
<1>rs. PICK rs : rs = q.reasons \cup {"queue"} OBVIOUS
<1>r. PICK r : r = [q EXCEPT !.reasons = rs] OBVIOUS
<1>s. PICK s : s = Slowed(q, r) OBVIOUS
<1>t. PICK t : t = TakesNext(s) OBVIOUS
<1>p. OnDataParts(k, p, b, q, rs, r, s, t)
  BY <1>b, <1>q, <1>rs, <1>r, <1>s, <1>t DEF OnDataParts
<1>1. SocketShaped(q) /\ Fed(q, k, k.handling, b, k.reasons) BY <1>q, QueueIs
<1>2. Rows(k) => b \in Seq(Packets) BY <1>b, FramedIs, Joined DEF Rows
<1>3. Kept(q, k) /\ q.decoder = k.decoder BY <1>1, <1>2, FedIsKept DEF Fed, Rows
<1>4. SocketShaped(r) /\ Fed(r, q, q.handling, q.queue, rs) BY <1>1, <1>r, ReasonsAre
<1>5. Kept(r, q) /\ r.decoder = q.decoder
  <2>1. Rows(q) => q.queue \in Seq(Packets) /\ (q.handling \in Packets \/ q.handling = Nothing)
    BY DEF Rows
  <2>2. Kept(r, q)
    <3>1. ASSUME NEW h, NEW x, h = q.handling, x = q.queue PROVE Kept(r, q)
      BY <1>4, <2>1, <3>1, FedIsKept
    <3> QED BY <3>1
  <2> QED BY <1>4, <2>2 DEF Fed
<1>6. Kept(s, q) /\ s.decoder = q.decoder /\ SocketShaped(s)
  <2>1. CASE s = Stopped(r)
    <3>0. Kept(s, r) /\ Line(s, r) BY <1>4, <2>1, StoppedIs
    <3>1. Kept(s, r) /\ s.decoder = r.decoder BY <3>0 DEF Line
    <3> QED BY <1>5, <3>1, KeptBoth DEF Kept
  <2>2. CASE s = q BY <1>1, <2>2 DEF Kept, Seat
  <2> QED BY <2>1, <2>2, <1>s, SlowedIs
<1>7. Kept(t, s) /\ SocketShaped(t) /\ t.decoder = s.decoder
  <2>1. Kept(t, s) /\ SocketShaped(t) BY <1>6, <1>t, TakesNextIs DEF Kept
  <2>2. t.decoder = s.decoder BY <1>6, <1>t DEF TakesNext, SocketShaped
  <2> QED BY <2>1, <2>2
<1>8. Kept(t, k) /\ t.decoder = k.decoder BY <1>3, <1>6, <1>7, KeptBoth
<1>9. CASE j = CloseSession(q, FALSE) BY <1>1, <1>3, <1>9, CutShort, CloseSessionIs, KeptBoth
<1>10. CASE j = CloseSession(t, FALSE) BY <1>7, <1>8, <1>10, CutShort, CloseSessionIs, KeptBoth
<1>11. CASE j = t BY <1>8, <1>11
<1>12. j = CloseSession(q, FALSE) \/ j = CloseSession(t, FALSE) \/ j = t BY <1>p, OnDataBecomes
<1> QED BY <1>9, <1>10, <1>11, <1>12

LEMMA OnDataServes ==
  ASSUME NEW k, SocketShaped(k), Rows(k), NEW p \in Seq(Packets), p # <<>>, NEW j, j = OnData(k, p),
         NEW b, IsJoin(b, k.queue, p), InOrder(k.handling, b, k.decoder, k.wire, k.sent),
         ~k.browser => WithoutGap(k.handling, b, k.wire, k.sent),
         NEW stale, NEW busy, Steered(k, stale), Served(k, busy)
  PROVE  Dead(j) \/ Going(j, stale, busy)
<1>0. SUFFICES ASSUME ~Dead(j) PROVE Going(j, stale, busy) OBVIOUS
<1>a. ~Dead(k) BY <1>0, OnDataIs DEF Kept, Seat
<1>b. PICK fr : fr = k.queue \o Framed(p) OBVIOUS
<1>q. PICK q : q = [k EXCEPT !.queue = fr] OBVIOUS
<1>rs. PICK rs : rs = q.reasons \cup {"queue"} OBVIOUS
<1>r. PICK r : r = [q EXCEPT !.reasons = rs] OBVIOUS
<1>s. PICK s : s = Slowed(q, r) OBVIOUS
<1>t. PICK t : t = TakesNext(s) OBVIOUS
<1>p. OnDataParts(k, p, fr, q, rs, r, s, t)
  BY <1>b, <1>q, <1>rs, <1>r, <1>s, <1>t DEF OnDataParts
<1>1. SocketShaped(q) /\ Fed(q, k, k.handling, fr, k.reasons) BY <1>q, QueueIs
<1>2. SocketShaped(r) /\ Fed(r, q, q.handling, q.queue, rs) BY <1>1, <1>r, ReasonsAre
<1>3. SocketShaped(s)
  <2>1. ASSUME s = Stopped(r) PROVE SocketShaped(s) BY <1>2, <2>1, StoppedIs DEF Kept
  <2> QED BY <1>1, <2>1, <1>s, SlowedIs
<1>4. SocketShaped(t) BY <1>3, <1>t, TakesNextIs DEF Kept
<1>5. j = t /\ Malformed(p) = {}
  <2>1. Dead(CloseSession(q, FALSE)) /\ Dead(CloseSession(t, FALSE))
    BY <1>1, <1>4, CloseSessionIs
  <2>2. j = CloseSession(q, FALSE) \/ (j = CloseSession(t, FALSE) /\ Malformed(p) # {}) \/ (j = t /\ Malformed(p) = {})
    BY <1>p, OnDataBecomes
  <2> QED BY <1>0, <2>1, <2>2
<1>6. fr = b /\ b \in Seq(Packets) /\ b # <<>>
  <2>1. fr = b BY <1>5, <1>b, FramedIs DEF IsJoin
  <2>2. b \in Seq(Packets) /\ Len(b) = Len(k.queue) + Len(p) /\ Len(p) \in Nat /\ Len(k.queue) \in Nat
    BY Joined DEF IsJoin, Rows
  <2>3. Len(p) > 0 OBVIOUS
  <2>4. Len(b) > 0 BY <2>2, <2>3
  <2> QED BY <2>1, <2>2, <2>4
<1>7. Rows(q) /\ Steered(q, stale) /\ InLine(q) /\ ToServe(q, busy) /\ ~Dead(q)
  <2>1. Rows(q) BY <1>1, <1>6 DEF Fed, Rows
  <2>2. Steered(q, stale) BY <1>1 DEF Fed, Steered
  <2>3. InLine(q) BY <1>1, <1>6 DEF Fed, InLine
  <2>4. ToServe(q, busy) BY <1>1, <1>6 DEF Fed, ToServe, Served
  <2>5. ~Dead(q) BY <1>1, <1>a DEF Fed, EndsAlike, Dead
  <2> QED BY <2>1, <2>2, <2>3, <2>4, <2>5
<1>8. CASE s = q
  <2>1. ~s.closed BY <1>7, <1>8 DEF Dead
  <2> QED BY <1>3, <1>5, <1>7, <1>8, <2>1, <1>t, TakesNextServes
<1>9. CASE s = Stopped(r)
  <2>1. /\ s.handling = k.handling /\ s.queue = b /\ s.decoder = k.decoder /\ s.wire = k.wire /\ s.sent = k.sent
        /\ s.browser = k.browser /\ s.controlBackpressured = k.controlBackpressured /\ s.needsDrain = k.needsDrain
        /\ s.externallyPaused = k.browser /\ s.reasons = rs
        /\ s.closed = k.closed
    <3>1. Line(s, r) /\ EndsAlike(s, r) /\ s.reasons = r.reasons /\ s.controlBackpressured = r.controlBackpressured
          /\ s.externallyPaused = r.browser /\ s.needsDrain = r.needsDrain /\ Kept(s, r)
      BY <1>2, <1>9, StoppedIs
    <3>2. Line(r, q) /\ r.browser = q.browser /\ EndsAlike(r, q) /\ r.reasons = rs /\ r.controlBackpressured = q.controlBackpressured
          /\ r.needsDrain = q.needsDrain
      BY <1>2 DEF Fed, Line
    <3>3. q.handling = k.handling /\ q.queue = b /\ q.decoder = k.decoder /\ q.wire = k.wire /\ q.sent = k.sent /\ EndsAlike(q, k)
          /\ q.browser = k.browser /\ q.controlBackpressured = k.controlBackpressured /\ q.needsDrain = k.needsDrain
      BY <1>1, <1>6 DEF Fed
    <3> QED BY <3>1, <3>2, <3>3 DEF Line, Kept, Seat, EndsAlike
  <2>2. Rows(s) BY <1>6, <2>1 DEF Rows
  <2>3. Steered(s, stale)
    <3>1. rs # {} /\ ("write" \in rs => "write" \in k.reasons) BY <1>1, <1>rs DEF Fed
    <3> QED BY <2>1, <3>1 DEF Steered
  <2>4. InLine(s) BY <2>1 DEF InLine
  <2>5. ToServe(s, busy) BY <1>6, <2>1 DEF ToServe, Served
  <2>6. ~s.closed BY <1>a, <2>1 DEF Dead
  <2> QED BY <1>3, <1>5, <2>2, <2>3, <2>4, <2>5, <2>6, <1>t, TakesNextServes
<1> QED BY <1>8, <1>9, <1>s, SlowedIs

-----------------------------------------------------------------------------
(* The frames of a browser, one after the other.                           *)

Unframed(j, k, d) == j = [k EXCEPT !.decoder = d]
LeftBy(j, k, d) ==
  /\ j.stage = k.stage /\ j.counted = k.counted /\ j.browser = k.browser /\ EndsAlike(j, k) /\ Flow(j, k) /\ j.needsDrain = k.needsDrain
  /\ j.decoder = d /\ j.wire = k.wire /\ j.sent = k.sent /\ j.handling = k.handling /\ j.queue = k.queue /\ j.out = k.out
LEMMA DecoderIs == ASSUME NEW k, SocketShaped(k), NEW d, NEW j, Unframed(j, k, d)
  PROVE  SocketShaped(j) /\ LeftBy(j, k, d)
<1>1. SocketShaped(j) BY DEF Unframed, SocketShaped
<1>2. j.stage = k.stage /\ j.counted = k.counted /\ j.browser = k.browser /\ EndsAlike(j, k) /\ Flow(j, k)
  BY DEF Unframed, SocketShaped, EndsAlike, Flow
<1>3. /\ j.needsDrain = k.needsDrain
      /\ j.decoder = d /\ j.wire = k.wire /\ j.sent = k.sent /\ j.handling = k.handling /\ j.queue = k.queue /\ j.out = k.out
  BY DEF Unframed, SocketShaped
<1> QED BY <1>1, <1>2, <1>3 DEF LeftBy

\* A ping that fills the stream
LEMMA CloggedIs == ASSUME NEW k, SocketShaped(k), NEW j, j = [k EXCEPT !.controlBackpressured = TRUE, !.paused = TRUE]
  PROVE  /\ SocketShaped(j) /\ Seat(j, k) /\ EndsAlike(j, k) /\ Line(j, k)
         /\ j.reasons = k.reasons /\ j.externallyPaused = k.externallyPaused /\ j.controlBackpressured /\ j.needsDrain = k.needsDrain
<1>1. SocketShaped(j) BY DEF SocketShaped
<1>2. Seat(j, k) /\ EndsAlike(j, k) /\ Line(j, k)
  BY DEF SocketShaped, Seat, EndsAlike, Line, Dead
<1>3. j.reasons = k.reasons /\ j.externallyPaused = k.externallyPaused /\ j.controlBackpressured /\ j.needsDrain = k.needsDrain
  BY DEF SocketShaped
<1> QED BY <1>1, <1>2, <1>3

\* One frame: a ping that is answered, an end of some kind, or a packet
Pinged(k1, w) == IF k1.out + 1 >= HighWater THEN [w EXCEPT !.controlBackpressured = TRUE, !.paused = TRUE] ELSE w
FrameParts(k, p, k1, w) == p = Head(k.decoder) /\ k1 = [k EXCEPT !.decoder = Tail(k.decoder)] /\ w = Wrote(k1)
LEMMA OneFrameBecomes ==
  ASSUME NEW k, NEW p, NEW k1, NEW w, FrameParts(k, p, k1, w)
  PROVE  OneFrame(k) = Pinged(k1, w) \/ OneFrame(k) = Ended(k1) \/ OneFrame(k) = Fails(k1) \/ OneFrame(k) = OnData(k1, <<p>>)
<1> DEFINE pp == Head(k.decoder)
           kk == [k EXCEPT !.decoder = Tail(@)]
           ww == Wrote(kk)
<1>1. OneFrame(k) = CASE pp.kind = "ping" -> Pinged(kk, ww) [] pp.kind = "close" -> Ended(kk)
                      [] pp.kind = "badFrame" -> Fails(kk) [] OTHER -> OnData(kk, <<pp>>)
  BY DEF OneFrame, Pinged
<1>2. p = pp /\ k1 = kk BY DEF FrameParts
<1>3. w = ww BY <1>2 DEF FrameParts
<1> HIDE DEF pp, kk, ww
<1> QED BY <1>1, <1>2, <1>3
LEMMA PingedIs == ASSUME NEW k1, NEW w PROVE Pinged(k1, w) = w \/ Pinged(k1, w) = [w EXCEPT !.controlBackpressured = TRUE, !.paused = TRUE]
  BY DEF Pinged
LEMMA PingedFull == ASSUME NEW k1, NEW w, Pinged(k1, w) # w PROVE k1.out + 1 >= HighWater
  BY DEF Pinged

LEMMA OneFrameIs ==
  ASSUME NEW k, SocketShaped(k), Rows(k), k.decoder # <<>>, NEW j, j = OneFrame(k)
  PROVE  Kept(j, k) /\ (j.closing \/ j.destroyed \/ j.decoder = Tail(k.decoder))
<1>p. PICK p : p = Head(k.decoder) OBVIOUS
<1>d. PICK d : d = Tail(k.decoder) OBVIOUS
<1>k. PICK k1 : k1 = [k EXCEPT !.decoder = d] OBVIOUS
<1>w. PICK w : w = Wrote(k1) OBVIOUS
<1>f. FrameParts(k, p, k1, w) BY <1>p, <1>d, <1>k, <1>w DEF FrameParts
<1>u. Unframed(k1, k, d) BY <1>k DEF Unframed
<1>l. SocketShaped(k1) /\ LeftBy(k1, k, d) BY <1>u, DecoderIs
<1>0. p \in Packets /\ d \in Seq(Packets) BY <1>p, <1>d, Beheaded DEF Rows
<1>1. SocketShaped(k1) /\ k1.browser = k.browser /\ k1.decoder = d BY <1>l DEF LeftBy
<1>2. Kept(k1, k)
  <2>1. k1.stage = k.stage /\ k1.counted = k.counted /\ EndsAlike(k1, k) /\ k1.wire = k.wire /\ k1.sent = k.sent
        /\ k1.handling = k.handling /\ k1.queue = k.queue
    BY <1>l DEF LeftBy
  <2>2. Rows(k1) BY <2>1, <1>1, <1>0 DEF Rows
  <2> QED BY <2>1, <2>2, <1>1 DEF Kept, Seat, EndsAlike, Dead
<1>3. SocketShaped(w) /\ Kept(w, k1) /\ w.decoder = d
  <2>1. SocketShaped(w) /\ Same(w, k1) BY <1>1, <1>w, WroteIs
  <2> QED BY <2>1, <1>1, SameIsKept DEF Same, Line
<1>4. CASE j = w BY <1>2, <1>3, <1>4, <1>d, KeptBoth
<1>5. CASE j = [w EXCEPT !.controlBackpressured = TRUE, !.paused = TRUE]
  <2>1. SocketShaped(j) /\ Seat(j, w) /\ Line(j, w) BY <1>3, <1>5, CloggedIs
  <2>2. Kept(j, w) /\ j.decoder = d BY <2>1, <1>3 DEF Kept, Line, Rows
  <2> QED BY <1>2, <1>3, <2>2, <1>d, KeptBoth
<1>6. CASE j = Ended(k1)
  <2>1. Kept(j, k1) BY <1>1, <1>6, EndedIs
  <2>2. j.closing \/ j.destroyed \/ j.decoder = d
    <3>1. CASE k1.browser BY <1>1, <1>6, <3>1, Closes
    <3>2. CASE ~k1.browser
      <4>1. j = [k1 EXCEPT !.ended = TRUE] BY <1>6, <3>2 DEF Ended
      <4>2. j.decoder = k1.decoder BY <1>1, <4>1 DEF SocketShaped
      <4> QED BY <1>1, <4>2
    <3> QED BY <3>1, <3>2
  <2> QED BY <2>1, <2>2, <1>2, <1>d, KeptBoth
<1>7. CASE j = Fails(k1)
  <2>1. Kept(j, k1) BY <1>1, <1>7, FailsIs
  <2>2. j.closing \/ j.destroyed BY <1>1, <1>7, Closes
  <2> QED BY <2>1, <2>2, <1>2, KeptBoth
<1>8. CASE j = OnData(k1, <<p>>)
  <2>1. <<p>> \in Seq(Packets) BY <1>0
  <2>2. Kept(j, k1) /\ (j.destroyed \/ j.decoder = k1.decoder) BY <1>1, <2>1, <1>8, OnDataIs
  <2> QED BY <2>2, <1>1, <1>2, <1>d, KeptBoth
<1>9. j = w \/ j = [w EXCEPT !.controlBackpressured = TRUE, !.paused = TRUE] \/ j = Ended(k1) \/ j = Fails(k1) \/ j = OnData(k1, <<p>>)
  <2>1. j = Pinged(k1, w) => j = w \/ j = [w EXCEPT !.controlBackpressured = TRUE, !.paused = TRUE]
    BY PingedIs
  <2> QED BY <1>f, <2>1, OneFrameBecomes
<1> QED BY <1>4, <1>5, <1>6, <1>7, <1>8, <1>9

LEMMA OneFrameServes ==
  ASSUME NEW k, SocketShaped(k), Rows(k), k.browser, k.decoder # <<>>, NEW j, j = OneFrame(k),
         NEW stale, NEW busy, Going(k, stale, busy)
  PROVE  Dead(j) \/ Going(j, stale, busy)
<1>p. PICK p : p = Head(k.decoder) OBVIOUS
<1>d. PICK d : d = Tail(k.decoder) OBVIOUS
<1>k. PICK k1 : k1 = [k EXCEPT !.decoder = d] OBVIOUS
<1>w. PICK w : w = Wrote(k1) OBVIOUS
<1>f. FrameParts(k, p, k1, w) BY <1>p, <1>d, <1>k, <1>w DEF FrameParts
<1>u. Unframed(k1, k, d) BY <1>k DEF Unframed
<1>l. SocketShaped(k1) /\ LeftBy(k1, k, d) BY <1>u, DecoderIs
<1>0. p \in Packets /\ d \in Seq(Packets) BY <1>p, <1>d, Beheaded DEF Rows
<1>1. SocketShaped(k1) /\ k1.browser = k.browser /\ k1.decoder = d /\ EndsAlike(k1, k) /\ Flow(k1, k) /\ k1.needsDrain = k.needsDrain
      /\ k1.wire = k.wire /\ k1.sent = k.sent /\ k1.handling = k.handling /\ k1.queue = k.queue
  BY <1>l DEF LeftBy
<1>2. Rows(k1) BY <1>0, <1>1 DEF Rows
<1>3. InOrder(k.handling, k.queue, k.decoder, k.wire, k.sent) BY DEF Going, InLine
<1>4. InOrder(k.handling, k.queue, d, k.wire, k.sent) BY <1>3, <1>d, DecodedInOrder DEF Rows
<1>5. Going(k1, stale, busy)
  <2>1. Steered(k1, stale) BY <1>1 DEF Going, Steered, Flow
  <2>2. InLine(k1) BY <1>1, <1>4 DEF InLine
  <2>3. Served(k1, busy) BY <1>1 DEF Going, Served, Flow
  <2> QED BY <2>1, <2>2, <2>3 DEF Going
<1>6. SocketShaped(w) /\ Same(w, k1) /\ (k1.needsDrain => w.needsDrain) /\ (k1.out + 1 >= HighWater => w.needsDrain)
  BY <1>1, <1>w, WroteIs
<1>7. Going(w, stale, busy)
  <2>1. Steered(w, stale) BY <1>5, <1>6 DEF Going, Steered, Same, Seat, Flow, Line
  <2>2. InLine(w) BY <1>5, <1>6 DEF Going, InLine, Same, Seat, Line
  <2>3. Served(w, busy) BY <1>5, <1>6 DEF Going, Served, Same, Flow, Line
  <2> QED BY <2>1, <2>2, <2>3 DEF Going
<1>8. CASE j = w BY <1>7, <1>8
<1>9. CASE j = [w EXCEPT !.controlBackpressured = TRUE, !.paused = TRUE] /\ w.needsDrain
  <2>1. Seat(j, w) /\ Line(j, w) /\ j.reasons = w.reasons /\ j.externallyPaused = w.externallyPaused /\ j.controlBackpressured /\ j.needsDrain = w.needsDrain
    BY <1>6, <1>9, CloggedIs
  <2>2. w.browser BY <1>1, <1>6 DEF Same, Seat
  <2>3. Steered(j, stale) BY <1>7, <1>9, <2>1, <2>2 DEF Going, Steered, Seat, Line
  <2>4. InLine(j) BY <1>7, <2>1 DEF Going, InLine, Seat, Line
  <2>5. Served(j, busy) BY <1>7, <2>1 DEF Going, Served, Line
  <2> QED BY <2>3, <2>4, <2>5 DEF Going
<1>10. CASE j = Ended(k1) \/ j = Fails(k1)
  <2>1. j.closing \/ j.destroyed BY <1>1, <1>10, Closes
  <2> QED BY <2>1 DEF Dead
<1>11. CASE j = OnData(k1, <<p>>)
  <2>p. PICK pp : pp = <<p>> OBVIOUS
  <2>b. PICK b : b = k1.queue \o pp OBVIOUS
  <2>1. pp \in Seq(Packets) /\ pp # <<>> /\ IsJoin(b, k1.queue, pp)
    BY <1>0, <2>p, <2>b DEF IsJoin
  <2>2. Rising(pp) /\ Before(k.queue, pp) /\ Before(pp, d) /\ Before(pp, k.wire) /\ First(k.handling, pp) /\ UpTo(pp, k.sent)
    BY <1>3, <1>p, <1>d, <2>p, DecodedInOrder DEF Rows
  <2>3. InOrder(k.handling, b, d, k.wire, k.sent)
    BY <1>0, <1>1, <1>4, <2>b, <2>1, <2>2, QueuedInOrder DEF Rows
  <2>4. InOrder(k1.handling, b, k1.decoder, k1.wire, k1.sent) BY <1>1, <2>3
  <2>5. ~k1.browser => WithoutGap(k1.handling, b, k1.wire, k1.sent) BY <1>1
  <2>6. Steered(k1, stale) /\ Served(k1, busy) BY <1>5 DEF Going
  <2>7. j = OnData(k1, pp) BY <1>11, <2>p
  <2> QED BY <1>1, <1>2, <2>1, <2>4, <2>5, <2>6, <2>7, OnDataServes
<1>12. j = w \/ (j = [w EXCEPT !.controlBackpressured = TRUE, !.paused = TRUE] /\ w.needsDrain)
       \/ j = Ended(k1) \/ j = Fails(k1) \/ j = OnData(k1, <<p>>)
  <2>1. j = Pinged(k1, w) => j = w \/ (j = [w EXCEPT !.controlBackpressured = TRUE, !.paused = TRUE] /\ w.needsDrain)
    BY <1>6, PingedIs, PingedFull
  <2> QED BY <1>f, <2>1, OneFrameBecomes
<1> QED BY <1>8, <1>9, <1>10, <1>11, <1>12

Halted(b) == b.controlBackpressured \/ b.externallyPaused \/ b.closing \/ b.destroyed
Turn(b) == IF Halted(b) THEN b ELSE OneFrame(b)
Chain(k, f, n) == f = [i \in 0..n |-> IF i = 0 THEN k ELSE Turn(f[i - 1])]

\* What goes on frame by frame can always go on, however many there are
LEMMA ChainExists == ASSUME NEW k, NEW n \in Nat PROVE \E f : Chain(k, f, n)
<1> DEFINE Bad == {m \in Nat : ~ \E f : Chain(k, f, m)}
<1>1. SUFFICES ASSUME Bad # {} PROVE FALSE OBVIOUS
<1>2. PICK m \in Bad : \A y \in Bad : m <= y BY <1>1, LeastIs
<1>3. CASE m = 0
  <2>1. Chain(k, [i \in 0..0 |-> k], 0) BY DEF Chain
  <2> QED BY <1>2, <1>3, <2>1
<1>4. CASE m # 0
  <2>1. PICK f : Chain(k, f, m - 1) BY <1>2, <1>4
  <2> DEFINE g == [i \in 0..m |-> IF i = m THEN Turn(f[m - 1]) ELSE f[i]]
  <2>2. ASSUME NEW i \in 0..m PROVE g[i] = IF i = 0 THEN k ELSE Turn(g[i - 1])
    <3>1. CASE i = 0 BY <1>4, <2>1, <3>1 DEF Chain
    <3>2. CASE i # 0 /\ i < m
      <4>1. g[i] = f[i] /\ g[i - 1] = f[i - 1] /\ i \in 0..(m - 1) BY <3>2
      <4> QED BY <2>1, <3>2, <4>1 DEF Chain
    <3>3. CASE i = m
      <4>1. g[i] = Turn(f[m - 1]) /\ g[m - 1] = f[m - 1] BY <3>3, <1>4
      <4> QED BY <1>4, <3>3, <4>1
    <3> QED BY <3>1, <3>2, <3>3
  <2>3. Chain(k, g, m) BY <2>2 DEF Chain
  <2> QED BY <2>3
<1> QED BY <1>3, <1>4

LEMMA DrainedIs == ASSUME NEW k, Len(k.decoder) \in Nat PROVE \E f : Chain(k, f, Len(k.decoder)) /\ DrainFrames(k) = f[Len(k.decoder)]
<1> DEFINE n == Len(k.decoder)
<1>1. \E f : f = [i \in 0..n |-> IF i = 0 THEN k ELSE LET b == f[i - 1] IN
             IF b.controlBackpressured \/ b.externallyPaused \/ b.closing \/ b.destroyed THEN b ELSE OneFrame(b)]
  BY ChainExists, ZenonT(60) DEF Chain, Turn, Halted
<1> DEFINE F == CHOOSE f : f = [i \in 0..n |-> IF i = 0 THEN k ELSE LET b == f[i - 1] IN
             IF b.controlBackpressured \/ b.externallyPaused \/ b.closing \/ b.destroyed THEN b ELSE OneFrame(b)]
<1>2. DrainFrames(k) = F[n] BY Zenon DEF DrainFrames
<1>3. Chain(k, F, n) BY <1>1, Zenon DEF Chain, Turn, Halted
<1> QED BY <1>2, <1>3

\* so that all are handed on unless something stops it
LEMMA ChainServes ==
  ASSUME NEW k, SocketShaped(k), Rows(k), NEW n \in Nat, n = Len(k.decoder), NEW f, Chain(k, f, n),
         NEW stale, NEW busy, NEW i \in 0..n
  PROVE  /\ Kept(f[i], k) /\ (Halted(f[i]) \/ Len(f[i].decoder) = n - i)
         /\ k.browser /\ Going(k, stale, busy) => Dead(f[i]) \/ Going(f[i], stale, busy)
<1> DEFINE Good(m) == /\ Kept(f[m], k) /\ (Halted(f[m]) \/ Len(f[m].decoder) = n - m)
                      /\ k.browser /\ Going(k, stale, busy) => Dead(f[m]) \/ Going(f[m], stale, busy)
           Bad == {m \in 0..n : ~Good(m)}
<1>1. SUFFICES ASSUME Bad # {} PROVE FALSE OBVIOUS
<1>0. Bad \in SUBSET Nat OBVIOUS
<1>2. PICK m \in Bad : \A y \in Bad : m <= y BY <1>0, <1>1, LeastIs
<1>3. m \in 0..n /\ ~Good(m) BY <1>2
<1>4. CASE m = 0
  <2>1. f[m] = k BY <1>4 DEF Chain
  <2>2. Kept(k, k) BY DEF Kept, Seat
  <2> QED BY <1>3, <1>4, <2>1, <2>2
<1>5. CASE m # 0
  <2>1. m - 1 \in 0..n /\ m - 1 \notin Bad BY <1>2, <1>3, <1>5
  <2>p. PICK b : b = f[m - 1] OBVIOUS
  <2>q. PICK j : j = f[m] OBVIOUS
  <2>2. Kept(b, k) /\ (Halted(b) \/ Len(b.decoder) = n - (m - 1)) /\ (k.browser /\ Going(k, stale, busy) => Dead(b) \/ Going(b, stale, busy))
    BY <2>1, <2>p
  <2>3. j = Turn(b) BY <1>3, <1>5, <2>p, <2>q DEF Chain
  <2>4. CASE Halted(b)
    <3>1. j = b BY <2>3, <2>4 DEF Turn
    <3> QED BY <1>3, <2>2, <2>4, <2>q, <3>1
  <2>5. CASE ~Halted(b)
    <3>1. j = OneFrame(b) BY <2>3, <2>5 DEF Turn
    <3>2. SocketShaped(b) /\ Rows(b) /\ b.browser = k.browser BY <2>2 DEF Kept, Seat
    <3>3. Len(b.decoder) = n - (m - 1) /\ b.decoder \in Seq(Packets)
      BY <2>2, <2>5, <3>2 DEF Rows
    <3>4. b.decoder # <<>>
      <4>1. Len(b.decoder) > 0 BY <1>3, <3>3
      <4> QED BY <3>3, <4>1
    <3>5. Kept(j, b) /\ (j.closing \/ j.destroyed \/ j.decoder = Tail(b.decoder))
      BY <3>1, <3>2, <3>4, OneFrameIs
    <3>6. Halted(j) \/ Len(j.decoder) = n - m
      <4>1. Len(Tail(b.decoder)) = Len(b.decoder) - 1 BY <3>3, <3>4, Beheaded
      <4>2. n - (m - 1) - 1 = n - m BY <1>3
      <4> QED BY <3>3, <3>5, <4>1, <4>2 DEF Halted
    <3>7. Kept(j, k) BY <2>2, <3>5, KeptBoth
    <3>8. k.browser /\ Going(b, stale, busy) => Dead(j) \/ Going(j, stale, busy)
      BY <3>1, <3>2, <3>4, OneFrameServes
    <3>9. Dead(b) => Dead(j) BY <3>5 DEF Kept, Seat
    <3> QED BY <1>3, <2>2, <2>q, <3>6, <3>7, <3>8, <3>9
  <2> QED BY <2>4, <2>5
<1> QED BY <1>4, <1>5

LEMMA DrainFramesServes ==
  ASSUME NEW k, SocketShaped(k), Rows(k), NEW j, j = DrainFrames(k), NEW stale, NEW busy
  PROVE  /\ Kept(j, k)
         /\ k.browser /\ Going(k, stale, busy) => Dead(j) \/ (Going(j, stale, busy) /\ (Halted(j) \/ j.decoder = <<>>))
<1>n. PICK n : n = Len(k.decoder) OBVIOUS
<1>0. n \in Nat /\ n \in 0..n BY <1>n DEF Rows
<1>1. PICK f : Chain(k, f, n) /\ j = f[n] BY <1>0, <1>n, DrainedIs
<1>2. Kept(j, k) /\ (Halted(j) \/ Len(j.decoder) = n - n) /\ (k.browser /\ Going(k, stale, busy) => Dead(j) \/ Going(j, stale, busy))
  <2>0. \A i \in 0..n : /\ Kept(f[i], k) /\ (Halted(f[i]) \/ Len(f[i].decoder) = n - i)
                        /\ k.browser /\ Going(k, stale, busy) => Dead(f[i]) \/ Going(f[i], stale, busy)
    BY <1>0, <1>1, <1>n, ChainServes
  <2>i. PICK i : i = n /\ i \in 0..n BY <1>0
  <2>1. /\ Kept(f[i], k) /\ (Halted(f[i]) \/ Len(f[i].decoder) = n - i)
        /\ k.browser /\ Going(k, stale, busy) => Dead(f[i]) \/ Going(f[i], stale, busy)
    BY <2>i, <2>0
  <2>2. j = f[i] /\ n - i = n - n BY <1>1, <2>i
  <2> QED BY <2>1, <2>2
<1>3. Rows(j) BY <1>2 DEF Kept
<1>4. Len(j.decoder) = n - n => j.decoder = <<>> BY <1>0, <1>3 DEF Rows
<1> QED BY <1>2, <1>4

-----------------------------------------------------------------------------
(* Reading is let go on.                                                   *)

\* A session that waits only for what to do about its reading
Ready(k, busy) ==
  /\ InLine(k) /\ Served(k, busy)
  /\ "write" \in k.reasons \/ k.controlBackpressured => k.needsDrain
  /\ ~k.browser => k.decoder = <<>> /\ ~k.controlBackpressured /\ ~k.externallyPaused
Lively(k, busy) == Dead(k) \/ (Going(k, FALSE, busy) /\ HandedOn(k))

\* Flags that are set
FlagsAre(j, k, paused, external, clogged) ==
  /\ SocketShaped(j) /\ Seat(j, k) /\ Line(j, k) /\ EndsAlike(j, k) /\ j.needsDrain = k.needsDrain /\ j.reasons = k.reasons
  /\ j.paused = paused /\ j.externallyPaused = external /\ j.controlBackpressured = clogged
LEMMA Unpaused == ASSUME NEW k, SocketShaped(k), NEW j, j = [k EXCEPT !.paused = FALSE]
                  PROVE  FlagsAre(j, k, FALSE, k.externallyPaused, k.controlBackpressured)
<1>1. SocketShaped(j) BY DEF SocketShaped
<1>2. Seat(j, k) /\ Line(j, k) /\ EndsAlike(j, k)
  BY DEF SocketShaped, Seat, Line, EndsAlike, Dead
<1>3. j.needsDrain = k.needsDrain /\ j.reasons = k.reasons /\ j.paused = FALSE
      /\ j.externallyPaused = k.externallyPaused /\ j.controlBackpressured = k.controlBackpressured
  BY DEF SocketShaped
<1> QED BY <1>1, <1>2, <1>3 DEF FlagsAre
LEMMA Let_go == ASSUME NEW k, SocketShaped(k), NEW j, j = [k EXCEPT !.externallyPaused = FALSE]
               PROVE  FlagsAre(j, k, k.paused, FALSE, k.controlBackpressured)
<1>1. SocketShaped(j) BY DEF SocketShaped
<1>2. Seat(j, k) /\ Line(j, k) /\ EndsAlike(j, k)
  BY DEF SocketShaped, Seat, Line, EndsAlike, Dead
<1>3. j.needsDrain = k.needsDrain /\ j.reasons = k.reasons /\ j.paused = k.paused
      /\ j.externallyPaused = FALSE /\ j.controlBackpressured = k.controlBackpressured
  BY DEF SocketShaped
<1> QED BY <1>1, <1>2, <1>3 DEF FlagsAre
LEMMA Unclogged == ASSUME NEW k, SocketShaped(k), NEW j, j = [k EXCEPT !.controlBackpressured = FALSE]
                   PROVE  FlagsAre(j, k, k.paused, k.externallyPaused, FALSE)
<1>1. SocketShaped(j) BY DEF SocketShaped
<1>2. Seat(j, k) /\ Line(j, k) /\ EndsAlike(j, k)
  BY DEF SocketShaped, Seat, Line, EndsAlike, Dead
<1>3. j.needsDrain = k.needsDrain /\ j.reasons = k.reasons /\ j.paused = k.paused
      /\ j.externallyPaused = k.externallyPaused /\ j.controlBackpressured = FALSE
  BY DEF SocketShaped
<1> QED BY <1>1, <1>2, <1>3 DEF FlagsAre
LEMMA FlagsKeep == ASSUME NEW j, NEW k, NEW p, NEW e, NEW c, FlagsAre(j, k, p, e, c) PROVE Kept(j, k) /\ SocketShaped(j)
  BY DEF FlagsAre, Kept, Line, Rows

\* What was let go on, when all its frames are handed on or something stopped them, may be read again
LEMMA ReadAgain ==
  ASSUME NEW d, SocketShaped(d), NEW busy, Dead(d) \/ (Going(d, TRUE, busy) /\ (Halted(d) \/ d.decoder = <<>>)), d.browser,
         NEW j, \/ j = d /\ (d.controlBackpressured \/ d.externallyPaused \/ d.closing \/ d.destroyed)
                \/ j = [d EXCEPT !.paused = FALSE]
  PROVE  Kept(j, d) /\ Lively(j, busy)
<1>1. CASE j = d /\ (d.controlBackpressured \/ d.externallyPaused \/ d.closing \/ d.destroyed)
  <2>1. Kept(j, d) BY <1>1 DEF Kept, Seat
  <2>2. ASSUME ~Dead(d) PROVE Going(d, FALSE, busy) /\ HandedOn(d)
    <3>1. Steered(d, FALSE) BY <1>1, <2>2 DEF Going, Steered, Dead
    <3> QED BY <1>1, <2>2, <3>1 DEF Going, HandedOn, Dead
  <2> QED BY <1>1, <2>1, <2>2 DEF Lively
<1>2. CASE j = [d EXCEPT !.paused = FALSE]
  <2>1. FlagsAre(j, d, FALSE, d.externallyPaused, d.controlBackpressured) BY <1>2, Unpaused
  <2>2. Kept(j, d) BY <2>1, FlagsKeep
  <2>3. ASSUME ~Dead(d) PROVE Going(j, FALSE, busy) /\ HandedOn(j)
    <3>1. Steered(j, FALSE) BY <2>1, <2>3 DEF FlagsAre, Going, Steered, Seat, Line
    <3>2. InLine(j) BY <2>1, <2>3 DEF FlagsAre, Going, InLine, Seat, Line
    <3>3. Served(j, busy) BY <2>1, <2>3 DEF FlagsAre, Going, Served, Line
    <3>4. HandedOn(j) BY <2>1, <2>3 DEF FlagsAre, HandedOn, Seat, Line, Halted, Dead
    <3> QED BY <3>1, <3>2, <3>3, <3>4 DEF Going
  <2> QED BY <2>2, <2>3 DEF Lively, Kept, Seat
<1> QED BY <1>1, <1>2

LEMMA ResumedIs ==
  ASSUME NEW k, SocketShaped(k), Rows(k), NEW j, j = Resumed(k), NEW busy
  PROVE  Kept(j, k) /\ (Ready(k, busy) /\ k.reasons = {} => Lively(j, busy))
<1>1. CASE ~k.browser
  <2>1. j = [k EXCEPT !.paused = FALSE] BY <1>1 DEF Resumed
  <2>2. FlagsAre(j, k, FALSE, k.externallyPaused, k.controlBackpressured) BY <2>1, Unpaused
  <2>3. Kept(j, k) BY <2>2, FlagsKeep
  <2>4. ASSUME Ready(k, busy), k.reasons = {} PROVE Going(j, FALSE, busy) /\ HandedOn(j)
    <3>1. Steered(j, FALSE) BY <1>1, <2>2, <2>4 DEF FlagsAre, Ready, Steered, Seat, Line
    <3>2. InLine(j) BY <2>2, <2>4 DEF FlagsAre, Ready, InLine, Seat, Line
    <3>3. Served(j, busy) BY <2>2, <2>4 DEF FlagsAre, Ready, Served, Line
    <3>4. HandedOn(j) BY <1>1, <2>2 DEF FlagsAre, HandedOn, Seat
    <3> QED BY <3>1, <3>2, <3>3, <3>4 DEF Going
  <2> QED BY <2>3, <2>4 DEF Lively
<1>2. CASE k.browser
  <2>r. PICK r : r = [k EXCEPT !.externallyPaused = FALSE] OBVIOUS
  <2>d. PICK d : d = DrainFrames(r) OBVIOUS
  <2>1. FlagsAre(r, k, k.paused, FALSE, k.controlBackpressured) BY <2>r, Let_go
  <2>2. Kept(r, k) /\ SocketShaped(r) /\ Rows(r) /\ r.browser
    BY <1>2, <2>1, FlagsKeep DEF Kept, Seat
  <2>3. /\ k.controlBackpressured => j = r
        /\ ~k.controlBackpressured => IF d.controlBackpressured \/ d.closing \/ d.destroyed THEN j = d ELSE j = [d EXCEPT !.paused = FALSE]
    BY <1>2, <2>r, <2>d DEF Resumed
  <2>4. ASSUME Ready(k, busy), k.reasons = {} PROVE Going(r, TRUE, busy)
    <3>1. Steered(r, TRUE) BY <1>2, <2>1, <2>4 DEF FlagsAre, Ready, Steered, Seat, Line
    <3>2. InLine(r) BY <2>1, <2>4 DEF FlagsAre, Ready, InLine, Seat, Line
    <3>3. Served(r, busy) BY <2>1, <2>4 DEF FlagsAre, Ready, Served, Line
    <3> QED BY <3>1, <3>2, <3>3 DEF Going
  <2>5. CASE k.controlBackpressured
    <3>1. j = r /\ r.controlBackpressured BY <2>1, <2>3, <2>5 DEF FlagsAre
    <3>2. ASSUME Ready(k, busy), k.reasons = {} PROVE Lively(j, busy)
      <4>1. Going(r, TRUE, busy) BY <2>4, <3>2
      <4>2. Steered(r, FALSE) /\ HandedOn(r) BY <3>1, <4>1 DEF Going, Steered, HandedOn
      <4> QED BY <3>1, <4>1, <4>2 DEF Lively, Going
    <3> QED BY <2>2, <3>1, <3>2
  <2>6. CASE ~k.controlBackpressured
    <3>1. Kept(d, r) /\ (Going(r, TRUE, busy) => Dead(d) \/ (Going(d, TRUE, busy) /\ (Halted(d) \/ d.decoder = <<>>)))
      BY <2>2, <2>d, DrainFramesServes
    <3>2. SocketShaped(d) /\ d.browser BY <2>2, <3>1 DEF Kept, Seat
    <3>3. (j = d /\ (d.controlBackpressured \/ d.closing \/ d.destroyed)) \/ j = [d EXCEPT !.paused = FALSE]
      BY <2>3, <2>6
    <3>4. Kept(j, d)
      <4>1. ASSUME j = [d EXCEPT !.paused = FALSE] PROVE Kept(j, d)
        BY <3>2, <4>1, Unpaused, FlagsKeep
      <4> QED BY <3>2, <3>3, <4>1 DEF Kept, Seat
    <3>5. ASSUME Ready(k, busy), k.reasons = {} PROVE Lively(j, busy)
      <4>1. Dead(d) \/ (Going(d, TRUE, busy) /\ (Halted(d) \/ d.decoder = <<>>))
        BY <2>4, <3>1, <3>5
      <4> QED BY <3>2, <3>3, <4>1, ReadAgain
    <3> QED BY <2>2, <3>1, <3>4, <3>5, KeptBoth
  <2> QED BY <2>5, <2>6
<1> QED BY <1>1, <1>2

LEMMA UpdateReadFlowIs ==
  ASSUME NEW k, SocketShaped(k), Rows(k), NEW j, j = UpdateReadFlow(k), NEW busy
  PROVE  Kept(j, k) /\ (Ready(k, busy) => Lively(j, busy))
<1>1. CASE k.reasons # {}
  <2>1. j = Stopped(k) BY <1>1 DEF UpdateReadFlow
  <2>2. /\ Kept(j, k) /\ Line(j, k)
        /\ j.reasons = k.reasons /\ j.controlBackpressured = k.controlBackpressured
        /\ j.externallyPaused = k.browser /\ j.paused /\ j.needsDrain = k.needsDrain
    BY <2>1, StoppedIs
  <2>3. ASSUME Ready(k, busy) PROVE Going(j, FALSE, busy) /\ HandedOn(j)
    <3>1. Steered(j, FALSE) BY <1>1, <2>2, <2>3 DEF Ready, Steered, Kept, Seat, Line
    <3>2. InLine(j) BY <2>2, <2>3 DEF Ready, InLine, Kept, Seat, Line
    <3>3. Served(j, busy) BY <2>2, <2>3 DEF Ready, Served, Line
    <3>4. HandedOn(j) BY <2>2 DEF HandedOn, Kept, Seat
    <3> QED BY <3>1, <3>2, <3>3, <3>4 DEF Going
  <2> QED BY <2>2, <2>3 DEF Lively
<1>2. CASE k.reasons = {}
  <2>1. j = Resumed(k) BY <1>2 DEF UpdateReadFlow
  <2> QED BY <1>2, <2>1, ResumedIs
<1> QED BY <1>1, <1>2

-----------------------------------------------------------------------------
(* One socket, one step.                                                   *)

Addresses == Homes \cup {Proxy}
\* Before it is a session nothing is read of it
Early(k) == k.stage \in {"sniffing", "upgrading"} /\ ~k.destroyed
Fresh(k) ==
  /\ k.wire = <<>> /\ k.decoder = <<>> /\ k.queue = <<>> /\ k.handling = Nothing /\ k.sent = 0 /\ k.out = 0
  /\ k.reasons = {} /\ ~k.paused /\ ~k.externallyPaused /\ ~k.controlBackpressured /\ ~k.closing /\ ~k.closed
  /\ k.peer \in Addresses /\ (k.peer = Proxy => k.counted = {})
SocketInv(k) ==
  /\ SocketShaped(k) /\ Rows(k)
  /\ Early(k) => Fresh(k)
  /\ k.stage = "session" => Lively(k, FALSE)

LEMMA Carried ==
  ASSUME NEW k, SocketInv(k), NEW j, Kept(j, k), Early(k) => j.destroyed, k.stage = "session" => Lively(j, FALSE),
         k.destroyed => j.destroyed
  PROVE  SocketInv(j)
  BY DEF SocketInv, Kept, Seat, Early

LEMMA LostIs == ASSUME NEW k, SocketInv(k), NEW j, Kept(j, k), j.destroyed PROVE SocketInv(j)
  BY DEF SocketInv, Kept, Seat, Early, Lively, Dead

LEMMA GoneIs == SocketInv([NewSocket EXCEPT !.stage = "gone"]) /\ ~Alive([NewSocket EXCEPT !.stage = "gone"])
                /\ SocketInv(NewSocket) /\ ~Alive(NewSocket) /\ SocketShaped(NewSocket)
<1>g. PICK j : j = [NewSocket EXCEPT !.stage = "gone"] OBVIOUS
<1>1. SocketShaped(j) /\ SocketShaped(NewSocket) BY <1>g DEF NewSocket, SocketShaped
<1>2. Rows(j) /\ Rows(NewSocket) BY <1>g DEF NewSocket, Rows
<1>3. j.stage = "gone" /\ NewSocket.stage = "none" BY <1>g DEF NewSocket
<1> QED BY <1>1, <1>2, <1>3, <1>g DEF SocketInv, Early, Alive

StaysSocket(j, k) == SocketInv(j) /\ j.stage = k.stage /\ j.counted = k.counted
\* What a client says goes on the wire
Says(j, k, kind, odd) == j = [k EXCEPT !.sent = k.sent + 1, !.odd = odd, !.wire = Append(k.wire, [n |-> k.sent + 1, kind |-> kind])]
LEMMA SaysMore ==
  ASSUME NEW k, SocketInv(k), k.stage = "session", ~k.destroyed, NEW kind \in Kinds, NEW odd, NEW j, Says(j, k, kind, odd)
  PROVE  StaysSocket(j, k)
<1> SUFFICES ASSUME j = [k EXCEPT !.sent = k.sent + 1, !.odd = odd, !.wire = Append(k.wire, [n |-> k.sent + 1, kind |-> kind])]
             PROVE  SocketInv(j) /\ j.stage = k.stage /\ j.counted = k.counted
  BY DEF Says, StaysSocket
<1>p. PICK p : p = [n |-> k.sent + 1, kind |-> kind] OBVIOUS
<1>w. PICK w : w = Append(k.wire, p) OBVIOUS
<1>n. PICK n : n = k.sent + 1 OBVIOUS
<1>0. j = [k EXCEPT !.sent = n, !.odd = odd, !.wire = w] BY <1>p, <1>w, <1>n
<1>1. SocketShaped(k) /\ Rows(k) BY DEF SocketInv
<1>2. p \in Packets /\ p.n = k.sent + 1 /\ w \in Seq(Packets) /\ n \in Nat
  <2>1. p \in Packets /\ p.n = k.sent + 1 /\ n \in Nat BY <1>1, <1>p, <1>n DEF Rows, Packets
  <2> QED BY <1>1, <1>w, <2>1 DEF Rows
<1>3. SocketShaped(j) BY <1>0, <1>1 DEF SocketShaped
<1>4. /\ j.stage = k.stage /\ j.counted = k.counted /\ j.browser = k.browser /\ EndsAlike(j, k) /\ Flow(j, k)
  BY <1>0, <1>1 DEF SocketShaped, EndsAlike, Flow
<1>5. j.sent = n /\ j.wire = w /\ j.queue = k.queue /\ j.decoder = k.decoder /\ j.handling = k.handling /\ j.needsDrain = k.needsDrain
  BY <1>0, <1>1 DEF SocketShaped
<1>6. Rows(j) BY <1>1, <1>2, <1>5 DEF Rows
<1>7. ASSUME ~Dead(j) PROVE Going(j, FALSE, FALSE) /\ HandedOn(j)
  <2>1. Going(k, FALSE, FALSE) /\ HandedOn(k)
    BY <1>4, <1>7 DEF SocketInv, Lively, Dead, EndsAlike
  <2>2. Steered(j, FALSE) BY <1>4, <1>5, <2>1 DEF Going, Steered, Flow
  <2>3. Served(j, FALSE) BY <1>4, <1>5, <2>1 DEF Going, Served, Flow
  <2>4. HandedOn(j) BY <1>4, <1>5, <2>1 DEF HandedOn, Flow
  <2>5. InOrder(k.handling, k.queue, k.decoder, w, n) /\ (WithoutGap(k.handling, k.queue, k.wire, k.sent) => WithoutGap(k.handling, k.queue, w, n))
    BY <1>1, <1>2, <1>w, <1>n, <2>1, SentInOrder DEF Going, InLine, Rows
  <2>6. InLine(j) BY <1>4, <1>5, <2>1, <2>5 DEF Going, InLine
  <2> QED BY <2>1, <2>2, <2>3, <2>4, <2>6 DEF Going
<1> QED BY <1>3, <1>4, <1>6, <1>7 DEF SocketInv, Lively, Early

\* What was on the wire is read
LeavesUnread(read, k, r) == read = [k EXCEPT !.wire = r]
HearsAs(j, k, read, c) ==
  \/ ~k.browser /\ j = OnData(read, c)
  \/ k.browser /\ k.closing /\ j = read
  \/ k.browser /\ ~k.closing /\ j = DrainFrames([read EXCEPT !.decoder = k.decoder \o c])
LEMMA HearsMore ==
  ASSUME NEW k, SocketInv(k), k.stage = "session", ~k.destroyed, ~k.paused, NEW n \in 1..Len(k.wire),
         NEW c, NEW r, IsCut(c, r, k.wire, n), NEW read, LeavesUnread(read, k, r), NEW j, HearsAs(j, k, read, c)
  PROVE  StaysSocket(j, k)
<1> SUFFICES ASSUME read = [k EXCEPT !.wire = r],
                    \/ ~k.browser /\ j = OnData(read, c)
                    \/ k.browser /\ k.closing /\ j = read
                    \/ k.browser /\ ~k.closing /\ j = DrainFrames([read EXCEPT !.decoder = k.decoder \o c])
             PROVE  SocketInv(j) /\ j.stage = k.stage /\ j.counted = k.counted
  BY DEF HearsAs, LeavesUnread, StaysSocket
<1>1. SocketShaped(k) /\ Rows(k) BY DEF SocketInv
<1>2. c \in Seq(Packets) /\ r \in Seq(Packets) /\ c # <<>>
  <2>1. c \in Seq(Packets) /\ r \in Seq(Packets) /\ Len(c) = n BY <1>1, CutRow DEF Rows
  <2> QED BY <2>1
<1>3. SocketShaped(read) BY <1>1 DEF SocketShaped
<1>4. read.stage = k.stage /\ read.counted = k.counted /\ read.browser = k.browser /\ EndsAlike(read, k) /\ Flow(read, k)
  BY <1>1 DEF SocketShaped, EndsAlike, Flow
<1>5. read.sent = k.sent /\ read.wire = r /\ read.queue = k.queue /\ read.decoder = k.decoder /\ read.handling = k.handling /\ read.needsDrain = k.needsDrain
  BY <1>1 DEF SocketShaped
<1>6. Rows(read) BY <1>1, <1>2, <1>5 DEF Rows
<1>7. Kept(read, k) BY <1>3, <1>4, <1>6 DEF Kept, Seat, EndsAlike, Dead
<1>8. SUFFICES Kept(j, read) /\ (~Dead(k) => Lively(j, FALSE))
  <2>1. ASSUME Kept(j, read), ~Dead(k) => Lively(j, FALSE) PROVE Kept(j, k) /\ Lively(j, FALSE)
    <3>1. Kept(j, k) BY <1>7, <2>1, KeptBoth
    <3> QED BY <2>1, <3>1 DEF Kept, Seat, Lively
  <2>2. ~Early(k) BY DEF Early
  <2>3. ASSUME Kept(j, k), Lively(j, FALSE) PROVE SocketInv(j)
    BY <2>2, <2>3 DEF SocketInv, Kept, Seat, Early
  <2> QED BY <2>1, <2>3 DEF Kept, Seat
<1>9. ASSUME ~Dead(k) PROVE Going(k, FALSE, FALSE) /\ HandedOn(k) /\ Steered(read, FALSE) /\ Served(read, FALSE)
  <2>1. Going(k, FALSE, FALSE) /\ HandedOn(k) BY <1>9 DEF SocketInv, Lively
  <2>2. Steered(read, FALSE) BY <1>4, <1>5, <2>1 DEF Going, Steered, Flow
  <2>3. Served(read, FALSE) BY <1>4, <1>5, <2>1 DEF Going, Served, Flow
  <2> QED BY <2>1, <2>2, <2>3
<1>10. CASE ~k.browser /\ j = OnData(read, c)
  <2>1. Kept(j, read) BY <1>2, <1>3, <1>10, OnDataIs
  <2>2. ASSUME ~Dead(k) PROVE Lively(j, FALSE)
    <3>b. PICK b : b = k.queue \o c OBVIOUS
    <3>1. IsJoin(b, k.queue, c) /\ IsJoin(b, read.queue, c) BY <3>b, <1>5 DEF IsJoin
    <3>2. InOrder(k.handling, k.queue, k.decoder, k.wire, k.sent) /\ WithoutGap(k.handling, k.queue, k.wire, k.sent) /\ k.decoder = <<>>
      BY <1>9, <1>10, <2>2 DEF Going, InLine, Steered
    <3>3. WithoutGap(k.handling, b, r, k.sent) BY <1>1, <3>1, <3>2, ReadWithoutGap DEF Rows
    <3>4. InOrder(k.handling, b, k.decoder, r, k.sent)
      <4>1. InOrder(k.handling, b, <<>>, r, k.sent) BY <1>1, <3>1, <3>2, QueueReads DEF Rows
      <4> QED BY <3>2, <4>1
    <3>5. InOrder(read.handling, b, read.decoder, read.wire, read.sent) /\ WithoutGap(read.handling, b, read.wire, read.sent)
      BY <1>5, <3>3, <3>4
    <3>6. Steered(read, FALSE) /\ Served(read, FALSE) BY <1>9, <2>2
    <3>7. Dead(j) \/ Going(j, FALSE, FALSE)
      BY <1>2, <1>3, <1>6, <1>10, <3>1, <3>5, <3>6, OnDataServes
    <3>8. ~j.browser BY <1>4, <1>10, <2>1 DEF Kept, Seat
    <3> QED BY <3>7, <3>8 DEF Lively, HandedOn
  <2> QED BY <2>1, <2>2
<1>11. CASE k.browser /\ k.closing /\ j = read BY <1>3, <1>11 DEF Kept, Seat, Dead
<1>12. CASE k.browser /\ ~k.closing /\ j = DrainFrames([read EXCEPT !.decoder = k.decoder \o c])
  <2>d. PICK d : d = k.decoder \o c OBVIOUS
  <2>x. PICK x : x = [read EXCEPT !.decoder = d] OBVIOUS
  <2>1. SocketShaped(x) /\ LeftBy(x, read, d) BY <1>3, <2>x, DecoderIs DEF Unframed
  <2>2. d \in Seq(Packets) /\ IsJoin(d, k.decoder, c)
    BY <1>1, <1>2, <2>d, Joined DEF Rows, IsJoin
  <2>3. Rows(x) /\ x.browser BY <1>4, <1>6, <1>12, <2>1, <2>2 DEF LeftBy, Rows
  <2>4. Kept(x, read) BY <2>1, <2>3 DEF Kept, LeftBy, Seat, EndsAlike, Dead
  <2>5. j = DrainFrames(x) BY <1>12, <2>d, <2>x
  <2>6. Kept(j, x) /\ (Going(x, FALSE, FALSE) => Dead(j) \/ (Going(j, FALSE, FALSE) /\ (Halted(j) \/ j.decoder = <<>>)))
    BY <2>1, <2>3, <2>5, DrainFramesServes
  <2>7. ASSUME ~Dead(k) PROVE Lively(j, FALSE)
    <3>1. InOrder(k.handling, k.queue, d, r, k.sent)
      BY <1>1, <1>9, <2>2, <2>7, ReadInOrder DEF Rows, Going, InLine
    <3>2. InLine(x) BY <1>5, <2>1, <2>3, <3>1 DEF LeftBy, InLine
    <3>3. Steered(x, FALSE) BY <1>9, <2>1, <2>3, <2>7 DEF LeftBy, Steered, Flow
    <3>4. Served(x, FALSE) BY <1>9, <2>1, <2>7 DEF LeftBy, Served, Flow
    <3>5. Dead(j) \/ (Going(j, FALSE, FALSE) /\ (Halted(j) \/ j.decoder = <<>>))
      BY <2>6, <3>2, <3>3, <3>4 DEF Going
    <3> QED BY <3>5 DEF Lively, HandedOn, Halted, Dead
  <2> QED BY <2>4, <2>6, <2>7, KeptBoth
<1> QED BY <1>10, <1>11, <1>12

LEMMA HandledIs ==
  ASSUME NEW k, SocketShaped(k), NEW j, j = Handled(k)
  PROVE  /\ Kept(j, k)
         /\ Lively(k, FALSE) => Dead(j) \/ (Going(j, FALSE, FALSE) /\ HandedOn(j))
         /\ j.closed \/ j.handling = k.handling
<1>1. CASE j = k BY <1>1 DEF Kept, Seat, Lively
<1>2. CASE j = CloseSession(k, TRUE) \/ j = CloseSession(k, FALSE)
  <2>1. Kept(j, k) /\ Dead(j) /\ j.closed BY <1>2, CloseSessionIs
  <2> QED BY <2>1
<1>t. PICK t : t = (k.timers \ {"login"}) \cup {"idle"} OBVIOUS
<1>3. CASE j = [k EXCEPT !.authenticated = TRUE, !.timers = t]
  <2>1. SocketShaped(j) BY <1>3 DEF SocketShaped
  <2>2. Seat(j, k) /\ Line(j, k) /\ Flow(j, k) /\ EndsAlike(j, k) /\ j.needsDrain = k.needsDrain
    BY <1>3 DEF SocketShaped, Seat, Line, Flow, EndsAlike, Dead
  <2>3. Kept(j, k) BY <2>1, <2>2 DEF Kept, Line, Rows
  <2>4. ASSUME Going(k, FALSE, FALSE), HandedOn(k) PROVE Going(j, FALSE, FALSE) /\ HandedOn(j)
    <3>1. Steered(j, FALSE) /\ HandedOn(j)
      BY <2>2, <2>4 DEF Going, Steered, HandedOn, Seat, Line, Flow
    <3>2. InLine(j) BY <2>2, <2>4 DEF Going, InLine, Seat, Line
    <3>3. Served(j, FALSE) BY <2>2, <2>4 DEF Going, Served, Line, Flow
    <3> QED BY <3>1, <3>2, <3>3 DEF Going
  <2> QED BY <2>2, <2>3, <2>4 DEF Lively, Line, Seat
<1>4. j = k \/ j = CloseSession(k, TRUE) \/ j = CloseSession(k, FALSE) \/ j = [k EXCEPT !.authenticated = TRUE, !.timers = t]
  BY <1>t DEF Handled
<1> QED BY <1>1, <1>2, <1>3, <1>4

LEMMA ReasonedIs ==
  ASSUME NEW k, SocketShaped(k), NEW rs, NEW j, j = [k EXCEPT !.reasons = rs]
  PROVE  SocketShaped(j) /\ Fed(j, k, k.handling, k.queue, rs) /\ Kept(j, k)
<1>1. SocketShaped(j) /\ Fed(j, k, k.handling, k.queue, rs) BY ReasonsAre
<1>2. Kept(j, k) BY <1>1 DEF Fed, Kept, Seat, Rows, EndsAlike, Dead
<1> QED BY <1>1, <1>2

\* While a packet is still in hand, the queue behind it is short again or is not empty
LEMMA EasedIs ==
  ASSUME NEW k, SocketShaped(k), Rows(k), NEW j, j = Eased(k)
  PROVE  /\ Kept(j, k)
         /\ Lively(k, FALSE) /\ k.handling # Nothing => Lively(j, TRUE)
<1>1. CASE ~(Len(k.queue) <= ResumeAt)
  <2>1. j = k BY <1>1 DEF Eased
  <2>2. k.queue # <<>> BY <1>1, ConnectionsAssumption
  <2>3. ASSUME Going(k, FALSE, FALSE), k.handling # Nothing PROVE Going(k, FALSE, TRUE)
    BY <2>2, <2>3 DEF Going, Served
  <2> QED BY <2>1, <2>3 DEF Kept, Seat, Lively
<1>2. CASE Len(k.queue) <= ResumeAt
  <2>s. PICK rs : rs = k.reasons \ {"queue"} OBVIOUS
  <2>r. PICK r : r = [k EXCEPT !.reasons = rs] OBVIOUS
  <2>1. j = UpdateReadFlow(r) BY <1>2, <2>s, <2>r DEF Eased
  <2>2. SocketShaped(r) /\ Fed(r, k, k.handling, k.queue, rs) /\ Kept(r, k) BY <2>r, ReasonedIs
  <2>3. Rows(r) BY <2>2 DEF Kept
  <2>4. Kept(j, r) /\ (Ready(r, TRUE) => Lively(j, TRUE)) BY <2>1, <2>2, <2>3, UpdateReadFlowIs
  <2>5. ASSUME Lively(k, FALSE), k.handling # Nothing PROVE Lively(j, TRUE)
    <3>1. CASE Dead(k) BY <2>2, <2>4, <3>1 DEF Kept, Seat, Lively
    <3>2. CASE ~Dead(k)
      <4>1. Going(k, FALSE, FALSE) BY <2>5, <3>2 DEF Lively
      <4>2. InLine(r) BY <2>2, <4>1 DEF Fed, Going, InLine
      <4>3. Served(r, TRUE) BY <2>2, <2>5, <2>s DEF Fed, Served
      <4>4. "write" \in r.reasons \/ r.controlBackpressured => r.needsDrain
        BY <2>2, <4>1, <2>s DEF Fed, Going, Steered
      <4>5. ~r.browser => r.decoder = <<>> /\ ~r.controlBackpressured /\ ~r.externallyPaused
        BY <2>2, <4>1 DEF Fed, Going, Steered
      <4> QED BY <2>4, <4>2, <4>3, <4>4, <4>5 DEF Ready
    <3> QED BY <3>1, <3>2
  <2> QED BY <2>2, <2>4, <2>5, KeptBoth
<1> QED BY <1>1, <1>2

\* What is in hand is done
LEMMA DoneIs ==
  ASSUME NEW k, SocketShaped(k), NEW j, j = [k EXCEPT !.handling = Nothing]
  PROVE  SocketShaped(j) /\ Fed(j, k, Nothing, k.queue, k.reasons) /\ Kept(j, k)
<1>1. SocketShaped(j) /\ Fed(j, k, Nothing, k.queue, k.reasons)
  BY DEF SocketShaped, Fed, EndsAlike
<1>2. Kept(j, k) BY <1>1 DEF Fed, Kept, Seat, Rows, EndsAlike, Dead
<1> QED BY <1>1, <1>2

EndsAs(j, k, h) ==
  \/ (k.closed \/ h.closed) /\ j = [h EXCEPT !.handling = Nothing]
  \/ ~k.closed /\ ~h.closed /\ j = TakesNext([Eased(h) EXCEPT !.handling = Nothing])
LEMMA EndsOne ==
  ASSUME NEW k, SocketInv(k), k.stage = "session", k.handling # Nothing, NEW h, h = Handled(k), NEW j, EndsAs(j, k, h)
  PROVE  StaysSocket(j, k)
<1> SUFFICES ASSUME \/ (k.closed \/ h.closed) /\ j = [h EXCEPT !.handling = Nothing]
                    \/ ~k.closed /\ ~h.closed /\ j = TakesNext([Eased(h) EXCEPT !.handling = Nothing])
             PROVE  SocketInv(j) /\ j.stage = k.stage /\ j.counted = k.counted
  BY DEF EndsAs, StaysSocket
<1>1. SocketShaped(k) /\ Rows(k) /\ Lively(k, FALSE) BY DEF SocketInv
<1>2. Kept(h, k) /\ (Dead(h) \/ (Going(h, FALSE, FALSE) /\ HandedOn(h))) /\ (h.closed \/ h.handling = k.handling)
  BY <1>1, HandledIs
<1>3. SocketShaped(h) /\ Rows(h) BY <1>1, <1>2 DEF Kept
<1>4. SUFFICES Kept(j, k) /\ Lively(j, FALSE)
  <2>1. ASSUME Kept(j, k), Lively(j, FALSE) PROVE SocketInv(j)
    BY <1>1, <2>1 DEF SocketInv, Kept, Seat, Early
  <2> QED BY <2>1 DEF Kept, Seat
<1>5. CASE (h.closed \/ k.closed) /\ j = [h EXCEPT !.handling = Nothing]
  <2>1. Kept(j, h) BY <1>3, <1>5, DoneIs
  <2>2. Dead(h) BY <1>2, <1>5 DEF Kept, Seat, Dead
  <2>3. Dead(j) BY <2>1, <2>2 DEF Kept, Seat
  <2> QED BY <1>2, <2>1, <2>3, KeptBoth DEF Lively
<1>6. CASE ~k.closed /\ ~h.closed /\ j = TakesNext([Eased(h) EXCEPT !.handling = Nothing])
  <2>e. PICK e : e = Eased(h) OBVIOUS
  <2>n. PICK n : n = [e EXCEPT !.handling = Nothing] OBVIOUS
  <2>1. Kept(e, h) /\ Lively(e, TRUE) BY <1>2, <1>3, <1>6, <2>e, EasedIs DEF Lively
  <2>2. SocketShaped(e) BY <2>1 DEF Kept
  <2>3. SocketShaped(n) /\ Fed(n, e, Nothing, e.queue, e.reasons) /\ Kept(n, e)
    BY <2>2, <2>n, DoneIs
  <2>4. j = TakesNext(n) BY <1>6, <2>e, <2>n
  <2>5. Kept(j, n) BY <2>3, <2>4, TakesNextIs
  <2>6. Kept(n, k) /\ Rows(n)
    <3>1. Kept(n, h) BY <2>1, <2>3, KeptBoth
    <3>2. Kept(n, k) BY <1>2, <3>1, KeptBoth
    <3> QED BY <1>1, <3>2 DEF Kept
  <2>7. Kept(j, k) BY <2>5, <2>6, KeptBoth
  <2>8. CASE Dead(e) BY <2>3, <2>5, <2>7, <2>8 DEF Kept, Seat, Lively
  <2>9. CASE ~Dead(e)
    <3>1. Going(e, FALSE, TRUE) /\ HandedOn(e) BY <2>1, <2>9 DEF Lively
    <3>2. Steered(n, FALSE) BY <2>3, <3>1 DEF Fed, Going, Steered
    <3>3. InLine(n)
      <4>1. InOrder(Nothing, e.queue, e.decoder, e.wire, e.sent)
        BY <3>1 DEF Going, InLine, InOrder, First
      <4>2. ~e.browser => WithoutGap(Nothing, e.queue, e.wire, e.sent)
        BY <3>1 DEF Going, InLine, WithoutGap
      <4> QED BY <2>3, <4>1, <4>2 DEF Fed, InLine
    <3>4. ToServe(n, FALSE) BY <2>3, <3>1 DEF Fed, Going, Served, ToServe
    <3>5. ~n.closed BY <2>3, <2>9 DEF Fed, EndsAlike, Dead
    <3>6. Going(j, FALSE, FALSE) BY <2>3, <2>4, <2>6, <3>2, <3>3, <3>4, <3>5, TakesNextServes
    <3>7. HandedOn(j)
      <4>1. HandedOn(n) BY <2>3, <3>1 DEF Fed, HandedOn
      <4>2. j.browser = n.browser /\ j.decoder = n.decoder /\ j.externallyPaused = n.externallyPaused /\ j.controlBackpressured = n.controlBackpressured
        BY <2>3, <2>4 DEF TakesNext, SocketShaped
      <4> QED BY <4>1, <4>2 DEF HandedOn
    <3> QED BY <2>7, <3>6, <3>7 DEF Lively
  <2> QED BY <2>8, <2>9
<1> QED BY <1>5, <1>6

\* Whatever is noted beside the line and the flow of a session
LEMMA SameLives == ASSUME NEW k, SocketShaped(k), NEW j, SocketShaped(j), Same(j, k), k.needsDrain => j.needsDrain, NEW busy
                   PROVE  Kept(j, k) /\ (Lively(k, busy) => Lively(j, busy))
<1>1. Kept(j, k) BY SameIsKept
<1>2. ASSUME Going(k, FALSE, busy), HandedOn(k) PROVE Going(j, FALSE, busy) /\ HandedOn(j)
  <2>1. Steered(j, FALSE) /\ HandedOn(j)
    BY <1>2 DEF Going, Steered, HandedOn, Same, Seat, Line, Flow
  <2>2. InLine(j) BY <1>2 DEF Going, InLine, Same, Seat, Line
  <2>3. Served(j, busy) BY <1>2 DEF Going, Served, Same, Line, Flow
  <2> QED BY <2>1, <2>2, <2>3 DEF Going
<1> QED BY <1>1, <1>2 DEF Lively, Same, Seat

LEMMA SendsIs == ASSUME NEW k, SocketShaped(k), NEW x, NEW j, j = [k EXCEPT !.sends = x]
                 PROVE  SocketShaped(j) /\ Same(j, k) /\ j.needsDrain = k.needsDrain
<1>1. SocketShaped(j) BY DEF SocketShaped
<1>2. Seat(j, k) /\ EndsAlike(j, k) BY DEF SocketShaped, Seat, EndsAlike, Dead
<1>3. Line(j, k) /\ Flow(j, k) /\ j.needsDrain = k.needsDrain BY DEF SocketShaped, Line, Flow
<1> QED BY <1>1, <1>2, <1>3 DEF Same

\* A reason more to stop, or one less, and reading is looked at again
LEMMA Reconsidered ==
  ASSUME NEW k, SocketInv(k), k.stage = "session", ~k.destroyed,
         NEW m, SocketShaped(m), Same(m, k), k.needsDrain => m.needsDrain,
         NEW rs, "queue" \in rs => "queue" \in k.reasons, "write" \in rs => "write" \in k.reasons \/ m.needsDrain,
         NEW r, r = [m EXCEPT !.reasons = rs], NEW j, j = UpdateReadFlow(r)
  PROVE  SocketInv(j) /\ j.stage = k.stage /\ j.counted = k.counted
<1>1. SocketShaped(k) /\ Rows(k) /\ Lively(k, FALSE) BY DEF SocketInv
<1>2. Kept(m, k) /\ Lively(m, FALSE) BY <1>1, SameLives
<1>3. SocketShaped(r) /\ Fed(r, m, m.handling, m.queue, rs) /\ Kept(r, m) BY ReasonedIs
<1>4. Kept(r, k) /\ Rows(r) BY <1>1, <1>2, <1>3, KeptBoth DEF Kept
<1>5. Kept(j, r) /\ (Ready(r, FALSE) => Lively(j, FALSE)) BY <1>3, <1>4, UpdateReadFlowIs
<1>6. Kept(j, k) BY <1>4, <1>5, KeptBoth
<1>7. Lively(j, FALSE)
  <2>1. CASE Dead(m) BY <1>3, <1>5, <2>1 DEF Kept, Seat, Lively
  <2>2. CASE ~Dead(m)
    <3>1. Going(m, FALSE, FALSE) BY <1>2, <2>2 DEF Lively
    <3>2. InLine(r) BY <1>3, <3>1 DEF Fed, Going, InLine
    <3>3. Served(r, FALSE) BY <1>3, <3>1 DEF Fed, Going, Served, Same, Flow
    <3>4. "write" \in r.reasons \/ r.controlBackpressured => r.needsDrain
      BY <1>3, <3>1 DEF Fed, Going, Steered, Same, Flow
    <3>5. ~r.browser => r.decoder = <<>> /\ ~r.controlBackpressured /\ ~r.externallyPaused
      BY <1>3, <3>1 DEF Fed, Going, Steered
    <3> QED BY <1>5, <3>2, <3>3, <3>4, <3>5 DEF Ready
  <2> QED BY <2>1, <2>2
<1> QED BY <1>1, <1>6, <1>7 DEF SocketInv, Kept, Seat, Early

\* What a session sends
SendsAs(j, k, w) ==
  \/ j = CloseSession(k, FALSE)
  \/ k.closing /\ j = UpdateReadFlow([k EXCEPT !.reasons = @ \cup {"write"}, !.sends = @ + 1])
  \/ k.out + 1 >= HighWater /\ j = UpdateReadFlow([w EXCEPT !.reasons = @ \cup {"write"}])
  \/ j = w
CountsSend(m, k) == m = [k EXCEPT !.sends = @ + 1]
LEMMA SendsOne ==
  ASSUME NEW k, SocketInv(k), k.stage = "session", ~k.closed, ~k.destroyed, NEW m, CountsSend(m, k), NEW w, w = Wrote(m),
         NEW j, SendsAs(j, k, w)
  PROVE  StaysSocket(j, k)
<1> SUFFICES ASSUME m = [k EXCEPT !.sends = @ + 1],
                    \/ j = CloseSession(k, FALSE)
                    \/ k.closing /\ j = UpdateReadFlow([k EXCEPT !.reasons = @ \cup {"write"}, !.sends = @ + 1])
                    \/ k.out + 1 >= HighWater /\ j = UpdateReadFlow([w EXCEPT !.reasons = @ \cup {"write"}])
                    \/ j = w
             PROVE  SocketInv(j) /\ j.stage = k.stage /\ j.counted = k.counted
  BY DEF SendsAs, CountsSend, StaysSocket
<1>1. SocketShaped(k) /\ Rows(k) /\ Lively(k, FALSE) BY DEF SocketInv
<1>2. SocketShaped(m) /\ Same(m, k) /\ m.needsDrain = k.needsDrain
  <2>x. PICK x : x = k.sends + 1 OBVIOUS
  <2>1. m = [k EXCEPT !.sends = x] BY <2>x
  <2> QED BY <1>1, <2>1, SendsIs
<1>3. SocketShaped(w) /\ Same(w, m) /\ (m.needsDrain => w.needsDrain) /\ (m.out + 1 >= HighWater => w.needsDrain)
  BY <1>2, WroteIs
<1>4. Same(w, k) /\ (k.needsDrain => w.needsDrain)
  <2>1. Seat(w, k) BY <1>2, <1>3 DEF Same, Seat
  <2>2. Line(w, k) BY <1>2, <1>3 DEF Same, Line
  <2>3. Flow(w, k) BY <1>2, <1>3 DEF Same, Flow
  <2>4. EndsAlike(w, k) BY <1>2, <1>3 DEF Same, EndsAlike
  <2> QED BY <1>2, <1>3, <2>1, <2>2, <2>3, <2>4 DEF Same
<1>5. CASE j = CloseSession(k, FALSE)
  <2>1. Kept(j, k) /\ Dead(j) BY <1>1, <1>5, CloseSessionIs
  <2> QED BY <1>1, <2>1 DEF SocketInv, Kept, Seat, Early, Lively
<1>6. CASE k.closing /\ j = UpdateReadFlow([k EXCEPT !.reasons = @ \cup {"write"}, !.sends = @ + 1])
  <2>s. PICK rs : rs = k.reasons \cup {"write"} OBVIOUS
  <2>x. PICK x : x = k.sends + 1 OBVIOUS
  <2>r. PICK r : r = [k EXCEPT !.reasons = rs, !.sends = x] OBVIOUS
  <2>1. j = UpdateReadFlow(r) BY <1>6, <2>s, <2>x, <2>r
  <2>2. SocketShaped(r) BY <1>1, <2>r DEF SocketShaped
  <2>3. Seat(r, k) /\ Line(r, k) BY <1>1, <2>r DEF SocketShaped, Seat, Line, Dead
  <2>4. Kept(r, k) /\ Rows(r) BY <1>1, <2>2, <2>3 DEF Kept, Line, Rows
  <2>5. Kept(j, r) BY <2>1, <2>2, <2>4, UpdateReadFlowIs
  <2>6. Kept(j, k) BY <2>4, <2>5, KeptBoth
  <2>7. Dead(k) BY <1>6 DEF Dead
  <2> QED BY <1>1, <2>6, <2>7 DEF SocketInv, Kept, Seat, Early, Lively
<1>7. CASE k.out + 1 >= HighWater /\ j = UpdateReadFlow([w EXCEPT !.reasons = @ \cup {"write"}])
  <2>s. PICK rs : rs = w.reasons \cup {"write"} OBVIOUS
  <2>r. PICK r : r = [w EXCEPT !.reasons = rs] OBVIOUS
  <2>1. j = UpdateReadFlow(r) BY <1>7, <2>s, <2>r
  <2>2. w.needsDrain
    <3>1. m.out = k.out BY <1>1 DEF SocketShaped
    <3> QED BY <1>3, <1>7, <3>1
  <2>3. "queue" \in rs => "queue" \in k.reasons BY <1>4, <2>s DEF Same, Flow
  <2> QED BY <1>3, <1>4, <2>r, <2>1, <2>2, <2>3, Reconsidered
<1>8. CASE j = w
  <2>1. Kept(j, k) /\ Lively(j, FALSE) BY <1>1, <1>3, <1>4, <1>8, SameLives
  <2> QED BY <1>1, <2>1 DEF SocketInv, Kept, Seat, Early
<1> QED BY <1>5, <1>6, <1>7, <1>8

\* A worker that is slow, or is so no longer
WorkerAs(j, k, rs, x) == j = UpdateReadFlow([k EXCEPT !.reasons = rs, !.sends = x])
LEMMA WorkerPauses ==
  ASSUME NEW k, SocketInv(k), k.stage = "session", ~k.destroyed, NEW rs, NEW x,
         rs \ {"worker"} = k.reasons \ {"worker"}, NEW j, WorkerAs(j, k, rs, x)
  PROVE  StaysSocket(j, k)
<1> SUFFICES ASSUME j = UpdateReadFlow([k EXCEPT !.reasons = rs, !.sends = x])
             PROVE  SocketInv(j) /\ j.stage = k.stage /\ j.counted = k.counted
  BY DEF WorkerAs, StaysSocket
<1>1. SocketShaped(k) BY DEF SocketInv
<1>m. PICK m : m = [k EXCEPT !.sends = x] OBVIOUS
<1>r. PICK r : r = [m EXCEPT !.reasons = rs] OBVIOUS
<1>2. SocketShaped(m) /\ Same(m, k) /\ m.needsDrain = k.needsDrain BY <1>1, <1>m, SendsIs
<1>3. r = [k EXCEPT !.reasons = rs, !.sends = x] BY <1>1, <1>m, <1>r DEF SocketShaped
<1>4. ("queue" \in rs => "queue" \in k.reasons) /\ ("write" \in rs => "write" \in k.reasons)
  OBVIOUS
<1>5. j = UpdateReadFlow(r) BY <1>3
<1> QED BY <1>2, <1>4, <1>5, <1>r, Reconsidered

-----------------------------------------------------------------------------
(* The stream empties.                                                     *)

\* What the session's own handler leaves for that of a browser's stream: it may be clogged although nothing drains
Loosened(l) ==
  \/ Dead(l)
  \/ /\ InLine(l) /\ Served(l, FALSE) /\ ("write" \in l.reasons => l.needsDrain)
     /\ l.browser => (l.externallyPaused <=> l.reasons # {})
     /\ ~l.browser => l.decoder = <<>> /\ ~l.controlBackpressured /\ ~l.externallyPaused
     /\ ~l.controlBackpressured => Lively(l, FALSE)

LEMMA Loosens ==
  ASSUME NEW k, NEW f, SocketShaped(k), Rows(k), Lively(k, FALSE), SocketShaped(f), Same(f, k), ~k.closed,
         NEW l, l = UpdateReadFlow([f EXCEPT !.reasons = @ \ {"write"}])
  PROVE  Loosened(l)
<1>s. PICK rs : rs = f.reasons \ {"write"} OBVIOUS
<1>r. PICK r : r = [f EXCEPT !.reasons = rs] OBVIOUS
<1>1. l = UpdateReadFlow(r) BY <1>s, <1>r
<1>2. SocketShaped(r) /\ Fed(r, f, f.handling, f.queue, rs) /\ Kept(r, f) BY <1>r, ReasonedIs
<1>3. Kept(f, k) BY SameIsKept
<1>4. Rows(r) BY <1>2, <1>3 DEF Kept
<1>5. Kept(l, r) /\ (Ready(r, FALSE) => Lively(l, FALSE)) BY <1>1, <1>2, <1>4, UpdateReadFlowIs
<1>6. CASE Dead(k) BY <1>2, <1>3, <1>5, <1>6 DEF Kept, Seat, Loosened
<1>7. CASE ~Dead(k)
  <2>1. Going(k, FALSE, FALSE) BY <1>7 DEF Lively
  <2>2. InLine(r) BY <1>2, <2>1 DEF Fed, Going, InLine, Same, Seat, Line
  <2>3. Served(r, FALSE) BY <1>2, <1>s, <2>1 DEF Fed, Going, Served, Same, Line, Flow
  <2>4. "write" \notin r.reasons BY <1>2, <1>s DEF Fed
  <2>5. ~r.browser => r.decoder = <<>> /\ ~r.controlBackpressured /\ ~r.externallyPaused
    BY <1>2, <2>1 DEF Fed, Going, Steered, Same, Seat, Line, Flow
  <2>6. CASE ~r.controlBackpressured
    <3>1. Lively(l, FALSE) BY <1>5, <2>2, <2>3, <2>4, <2>5, <2>6 DEF Ready
    <3>2. ASSUME ~Dead(l) PROVE /\ InLine(l) /\ Served(l, FALSE) /\ ("write" \in l.reasons => l.needsDrain)
                                /\ l.browser => (l.externallyPaused <=> l.reasons # {})
                                /\ ~l.browser => l.decoder = <<>> /\ ~l.controlBackpressured /\ ~l.externallyPaused
      BY <3>1, <3>2 DEF Lively, Going, Steered
    <3> QED BY <3>1, <3>2 DEF Loosened
  <2>7. CASE r.controlBackpressured /\ rs # {}
    <3>1. l = Stopped(r) BY <1>1, <1>2, <2>7 DEF UpdateReadFlow, Fed
    <3>2. /\ Line(l, r) /\ l.reasons = r.reasons /\ l.controlBackpressured = r.controlBackpressured
          /\ l.externallyPaused = r.browser /\ l.browser = r.browser
      BY <1>2, <3>1, StoppedIs DEF Kept, Seat
    <3>3. InLine(l) BY <2>2, <3>2 DEF InLine, Line
    <3>4. Served(l, FALSE) /\ "write" \notin l.reasons BY <2>3, <2>4, <3>2 DEF Served, Line
    <3>5. l.browser /\ l.externallyPaused /\ l.reasons # {} BY <1>2, <2>5, <2>7, <3>2 DEF Fed
    <3> QED BY <2>7, <3>2, <3>3, <3>4, <3>5 DEF Loosened
  <2>8. CASE r.controlBackpressured /\ rs = {}
    <3>1. r.browser /\ r.reasons = {} BY <1>2, <2>5, <2>8 DEF Fed
    <3>2. l = [r EXCEPT !.externallyPaused = FALSE]
      BY <1>1, <2>8, <3>1 DEF UpdateReadFlow, Resumed
    <3>3. FlagsAre(l, r, r.paused, FALSE, r.controlBackpressured) BY <1>2, <3>2, Let_go
    <3>4. InLine(l) BY <2>2, <3>3 DEF FlagsAre, InLine, Line, Seat
    <3>5. Served(l, FALSE) /\ l.reasons = {} BY <2>3, <3>1, <3>3 DEF FlagsAre, Served, Line
    <3>6. l.browser /\ ~l.externallyPaused /\ l.controlBackpressured
      BY <2>8, <3>1, <3>3 DEF FlagsAre, Seat
    <3> QED BY <3>4, <3>5, <3>6 DEF Loosened
  <2> QED BY <2>6, <2>7, <2>8
<1> QED BY <1>6, <1>7

\* The handler of the stream itself hands on the frames that waited for it
LEMMA Unclogs ==
  ASSUME NEW l, SocketShaped(l), Rows(l), l.controlBackpressured, ~l.closing, NEW x, x = [l EXCEPT !.controlBackpressured = FALSE],
         NEW d, d = DrainFrames(x), NEW j,
         j = IF l.externallyPaused THEN x
             ELSE IF d.controlBackpressured \/ d.externallyPaused \/ d.destroyed THEN d ELSE [d EXCEPT !.paused = FALSE]
  PROVE  Kept(j, l) /\ (Loosened(l) => Lively(j, FALSE))
<1>1. FlagsAre(x, l, l.paused, l.externallyPaused, FALSE) BY Unclogged
<1>2. Kept(x, l) /\ SocketShaped(x) BY <1>1, FlagsKeep
<1>3. CASE l.externallyPaused
  <2>1. j = x BY <1>3
  <2>2. ASSUME Loosened(l), ~Dead(l) PROVE Going(x, FALSE, FALSE) /\ HandedOn(x)
    <3>0. l.browser /\ l.reasons # {} BY <1>3, <2>2 DEF Loosened
    <3>1. Steered(x, FALSE) /\ HandedOn(x)
      BY <1>1, <1>3, <2>2, <3>0 DEF FlagsAre, Loosened, Steered, HandedOn, Seat
    <3>2. InLine(x) BY <1>1, <2>2 DEF FlagsAre, Loosened, InLine, Seat, Line
    <3>3. Served(x, FALSE) BY <1>1, <2>2 DEF FlagsAre, Loosened, Served, Line
    <3> QED BY <3>1, <3>2, <3>3 DEF Going
  <2> QED BY <1>2, <2>1, <2>2 DEF Lively, Kept, Seat
<1>4. CASE ~l.externallyPaused
  <2>0. Rows(x) BY <1>2 DEF Kept
  <2>1. Kept(d, x) /\ (x.browser /\ Going(x, TRUE, FALSE) => Dead(d) \/ (Going(d, TRUE, FALSE) /\ (Halted(d) \/ d.decoder = <<>>)))
    BY <1>2, <2>0, DrainFramesServes
  <2>2. SocketShaped(d) BY <2>1 DEF Kept
  <2>3. (j = d /\ (d.controlBackpressured \/ d.externallyPaused \/ d.closing \/ d.destroyed)) \/ j = [d EXCEPT !.paused = FALSE]
    BY <1>4
  <2>4. Kept(j, d)
    <3>1. ASSUME j = [d EXCEPT !.paused = FALSE] PROVE Kept(j, d)
      BY <2>2, <3>1, Unpaused, FlagsKeep
    <3> QED BY <2>2, <2>3, <3>1 DEF Kept, Seat
  <2>5. Kept(j, l) BY <1>2, <2>1, <2>4, KeptBoth
  <2>6. ASSUME Loosened(l), ~Dead(l) PROVE Lively(j, FALSE)
    <3>0. l.browser /\ x.browser /\ d.browser BY <1>2, <2>1, <2>6 DEF Loosened, Kept, Seat
    <3>1. Steered(x, TRUE) BY <1>1, <2>6, <3>0 DEF FlagsAre, Loosened, Steered
    <3>2. InLine(x) BY <1>1, <2>6 DEF FlagsAre, Loosened, InLine, Seat, Line
    <3>3. Served(x, FALSE) BY <1>1, <2>6 DEF FlagsAre, Loosened, Served, Line
    <3>4. Dead(d) \/ (Going(d, TRUE, FALSE) /\ (Halted(d) \/ d.decoder = <<>>))
      BY <2>1, <3>0, <3>1, <3>2, <3>3 DEF Going
    <3> QED BY <2>2, <2>3, <3>0, <3>4, ReadAgain
  <2> QED BY <2>5, <2>6 DEF Lively, Kept, Seat
<1> QED BY <1>3, <1>4

LEMMA DrainsOne ==
  ASSUME NEW k, SocketShaped(k), Rows(k), NEW f, SocketShaped(f), Same(f, k), NEW j, j = Drained(f)
  PROVE  Kept(j, k) /\ (Lively(k, FALSE) => Lively(j, FALSE))
<1>l. PICK l : l = IF f.closed THEN f ELSE UpdateReadFlow([f EXCEPT !.reasons = @ \ {"write"}])
  <2>1. CASE f.closed BY <2>1
  <2>2. CASE ~f.closed BY <2>2
  <2> QED BY <2>1, <2>2
<1>x. PICK x : x = [l EXCEPT !.controlBackpressured = FALSE] OBVIOUS
<1>d. PICK d : d = DrainFrames(x) OBVIOUS
<1>0. Kept(f, k) /\ Rows(f) BY SameIsKept DEF Kept
<1>1. Kept(l, f) /\ (Lively(k, FALSE) => Loosened(l))
  <2>1. CASE f.closed
    <3>1. l = f /\ Dead(f) BY <1>l, <2>1 DEF Dead
    <3> QED BY <3>1 DEF Kept, Seat, Loosened
  <2>2. CASE ~f.closed
    <3>s. PICK rs : rs = f.reasons \ {"write"} OBVIOUS
    <3>r. PICK r : r = [f EXCEPT !.reasons = rs] OBVIOUS
    <3>1. l = UpdateReadFlow([f EXCEPT !.reasons = @ \ {"write"}]) BY <1>l, <2>2
    <3>2. l = UpdateReadFlow(r) BY <3>1, <3>s, <3>r
    <3>3. SocketShaped(r) /\ Kept(r, f) BY <3>r, ReasonedIs
    <3>4. Rows(r) BY <1>0, <3>3 DEF Kept
    <3>5. Kept(l, f) BY <3>2, <3>3, <3>4, UpdateReadFlowIs, KeptBoth
    <3>6. ~k.closed BY <2>2 DEF Same, EndsAlike
    <3> QED BY <3>1, <3>5, <3>6, Loosens
  <2> QED BY <2>1, <2>2
<1>2. SocketShaped(l) /\ Rows(l) /\ Kept(l, k) BY <1>0, <1>1, KeptBoth DEF Kept
<1>3. j = IF ~l.controlBackpressured \/ l.closing THEN l
          ELSE IF l.externallyPaused THEN x
          ELSE IF d.controlBackpressured \/ d.externallyPaused \/ d.destroyed THEN d ELSE [d EXCEPT !.paused = FALSE]
  BY <1>l, <1>x, <1>d DEF Drained
<1>4. CASE ~l.controlBackpressured \/ l.closing
  <2>1. j = l BY <1>3, <1>4
  <2> QED BY <1>1, <1>2, <1>4, <2>1 DEF Loosened, Lively, Dead
<1>5. CASE l.controlBackpressured /\ ~l.closing
  <2>1. j = IF l.externallyPaused THEN x
            ELSE IF d.controlBackpressured \/ d.externallyPaused \/ d.destroyed THEN d ELSE [d EXCEPT !.paused = FALSE]
    BY <1>3, <1>5
  <2>2. Kept(j, l) /\ (Loosened(l) => Lively(j, FALSE)) BY <1>2, <1>5, <1>x, <1>d, <2>1, Unclogs
  <2> QED BY <1>1, <1>2, <2>2, KeptBoth
<1> QED BY <1>4, <1>5

Emptied(f, k) == f = [k EXCEPT !.out = 0, !.needsDrain = FALSE]
EmptiesAs(j, k, f) ==
  \/ j = Destroyed(f)
  \/ j = Drained(f)
  \/ ~k.needsDrain /\ j = f
LEMMA EmptiesOne ==
  ASSUME NEW k, SocketInv(k), k.out > 0, ~k.destroyed, NEW f, Emptied(f, k), NEW j, EmptiesAs(j, k, f)
  PROVE  StaysSocket(j, k)
<1> SUFFICES ASSUME f = [k EXCEPT !.out = 0, !.needsDrain = FALSE],
                    \/ j = Destroyed(f)
                    \/ j = Drained(f)
                    \/ ~k.needsDrain /\ j = f
             PROVE  SocketInv(j) /\ j.stage = k.stage /\ j.counted = k.counted
  BY DEF Emptied, EmptiesAs, StaysSocket
<1>1. SocketShaped(k) /\ Rows(k) BY DEF SocketInv
<1>2. ~Early(k) BY DEF SocketInv, Fresh
<1>3. SocketShaped(f) /\ Same(f, k)
  <2>1. SocketShaped(f) BY <1>1 DEF SocketShaped
  <2>2. Seat(f, k) /\ EndsAlike(f, k) BY <1>1 DEF SocketShaped, Seat, EndsAlike, Dead
  <2>3. Line(f, k) /\ Flow(f, k) BY <1>1 DEF SocketShaped, Line, Flow
  <2> QED BY <2>1, <2>2, <2>3 DEF Same
<1>4. SUFFICES Kept(j, k) /\ (Lively(k, FALSE) => Lively(j, FALSE))
  <2>1. ASSUME Kept(j, k), Lively(k, FALSE) => Lively(j, FALSE) PROVE SocketInv(j)
    BY <1>1, <1>2, <2>1 DEF SocketInv, Kept, Seat, Early
  <2> QED BY <2>1 DEF Kept, Seat
<1>5. CASE j = Destroyed(f)
  <2>1. Kept(j, f) /\ Dead(j) BY <1>3, <1>5, DestroyedIs
  <2> QED BY <1>3, <2>1, SameIsKept, KeptBoth DEF Lively
<1>6. CASE j = Drained(f) BY <1>1, <1>3, <1>6, DrainsOne
<1>7. CASE ~k.needsDrain /\ j = f BY <1>1, <1>3, <1>7, SameLives
<1> QED BY <1>5, <1>6, <1>7

-----------------------------------------------------------------------------
(* How a socket begins.                                                    *)

Begun(j, peer, c, t) == j = [NewSocket EXCEPT !.stage = "sniffing", !.peer = peer, !.counted = c, !.timers = t]
LEMMA BeginsFresh ==
  ASSUME NEW peer \in Addresses, NEW c, peer = Proxy => c = {}, NEW t, NEW j, Begun(j, peer, c, t)
  PROVE  SocketInv(j) /\ Alive(j) /\ j.counted = c
<1>1. SocketShaped(j) BY DEF Begun, NewSocket, SocketShaped
<1>2. Rows(j) /\ j.stage = "sniffing" /\ j.counted = c /\ j.peer = peer
  BY DEF Begun, NewSocket, Rows
<1>3. Fresh(j) BY DEF Begun, NewSocket, Fresh
<1> QED BY <1>1, <1>2, <1>3 DEF SocketInv, Early, Alive

\* A session begins with nothing read
Opened(j, m, t) == j = [m EXCEPT !.stage = "session", !.timers = t]
OpenedAt(j, m, t, c) == j = [m EXCEPT !.stage = "session", !.timers = t, !.counted = c]
LEMMA OpensIs ==
  ASSUME NEW k, SocketInv(k), Early(k), NEW m, m = k \/ m = Wrote(k), NEW t, NEW c,
         NEW j, (Opened(j, m, t) /\ c = k.counted) \/ OpenedAt(j, m, t, c)
  PROVE  SocketInv(j) /\ Alive(j) /\ j.counted = c
<1>0. SocketShaped(k) /\ Fresh(k) /\ Rows(k) BY DEF SocketInv
<1>1. SocketShaped(m) /\ Line(m, k) /\ Flow(m, k) /\ m.browser = k.browser /\ m.counted = k.counted
  <2>1. ASSUME m = Wrote(k) PROVE SocketShaped(m) /\ Same(m, k) BY <1>0, <2>1, WroteIs
  <2> QED BY <1>0, <2>1 DEF Line, Flow, Same, Seat
<1>2. SocketShaped(j)
  <2>1. CASE Opened(j, m, t) BY <1>1, <2>1 DEF Opened, SocketShaped
  <2>2. CASE OpenedAt(j, m, t, c) BY <1>1, <2>2 DEF OpenedAt, SocketShaped
  <2> QED BY <2>1, <2>2
<1>3. j.stage = "session" /\ j.counted = c /\ Line(j, m) /\ Flow(j, m)
  <2>1. CASE Opened(j, m, t) /\ c = k.counted BY <1>1, <2>1 DEF Opened, SocketShaped, Line, Flow
  <2>2. CASE OpenedAt(j, m, t, c) BY <1>1, <2>2 DEF OpenedAt, SocketShaped, Line, Flow
  <2> QED BY <2>1, <2>2
<1>4. /\ j.wire = <<>> /\ j.decoder = <<>> /\ j.queue = <<>> /\ j.handling = Nothing /\ j.sent = 0
      /\ j.reasons = {} /\ ~j.paused /\ ~j.externallyPaused /\ ~j.controlBackpressured
  BY <1>0, <1>1, <1>3 DEF Fresh, Line, Flow
<1>5. Rows(j) BY <1>4 DEF Rows
<1>6. Steered(j, FALSE) /\ Served(j, FALSE) /\ HandedOn(j) BY <1>4 DEF Steered, Served, HandedOn
<1>7. InLine(j) BY <1>4 DEF InLine, InOrder, WithoutGap, Rising, Before, First, UpTo, Counted
<1> QED BY <1>2, <1>3, <1>5, <1>6, <1>7 DEF SocketInv, Early, Lively, Going, Alive

\* or is turned away as its address has too many
LEMMA TurnedAwayIs ==
  ASSUME NEW k, SocketInv(k), Early(k), NEW m, m = k \/ m = Wrote(k), NEW t, NEW j, j = Destroyed([m EXCEPT !.timers = t])
  PROVE  SocketInv(j) /\ Alive(j) /\ j.counted = k.counted
<1>n. PICK n : n = [m EXCEPT !.timers = t] OBVIOUS
<1>0. SocketShaped(k) BY DEF SocketInv
<1>1. SocketShaped(m) /\ Kept(m, k)
  <2>1. ASSUME m = Wrote(k) PROVE SocketShaped(m) /\ Same(m, k) BY <1>0, <2>1, WroteIs
  <2>2. CASE m = k BY <1>0, <2>2 DEF Kept, Seat
  <2>3. CASE m = Wrote(k) BY <2>1, <2>3, SameIsKept
  <2> QED BY <2>2, <2>3
<1>2. SocketShaped(n) BY <1>1, <1>n DEF SocketShaped
<1>3. Seat(n, m) /\ Line(n, m) BY <1>1, <1>n DEF SocketShaped, Seat, Line, Dead
<1>4. Kept(n, m) BY <1>2, <1>3 DEF Kept, Line, Rows
<1>5. Kept(j, n) /\ j.destroyed BY <1>2, <1>n, DestroyedIs
<1>6. Kept(j, k) BY <1>1, <1>4, <1>5, KeptBoth
<1> QED BY <1>5, <1>6, LostIs DEF Kept, Seat, Alive, Early

LEMMA AsksIs ==
  ASSUME NEW k, SocketInv(k), Early(k), NEW j, j = [k EXCEPT !.stage = "upgrading", !.browser = TRUE]
  PROVE  SocketInv(j) /\ Alive(j) /\ j.counted = k.counted
<1>0. SocketShaped(k) /\ Fresh(k) /\ Rows(k) BY DEF SocketInv
<1>1. SocketShaped(j) BY <1>0 DEF SocketShaped
<1>2. j.stage = "upgrading" /\ j.counted = k.counted /\ j.peer = k.peer /\ j.out = k.out
  BY <1>0 DEF SocketShaped
<1>3. Line(j, k) /\ Flow(j, k) /\ EndsAlike(j, k)
  BY <1>0 DEF SocketShaped, Line, Flow, EndsAlike
<1>4. Rows(j) BY <1>0, <1>3 DEF Rows, Line
<1>5. Fresh(j) BY <1>0, <1>2, <1>3 DEF Fresh, Line, Flow, EndsAlike
<1> QED BY <1>1, <1>2, <1>4, <1>5 DEF SocketInv, Alive

LEMMA RefusedIs ==
  ASSUME NEW k, SocketInv(k), Early(k), NEW j, j = [Wrote(k) EXCEPT !.stage = "refused", !.ended = TRUE] \/ j = Destroyed(k)
  PROVE  SocketInv(j) /\ Alive(j) /\ j.counted = k.counted
<1>0. SocketShaped(k) /\ Rows(k) BY DEF SocketInv
<1>1. CASE j = Destroyed(k)
  <2>1. Kept(j, k) /\ j.destroyed BY <1>0, <1>1, DestroyedIs
  <2> QED BY <2>1, LostIs DEF Kept, Seat, Alive, Early
<1>2. CASE j = [Wrote(k) EXCEPT !.stage = "refused", !.ended = TRUE]
  <2>w. PICK w : w = Wrote(k) OBVIOUS
  <2>1. SocketShaped(w) /\ Same(w, k) BY <1>0, <2>w, WroteIs
  <2>2. j = [w EXCEPT !.stage = "refused", !.ended = TRUE] BY <1>2, <2>w
  <2>3. SocketShaped(j) BY <2>1, <2>2 DEF SocketShaped
  <2>4. j.stage = "refused" /\ j.counted = w.counted /\ Line(j, w)
    BY <2>1, <2>2 DEF SocketShaped, Line
  <2>5. Rows(j) BY <1>0, <2>1, <2>4 DEF Rows, Line, Same
  <2> QED BY <2>1, <2>3, <2>4, <2>5 DEF SocketInv, Early, Alive, Same, Seat
<1> QED BY <1>1, <1>2

\* and what its deadlines do
Timed(m, k) == m = k \/ \E t : m = [k EXCEPT !.timers = t]
LEMMA FiresIs ==
  ASSUME NEW k, SocketInv(k), NEW m, Timed(m, k), NEW j, j = Destroyed(m) \/ j = CloseSession(m, FALSE)
  PROVE  StaysSocket(j, k)
<1> SUFFICES ASSUME NEW t, m = k \/ m = [k EXCEPT !.timers = t]
             PROVE  SocketInv(j) /\ j.stage = k.stage /\ j.counted = k.counted
  BY DEF Timed, StaysSocket
<1>0. SocketShaped(k) /\ Rows(k) BY DEF SocketInv
<1>1. SocketShaped(m) /\ Same(m, k)
  <2>1. CASE m = k BY <1>0, <2>1 DEF Same, Seat, Line, Flow, EndsAlike
  <2>2. CASE m = [k EXCEPT !.timers = t]
    <3>1. SocketShaped(m) BY <1>0, <2>2 DEF SocketShaped
    <3>2. Seat(m, k) /\ EndsAlike(m, k) BY <1>0, <2>2 DEF SocketShaped, Seat, EndsAlike, Dead
    <3>3. Line(m, k) /\ Flow(m, k) BY <1>0, <2>2 DEF SocketShaped, Line, Flow
    <3> QED BY <3>1, <3>2, <3>3 DEF Same
  <2> QED BY <2>1, <2>2
<1>2. Kept(m, k) BY <1>1, SameIsKept
<1>3. Kept(j, m) /\ Dead(j) BY <1>1, DestroyedIs, CloseSessionIs
<1>4. Kept(j, k) BY <1>2, <1>3, KeptBoth
<1>5. Early(k) => j.destroyed
  <2>1. CASE j = Destroyed(m) BY <1>1, <2>1, DestroyedIs
  <2>2. CASE j = CloseSession(m, FALSE)
    <3>1. j.destroyed \/ j = m BY <1>1, <2>2, CutShort
    <3>2. j.closed BY <1>1, <2>2, CloseSessionIs
    <3>3. Early(k) => ~m.closed BY <1>1 DEF SocketInv, Fresh, Same, EndsAlike
    <3> QED BY <3>1, <3>2, <3>3
  <2> QED BY <2>1, <2>2
<1>6. k.destroyed => ~Early(j)
  <2>1. CASE j = Destroyed(m)
    <3>1. j.destroyed BY <1>1, <2>1, DestroyedIs
    <3> QED BY <3>1 DEF Early
  <2>2. CASE j = CloseSession(m, FALSE)
    <3>1. j.destroyed \/ j = m BY <1>1, <2>2, CutShort
    <3> QED BY <1>1, <3>1 DEF Early, Same, EndsAlike
  <2> QED BY <2>1, <2>2
<1>7. ~Early(j)
  <2>1. Early(j) => j.stage = k.stage /\ ~j.destroyed BY <1>4 DEF Early, Kept, Seat
  <2> QED BY <1>5, <1>6, <2>1 DEF Early
<1>8. SocketInv(j) BY <1>0, <1>3, <1>4, <1>7 DEF SocketInv, Kept, Lively
<1> QED BY <1>4, <1>8 DEF Kept, Seat

-----------------------------------------------------------------------------
(* Counting.                                                               *)

AliveIn(F) == {s \in Sockets : Alive(F[s])}
AliveAt(F, a) == {s \in Sockets : Alive(F[s]) /\ a \in F[s].counted}
OnSockets(F) == F = [s \in Sockets |-> F[s]]
OnAddresses(by) == by = [a \in Addresses |-> by[a]]
Written(G, F, s, j) == G = [F EXCEPT ![s] = j]
Tallied(F, n, by) ==
  /\ IsFiniteSet(AliveIn(F)) /\ n = Cardinality(AliveIn(F))
  /\ \A a \in Addresses : by[a] = Cardinality(AliveAt(F, a))

LEMMA WrittenIs == ASSUME NEW F, OnSockets(F), NEW s \in Sockets, NEW j, NEW G, Written(G, F, s, j)
                   PROVE  OnSockets(G) /\ G[s] = j /\ \A v \in Sockets : v # s => G[v] = F[v]
  BY DEF OnSockets, Written

LEMMA AtIsFinite == ASSUME NEW F, IsFiniteSet(AliveIn(F)), NEW a PROVE IsFiniteSet(AliveAt(F, a)) /\ Cardinality(AliveAt(F, a)) \in Nat
                                                                      /\ Cardinality(AliveIn(F)) \in Nat
<1>1. AliveAt(F, a) \subseteq AliveIn(F) BY DEF AliveAt, AliveIn
<1>2. IsFiniteSet(AliveAt(F, a)) BY <1>1, FS_Subset
<1> QED BY <1>2, FS_CardinalityType

LEMMA TallySame ==
  ASSUME NEW F, OnSockets(F), NEW s \in Sockets, NEW j, NEW G, Written(G, F, s, j), NEW n, NEW by, Tallied(F, n, by),
         Alive(j) <=> Alive(F[s]), Alive(j) => j.counted = F[s].counted
  PROVE  Tallied(G, n, by)
<1>1. G[s] = j /\ \A v \in Sockets : v # s => G[v] = F[v] BY WrittenIs
<1>2. AliveIn(G) = AliveIn(F) BY <1>1 DEF AliveIn
<1>3. ASSUME NEW a PROVE AliveAt(G, a) = AliveAt(F, a) BY <1>1 DEF AliveAt
<1> QED BY <1>2, <1>3 DEF Tallied

LEMMA TallyMore ==
  ASSUME NEW F, OnSockets(F), NEW s \in Sockets, NEW j, NEW G, Written(G, F, s, j), NEW n, NEW by, Tallied(F, n, by), OnAddresses(by),
         ~Alive(F[s]), Alive(j), NEW c \in SUBSET Addresses, j.counted = c, c = {} \/ (\E a \in Addresses : c = {a}),
         NEW on, on = [a \in Addresses |-> IF a \in c THEN by[a] + 1 ELSE by[a]]
  PROVE  Tallied(G, n + 1, on)
<1>1. G[s] = j /\ \A v \in Sockets : v # s => G[v] = F[v] BY WrittenIs
<1>2. AliveIn(G) = AliveIn(F) \cup {s} /\ s \notin AliveIn(F) BY <1>1 DEF AliveIn
<1>3. IsFiniteSet(AliveIn(G)) /\ Cardinality(AliveIn(G)) = Cardinality(AliveIn(F)) + 1
  BY <1>2, FS_AddElement DEF Tallied
<1>4. ASSUME NEW a \in Addresses PROVE on[a] = Cardinality(AliveAt(G, a))
  <2>0. IsFiniteSet(AliveAt(F, a)) /\ s \notin AliveAt(F, a) BY AtIsFinite DEF Tallied, AliveAt
  <2>1. CASE a \in c
    <3>1. AliveAt(G, a) = AliveAt(F, a) \cup {s} BY <1>1, <2>1 DEF AliveAt
    <3>2. Cardinality(AliveAt(G, a)) = Cardinality(AliveAt(F, a)) + 1
      BY <2>0, <3>1, FS_AddElement
    <3> QED BY <2>1, <3>2, <1>4 DEF Tallied
  <2>2. CASE a \notin c
    <3>1. AliveAt(G, a) = AliveAt(F, a) BY <1>1, <2>2 DEF AliveAt
    <3> QED BY <2>2, <3>1, <1>4 DEF Tallied
  <2> QED BY <2>1, <2>2
<1> QED BY <1>3, <1>4 DEF Tallied

Bumped(on, by, a) == on = [by EXCEPT ![a] = @ + 1]
LEMMA TallyNamed ==
  ASSUME NEW F, OnSockets(F), NEW s \in Sockets, NEW j, NEW G, Written(G, F, s, j), NEW n, NEW by, Tallied(F, n, by), OnAddresses(by),
         Alive(F[s]), F[s].counted = {}, Alive(j), NEW a \in Addresses, NEW c, j.counted = c, c = {a},
         NEW on, Bumped(on, by, a)
  PROVE  Tallied(G, n, on)
<1>1. G[s] = j /\ \A v \in Sockets : v # s => G[v] = F[v] BY WrittenIs
<1>2. AliveIn(G) = AliveIn(F) BY <1>1 DEF AliveIn
<1>3. on[a] = by[a] + 1 /\ \A b \in Addresses : b # a => on[b] = by[b]
  BY DEF Bumped, OnAddresses
<1>4. ASSUME NEW b \in Addresses PROVE on[b] = Cardinality(AliveAt(G, b))
  <2>0. IsFiniteSet(AliveAt(F, b)) /\ s \notin AliveAt(F, b) BY AtIsFinite DEF Tallied, AliveAt
  <2>1. CASE b = a
    <3>1. AliveAt(G, b) = AliveAt(F, b) \cup {s} BY <1>1, <2>1 DEF AliveAt
    <3>2. Cardinality(AliveAt(G, b)) = Cardinality(AliveAt(F, b)) + 1
      BY <2>0, <3>1, FS_AddElement
    <3> QED BY <1>3, <2>1, <3>2, <1>4 DEF Tallied
  <2>2. CASE b # a
    <3>1. AliveAt(G, b) = AliveAt(F, b) BY <1>1, <2>2 DEF AliveAt
    <3> QED BY <1>3, <2>2, <3>1, <1>4 DEF Tallied
  <2> QED BY <2>1, <2>2
<1> QED BY <1>2, <1>4 DEF Tallied

LEMMA TallyLess ==
  ASSUME NEW F, OnSockets(F), NEW s \in Sockets, NEW j, NEW G, Written(G, F, s, j), NEW n, NEW by, Tallied(F, n, by), OnAddresses(by),
         Alive(F[s]), ~Alive(j),
         NEW on, on = [a \in Addresses |-> by[a] - Cardinality(F[s].counted \cap {a})]
  PROVE  Tallied(G, n - 1, on)
<1>1. G[s] = j /\ \A v \in Sockets : v # s => G[v] = F[v] BY WrittenIs
<1>2. AliveIn(G) = AliveIn(F) \ {s} /\ s \in AliveIn(F) BY <1>1 DEF AliveIn
<1>3. IsFiniteSet(AliveIn(G)) /\ Cardinality(AliveIn(G)) = Cardinality(AliveIn(F)) - 1
  BY <1>2, FS_RemoveElement DEF Tallied
<1>4. ASSUME NEW a \in Addresses PROVE on[a] = Cardinality(AliveAt(G, a))
  <2>0. IsFiniteSet(AliveAt(F, a)) /\ on[a] = by[a] - Cardinality(F[s].counted \cap {a}) /\ by[a] = Cardinality(AliveAt(F, a))
        /\ Cardinality(AliveAt(F, a)) \in Nat
    BY AtIsFinite, <1>4 DEF Tallied
  <2>1. CASE a \in F[s].counted
    <3>1. AliveAt(G, a) = AliveAt(F, a) \ {s} /\ s \in AliveAt(F, a) BY <1>1, <2>1 DEF AliveAt
    <3>2. Cardinality(AliveAt(G, a)) = Cardinality(AliveAt(F, a)) - 1
      BY <2>0, <3>1, FS_RemoveElement
    <3>3. F[s].counted \cap {a} = {a} BY <2>1
    <3>4. Cardinality(F[s].counted \cap {a}) = 1 BY <3>3, FS_Singleton
    <3> QED BY <2>0, <3>2, <3>4
  <2>2. CASE a \notin F[s].counted
    <3>1. AliveAt(G, a) = AliveAt(F, a) BY <1>1, <2>2 DEF AliveAt
    <3>2. F[s].counted \cap {a} = {} BY <2>2
    <3>3. Cardinality(F[s].counted \cap {a}) = 0 BY <3>2, FS_EmptySet
    <3> QED BY <2>0, <3>1, <3>3
  <2> QED BY <2>1, <2>2
<1> QED BY <1>3, <1>4 DEF Tallied

-----------------------------------------------------------------------------
(* All the sockets.                                                        *)

ConnInv ==
  /\ OnSockets(socket) /\ OnAddresses(activeSocketsByAddress)
  /\ Tallied(socket, activeSocketCount, activeSocketsByAddress)
  /\ \A s \in Sockets : SocketInv(socket[s])

LEMMA ConnStart == ConnInit => ConnInv
<1> SUFFICES ASSUME ConnInit PROVE ConnInv OBVIOUS
<1>1. OnSockets(socket) /\ OnAddresses(activeSocketsByAddress) /\ \A s \in Sockets : socket[s] = NewSocket
  BY DEF ConnInit, OnSockets, OnAddresses, Addresses
<1>2. AliveIn(socket) = {} /\ \A a : AliveAt(socket, a) = {}
  BY <1>1, GoneIs DEF AliveIn, AliveAt
<1>3. Tallied(socket, activeSocketCount, activeSocketsByAddress)
  BY <1>2, FS_EmptySet DEF Tallied, ConnInit, Addresses
<1> QED BY <1>1, <1>3, GoneIs DEF ConnInv

LEMMA OneChanges ==
  ASSUME ConnInv, NEW s \in Sockets, NEW j, Set(s, j), SocketInv(j)
  PROVE  OnSockets(socket') /\ (\A v \in Sockets : SocketInv(socket'[v])) /\ Written(socket', socket, s, j) /\ OnSockets(socket)
<1>1. Written(socket', socket, s, j) /\ OnSockets(socket) BY DEF Set, Written, ConnInv
<1>2. OnSockets(socket') /\ socket'[s] = j /\ \A v \in Sockets : v # s => socket'[v] = socket[v]
  BY <1>1, WrittenIs
<1>3. \A v \in Sockets : SocketInv(socket[v]) BY DEF ConnInv
<1> QED BY <1>1, <1>2, <1>3

LEMMA OneStays ==
  ASSUME ConnInv, NEW s \in Sockets, NEW j, Set(s, j), Uncounted, SocketInv(j), Alive(j) <=> Alive(socket[s]),
         Alive(j) => j.counted = socket[s].counted
  PROVE  ConnInv'
<1>1. OnSockets(socket') /\ (\A v \in Sockets : SocketInv(socket'[v])) /\ Written(socket', socket, s, j) /\ OnSockets(socket)
  BY OneChanges
<1>2. Tallied(socket, activeSocketCount, activeSocketsByAddress) /\ OnAddresses(activeSocketsByAddress)
  BY DEF ConnInv
<1>3. Tallied(socket', activeSocketCount, activeSocketsByAddress) BY <1>1, <1>2, TallySame
<1> QED BY <1>1, <1>2, <1>3 DEF ConnInv, Uncounted

\* A step of one socket that leaves the counts alone
LEMMA SameStage ==
  ASSUME ConnInv, NEW s \in Sockets, NEW j, Set(s, j), Uncounted, SocketInv(j), j.stage = socket[s].stage, j.counted = socket[s].counted
  PROVE  ConnInv'
  BY OneStays DEF Alive

LEMMA ConnectsStep == ASSUME ConnInv, NEW s \in Sockets, NEW peer \in Addresses, Connects(s, peer) PROVE ConnInv'
<1>0. socket[s].stage = "none" /\ ~Alive(socket[s]) BY DEF Connects, Alive
<1>1. CASE Set(s, [NewSocket EXCEPT !.stage = "gone"]) /\ Uncounted
  <2>j. PICK j : j = [NewSocket EXCEPT !.stage = "gone"] OBVIOUS
  <2>1. SocketInv(j) /\ ~Alive(j) /\ Set(s, j) BY <1>1, <2>j, GoneIs
  <2> QED BY <1>0, <1>1, <2>1, OneStays
<1>2. CASE /\ activeSocketCount' = activeSocketCount + 1
           /\ IF peer = Proxy THEN UNCHANGED activeSocketsByAddress
              ELSE activeSocketsByAddress' = [activeSocketsByAddress EXCEPT ![peer] = @ + 1]
           /\ Set(s, [NewSocket EXCEPT !.stage = "sniffing", !.peer = peer, !.counted = {peer} \ {Proxy}, !.timers = {"sniff"}])
  <2>c. PICK c : c = {peer} \ {Proxy} OBVIOUS
  <2>t. PICK t : t = {"sniff"} OBVIOUS
  <2>j. PICK j : j = [NewSocket EXCEPT !.stage = "sniffing", !.peer = peer, !.counted = c, !.timers = t]
    OBVIOUS
  <2>1. Set(s, j) BY <1>2, <2>c, <2>t, <2>j
  <2>2. peer = Proxy => c = {} BY <2>c
  <2>3. SocketInv(j) /\ Alive(j) /\ j.counted = c
    <3>1. Begun(j, peer, c, t) BY <2>j DEF Begun
    <3> QED BY <2>2, <3>1, BeginsFresh
  <2>4. OnSockets(socket') /\ (\A v \in Sockets : SocketInv(socket'[v])) /\ Written(socket', socket, s, j) /\ OnSockets(socket)
    BY <2>1, <2>3, OneChanges
  <2>5. Tallied(socket, activeSocketCount, activeSocketsByAddress) /\ OnAddresses(activeSocketsByAddress)
    BY DEF ConnInv
  <2>6. c \in SUBSET Addresses /\ (c = {} \/ \E a \in Addresses : c = {a}) BY <2>c
  <2>7. activeSocketsByAddress' = [a \in Addresses |-> IF a \in c THEN activeSocketsByAddress[a] + 1 ELSE activeSocketsByAddress[a]]
    <3>1. CASE peer = Proxy BY <1>2, <2>2, <2>5, <3>1 DEF OnAddresses
    <3>2. CASE peer # Proxy
      <4>1. c = {peer} /\ activeSocketsByAddress' = [activeSocketsByAddress EXCEPT ![peer] = @ + 1]
        BY <1>2, <2>c, <3>2
      <4> QED BY <2>5, <4>1 DEF OnAddresses
    <3> QED BY <3>1, <3>2
  <2>8. Tallied(socket', activeSocketCount + 1, activeSocketsByAddress')
    BY <1>0, <2>3, <2>4, <2>5, <2>6, <2>7, TallyMore
  <2>9. OnAddresses(activeSocketsByAddress') BY <2>7 DEF OnAddresses
  <2> QED BY <1>2, <2>4, <2>8, <2>9 DEF ConnInv
<1> QED BY <1>1, <1>2 DEF Connects

LEMMA BecomesStep ==
  ASSUME ConnInv, NEW s \in Sockets, Early(socket[s]), NEW m, m = socket[s] \/ m = Wrote(socket[s]), NEW address \in Addresses, Becomes(s, m, address)
  PROVE  ConnInv'
<1>k. PICK k : k = socket[s] OBVIOUS
<1>0. SocketInv(k) /\ Early(k) /\ Alive(k) /\ (m = k \/ m = Wrote(k)) /\ SocketShaped(k)
  BY <1>k DEF ConnInv, Early, Alive, SocketInv
<1>t. PICK t : t = (m.timers \ {"sniff"}) \cup {"login"} OBVIOUS
<1>u. PICK u : u = m.timers \ {"sniff"} OBVIOUS
<1>o. PICK o : o = [m EXCEPT !.stage = "session", !.timers = t] OBVIOUS
<1>1. m.peer = k.peer BY <1>0 DEF Wrote, SocketShaped
<1>2. CASE Set(s, o) /\ Uncounted
  <2>1. SocketInv(o) /\ Alive(o) /\ o.counted = k.counted
    <3>1. Opened(o, m, t) BY <1>o DEF Opened
    <3>2. ASSUME NEW c, c = k.counted PROVE SocketInv(o) /\ Alive(o) /\ o.counted = c
      BY <1>0, <3>1, <3>2, OpensIs
    <3> QED BY <3>2
  <2> QED BY <1>0, <1>2, <1>k, <2>1, OneStays
<1>3. CASE Set(s, Destroyed([m EXCEPT !.timers = @ \ {"sniff"}])) /\ Uncounted
  <2>j. PICK j : j = Destroyed([m EXCEPT !.timers = u]) OBVIOUS
  <2>1. Set(s, j) BY <1>3, <1>u, <2>j
  <2>2. SocketInv(j) /\ Alive(j) /\ j.counted = k.counted BY <1>0, <2>j, TurnedAwayIs
  <2> QED BY <1>0, <1>3, <1>k, <2>1, <2>2, OneStays
<1>4. CASE /\ m.peer = Proxy /\ activeSocketsByAddress' = [activeSocketsByAddress EXCEPT ![address] = @ + 1]
           /\ Set(s, [o EXCEPT !.counted = {address}]) /\ UNCHANGED activeSocketCount
  <2>c. PICK c : c = {address} OBVIOUS
  <2>j. PICK j : j = [m EXCEPT !.stage = "session", !.timers = t, !.counted = c] OBVIOUS
  <2>1. Set(s, j)
    <3>1. j = [o EXCEPT !.counted = c]
      <4>1. SocketShaped(m) BY <1>0, WroteIs
      <4> QED BY <4>1, <1>o, <2>j DEF SocketShaped
    <3> QED BY <1>4, <2>c, <3>1
  <2>2. SocketInv(j) /\ Alive(j) /\ j.counted = c
    <3>1. OpenedAt(j, m, t, c) BY <2>j DEF OpenedAt
    <3> QED BY <1>0, <3>1, OpensIs
  <2>3. OnSockets(socket') /\ (\A v \in Sockets : SocketInv(socket'[v])) /\ Written(socket', socket, s, j) /\ OnSockets(socket)
    BY <2>1, <2>2, OneChanges
  <2>4. Tallied(socket, activeSocketCount, activeSocketsByAddress) /\ OnAddresses(activeSocketsByAddress)
    BY DEF ConnInv
  <2>5. socket[s].counted = {} /\ Alive(socket[s])
    BY <1>0, <1>1, <1>4, <1>k DEF SocketInv, Fresh
  <2>6. Tallied(socket', activeSocketCount, activeSocketsByAddress')
    <3>1. Bumped(activeSocketsByAddress', activeSocketsByAddress, address) BY <1>4 DEF Bumped
    <3> QED BY <2>2, <2>c, <2>3, <2>4, <2>5, <3>1, TallyNamed
  <2>7. OnAddresses(activeSocketsByAddress') BY <1>4, <2>4 DEF OnAddresses
  <2> QED BY <1>4, <2>3, <2>6, <2>7 DEF ConnInv
<1> QED BY <1>2, <1>3, <1>4, <1>t, <1>o DEF Becomes

LEMMA OnCloseStep == ASSUME ConnInv, NEW s \in Sockets, OnClose(s) PROVE ConnInv'
<1>j. PICK j : j = [NewSocket EXCEPT !.stage = "gone"] OBVIOUS
<1>0. Alive(socket[s]) /\ Set(s, j) BY <1>j DEF OnClose, Alive
<1>1. SocketInv(j) /\ ~Alive(j) BY <1>j, GoneIs
<1>2. OnSockets(socket') /\ (\A v \in Sockets : SocketInv(socket'[v])) /\ Written(socket', socket, s, j) /\ OnSockets(socket)
  BY <1>0, <1>1, OneChanges
<1>3. Tallied(socket, activeSocketCount, activeSocketsByAddress) /\ OnAddresses(activeSocketsByAddress)
  BY DEF ConnInv
<1>4. DOMAIN activeSocketsByAddress = Addresses BY <1>3 DEF OnAddresses
<1>5. activeSocketsByAddress' = [a \in Addresses |-> activeSocketsByAddress[a] - Cardinality(socket[s].counted \cap {a})]
  BY <1>4 DEF OnClose
<1>6. Tallied(socket', activeSocketCount - 1, activeSocketsByAddress')
  BY <1>0, <1>1, <1>2, <1>3, <1>5, TallyLess
<1>7. OnAddresses(activeSocketsByAddress') BY <1>5 DEF OnAddresses
<1> QED BY <1>2, <1>6, <1>7 DEF ConnInv, OnClose

-----------------------------------------------------------------------------
(* What a step of the sockets keeps.                                       *)

LEMMA InvIs == ASSUME ConnInv, NEW s \in Sockets PROVE SocketInv(socket[s]) /\ SocketShaped(socket[s]) /\ Rows(socket[s])
  BY DEF ConnInv, SocketInv

LEMMA OpensStep ==
  ASSUME ConnInv, NEW s \in Sockets, SpeaksAtOnce(s) \/ AsksToUpgrade(s) \/ UpgradeRefused(s) \/ (\E a \in Addresses : Upgrades(s, a))
  PROVE  ConnInv'
<1>1. Early(socket[s]) /\ Alive(socket[s])
  BY DEF SpeaksAtOnce, AsksToUpgrade, UpgradeRefused, Upgrades, Open, Early, Alive
<1>p. socket[s].peer \in Addresses BY <1>1, InvIs DEF SocketInv, Fresh
<1>2. CASE SpeaksAtOnce(s) BY <1>1, <1>p, <1>2, BecomesStep DEF SpeaksAtOnce
<1>3. CASE AsksToUpgrade(s)
  <2>j. PICK j : j = [socket[s] EXCEPT !.stage = "upgrading", !.browser = TRUE] OBVIOUS
  <2>1. Set(s, j) /\ Uncounted BY <1>3, <2>j DEF AsksToUpgrade
  <2>2. SocketInv(j) /\ Alive(j) /\ j.counted = socket[s].counted BY <1>1, <2>j, InvIs, AsksIs
  <2> QED BY <1>1, <2>1, <2>2, OneStays
<1>4. CASE UpgradeRefused(s)
  <2>1. ASSUME NEW j, j = [Wrote(socket[s]) EXCEPT !.stage = "refused", !.ended = TRUE] \/ j = Destroyed(socket[s]), Set(s, j) PROVE ConnInv'
    <3>1. SocketInv(j) /\ Alive(j) /\ j.counted = socket[s].counted
      BY <1>1, <2>1, InvIs, RefusedIs
    <3> QED BY <1>1, <1>4, <2>1, <3>1, OneStays DEF UpgradeRefused
  <2>a. PICK a : a = [Wrote(socket[s]) EXCEPT !.stage = "refused", !.ended = TRUE] OBVIOUS
  <2>2. Set(s, a) \/ Set(s, Destroyed(socket[s])) BY <1>4, <2>a DEF UpgradeRefused
  <2> QED BY <2>1, <2>2, <2>a
<1>5. ASSUME NEW a \in Addresses, Upgrades(s, a) PROVE ConnInv'
  <2>1. PICK b \in Addresses : Becomes(s, Wrote(socket[s]), b)
    <3>1. Becomes(s, Wrote(socket[s]), a) \/ Becomes(s, Wrote(socket[s]), socket[s].peer)
      BY <1>5 DEF Upgrades
    <3> QED BY <1>p, <3>1
  <2>m. PICK m : m = Wrote(socket[s]) OBVIOUS
  <2> QED BY <1>1, <2>1, <2>m, BecomesStep
<1> QED BY <1>2, <1>3, <1>4, <1>5

LEMMA ClientSendsStep == ASSUME ConnInv, NEW s \in Sockets, NEW kind \in Kinds, ClientSends(s, kind) PROVE ConnInv'
<1>k. PICK k : k = socket[s] OBVIOUS
<1>o. PICK odd : odd = (k.odd \/ kind \notin {"login", "work"}) OBVIOUS
<1>j. PICK j : j = [k EXCEPT !.sent = k.sent + 1, !.odd = odd, !.wire = Append(k.wire, [n |-> k.sent + 1, kind |-> kind])]
  OBVIOUS
<1>1. Set(s, j) /\ Uncounted /\ k.stage = "session" /\ ~k.destroyed
  BY <1>k, <1>o, <1>j DEF ClientSends
<1>2. SocketInv(k) BY <1>k, InvIs
<1>3. StaysSocket(j, k)
  <2>1. Says(j, k, kind, odd) BY <1>j DEF Says
  <2> QED BY <1>1, <1>2, <2>1, SaysMore
<1> QED BY <1>1, <1>3, <1>k, SameStage DEF StaysSocket

LEMMA ReceivesStep == ASSUME ConnInv, NEW s \in Sockets, NEW n, Receives(s, n) PROVE ConnInv'
<1>k. PICK k : k = socket[s] OBVIOUS
<1>c. PICK c : c = SubSeq(k.wire, 1, n) OBVIOUS
<1>r. PICK r : r = SubSeq(k.wire, n + 1, Len(k.wire)) OBVIOUS
<1>d. PICK read : read = [k EXCEPT !.wire = r] OBVIOUS
<1>1. k.stage = "session" /\ ~k.destroyed /\ ~k.paused /\ n \in 1..Len(k.wire) /\ Uncounted
  BY <1>k DEF Receives
<1>2. Set(s, CASE ~k.browser -> OnData(read, c)
               [] k.browser /\ k.closing -> read
               [] OTHER -> DrainFrames([read EXCEPT !.decoder = @ \o c]))
  BY <1>k, <1>c, <1>r, <1>d DEF Receives
<1>5. SocketInv(k) /\ SocketShaped(k) /\ IsCut(c, r, k.wire, n)
  BY <1>k, <1>c, <1>r, <1>1, InvIs DEF IsCut
<1>3. read.decoder = k.decoder BY <1>d, <1>5 DEF SocketShaped
<1>4. \E j : Set(s, j) /\ HearsAs(j, k, read, c)
  <2>1. CASE ~k.browser
    <3>1. Set(s, OnData(read, c)) BY <1>2, <2>1
    <3> QED BY <2>1, <3>1 DEF HearsAs
  <2>2. CASE k.browser /\ k.closing
    <3>1. Set(s, read) BY <1>2, <2>2
    <3> QED BY <2>2, <3>1 DEF HearsAs
  <2>3. CASE k.browser /\ ~k.closing
    <3>x. PICK x : x = DrainFrames([read EXCEPT !.decoder = k.decoder \o c]) OBVIOUS
    <3>1. Set(s, x) BY <1>2, <1>3, <2>3, <3>x
    <3> QED BY <2>3, <3>1, <3>x DEF HearsAs
  <2> QED BY <2>1, <2>2, <2>3
<1>j. PICK j : Set(s, j) /\ HearsAs(j, k, read, c) BY <1>4
<1>6. StaysSocket(j, k)
  <2>1. LeavesUnread(read, k, r) BY <1>d DEF LeavesUnread
  <2> QED BY <1>1, <1>5, <1>j, <2>1, HearsMore
<1> QED BY <1>1, <1>j, <1>6, <1>k, SameStage DEF StaysSocket

LEMMA PacketEndsStep == ASSUME ConnInv, NEW s \in Sockets, PacketEnds(s) PROVE ConnInv'
<1>k. PICK k : k = socket[s] OBVIOUS
<1>h. PICK h : h = Handled(k) OBVIOUS
<1>1. k.stage = "session" /\ k.handling # Nothing /\ Uncounted BY <1>k DEF PacketEnds
<1>2. PICK j : Set(s, j) /\ EndsAs(j, k, h)
  <2>1. Set(s, IF k.closed \/ h.closed THEN [h EXCEPT !.handling = Nothing] ELSE TakesNext([Eased(h) EXCEPT !.handling = Nothing]))
    BY <1>k, <1>h DEF PacketEnds
  <2>a. PICK a : a = [h EXCEPT !.handling = Nothing] OBVIOUS
  <2>b. PICK b : b = TakesNext([Eased(h) EXCEPT !.handling = Nothing]) OBVIOUS
  <2>2. CASE k.closed \/ h.closed BY <2>1, <2>2, <2>a DEF EndsAs
  <2>3. CASE ~k.closed /\ ~h.closed BY <2>1, <2>3, <2>b DEF EndsAs
  <2> QED BY <2>2, <2>3
<1>3. SocketInv(k) BY <1>k, InvIs
<1>4. StaysSocket(j, k) BY <1>1, <1>2, <1>3, <1>h, EndsOne
<1> QED BY <1>1, <1>2, <1>4, <1>k, SameStage DEF StaysSocket

LEMMA SendsStep == ASSUME ConnInv, NEW s \in Sockets, Sends(s) PROVE ConnInv'
<1>k. PICK k : k = socket[s] OBVIOUS
<1>m. PICK m : m = [k EXCEPT !.sends = @ + 1] OBVIOUS
<1>w. PICK w : w = Wrote(m) OBVIOUS
<1>1. k.stage = "session" /\ ~k.closed /\ ~k.destroyed /\ Uncounted BY <1>k DEF Sends
<1>2. PICK j : Set(s, j) /\ SendsAs(j, k, w)
  <2>1. Set(s, IF k.out + 1 > MaxOut THEN CloseSession(k, FALSE)
               ELSE IF k.closing THEN UpdateReadFlow([k EXCEPT !.reasons = @ \cup {"write"}, !.sends = @ + 1])
               ELSE IF k.out + 1 >= HighWater THEN UpdateReadFlow([w EXCEPT !.reasons = @ \cup {"write"}]) ELSE w)
    BY <1>k, <1>m, <1>w DEF Sends
  <2>a. PICK a : a = UpdateReadFlow([k EXCEPT !.reasons = @ \cup {"write"}, !.sends = @ + 1])
    OBVIOUS
  <2>b. PICK b : b = UpdateReadFlow([w EXCEPT !.reasons = @ \cup {"write"}]) OBVIOUS
  <2>2. CASE k.out + 1 > MaxOut BY <2>1, <2>2 DEF SendsAs
  <2>3. CASE ~(k.out + 1 > MaxOut) /\ k.closing BY <2>1, <2>3, <2>a DEF SendsAs
  <2>4. CASE ~(k.out + 1 > MaxOut) /\ ~k.closing /\ k.out + 1 >= HighWater
    BY <2>1, <2>4, <2>b DEF SendsAs
  <2>5. CASE ~(k.out + 1 > MaxOut) /\ ~k.closing /\ ~(k.out + 1 >= HighWater)
    BY <2>1, <2>5 DEF SendsAs
  <2> QED BY <2>2, <2>3, <2>4, <2>5
<1>3. SocketInv(k) BY <1>k, InvIs
<1>4. StaysSocket(j, k)
  <2>1. CountsSend(m, k) BY <1>m DEF CountsSend
  <2> QED BY <1>1, <1>2, <1>3, <1>w, <2>1, SendsOne
<1> QED BY <1>1, <1>2, <1>4, <1>k, SameStage DEF StaysSocket

LEMMA PausesStep == ASSUME ConnInv, NEW s \in Sockets, NEW paused \in BOOLEAN, PausesForWorker(s, paused) PROVE ConnInv'
<1>k. PICK k : k = socket[s] OBVIOUS
<1>r. PICK rs : rs = IF paused THEN k.reasons \cup {"worker"} ELSE k.reasons \ {"worker"}
  <2>1. CASE paused BY <2>1
  <2>2. CASE ~paused BY <2>2
  <2> QED BY <2>1, <2>2
<1>x. PICK x : x = IF paused THEN k.sends + 1 ELSE k.sends
  <2>1. CASE paused BY <2>1
  <2>2. CASE ~paused BY <2>2
  <2> QED BY <2>1, <2>2
<1>j. PICK j : j = UpdateReadFlow([k EXCEPT !.reasons = rs, !.sends = x]) OBVIOUS
<1>1. k.stage = "session" /\ ~k.destroyed /\ Uncounted /\ Set(s, j)
  BY <1>k, <1>r, <1>x, <1>j DEF PausesForWorker
<1>2. rs \ {"worker"} = k.reasons \ {"worker"} BY <1>r
<1>3. SocketInv(k) BY <1>k, InvIs
<1>4. StaysSocket(j, k)
  <2>1. WorkerAs(j, k, rs, x) BY <1>j DEF WorkerAs
  <2> QED BY <1>1, <1>2, <1>3, <2>1, WorkerPauses
<1> QED BY <1>1, <1>4, <1>k, SameStage DEF StaysSocket

LEMMA EmptiesStep == ASSUME ConnInv, NEW s \in Sockets, Empties(s) PROVE ConnInv'
<1>k. PICK k : k = socket[s] OBVIOUS
<1>f. PICK f : f = [k EXCEPT !.out = 0, !.needsDrain = FALSE] OBVIOUS
<1>1. k.out > 0 /\ ~k.destroyed /\ Uncounted BY <1>k DEF Empties
<1>2. PICK j : Set(s, j) /\ EmptiesAs(j, k, f)
  <2>1. Set(s, IF k.soon THEN Destroyed(f) ELSE IF k.needsDrain THEN Drained(f) ELSE f)
    BY <1>k, <1>f DEF Empties
  <2>2. CASE k.soon BY <2>1, <2>2 DEF EmptiesAs
  <2>3. CASE ~k.soon /\ k.needsDrain BY <2>1, <2>3 DEF EmptiesAs
  <2>4. CASE ~k.soon /\ ~k.needsDrain BY <2>1, <2>4 DEF EmptiesAs
  <2> QED BY <2>2, <2>3, <2>4
<1>3. SocketInv(k) BY <1>k, InvIs
<1>4. StaysSocket(j, k)
  <2>1. Emptied(f, k) BY <1>f DEF Emptied
  <2> QED BY <1>1, <1>2, <1>3, <2>1, EmptiesOne
<1> QED BY <1>1, <1>2, <1>4, <1>k, SameStage DEF StaysSocket

LEMMA FiresStep == ASSUME ConnInv, NEW s \in Sockets, SniffFires(s) \/ LoginFires(s) \/ ForceFires(s) \/ IdleFires(s) PROVE ConnInv'
<1>k. PICK k : k = socket[s] OBVIOUS
<1>0. SocketInv(k) BY <1>k, InvIs
<1>1. PICK m, j : Timed(m, k) /\ (j = Destroyed(m) \/ j = CloseSession(m, FALSE)) /\ Set(s, j) /\ Uncounted
  <2>1. CASE SniffFires(s) BY <1>k, <2>1 DEF SniffFires, Timed
  <2>2. CASE LoginFires(s)
    <3>m. PICK m : m = [k EXCEPT !.timers = @ \ {"login"}] OBVIOUS
    <3>1. Timed(m, k) BY <3>m DEF Timed
    <3>2. Set(s, CloseSession(m, FALSE)) /\ Uncounted BY <1>k, <2>2, <3>m DEF LoginFires
    <3> QED BY <3>1, <3>2
  <2>3. CASE ForceFires(s)
    <3>m. PICK m : m = [k EXCEPT !.timers = @ \ {"force"}] OBVIOUS
    <3>1. Timed(m, k) BY <3>m DEF Timed
    <3>2. Set(s, Destroyed(m)) /\ Uncounted BY <1>k, <2>3, <3>m DEF ForceFires
    <3> QED BY <3>1, <3>2
  <2>4. CASE IdleFires(s) BY <1>k, <2>4 DEF IdleFires, Timed
  <2> QED BY <2>1, <2>2, <2>3, <2>4
<1>2. StaysSocket(j, k) BY <1>0, <1>1, FiresIs
<1> QED BY <1>1, <1>2, <1>k, SameStage DEF StaysSocket

LEMMA ConnStep == ConnInv /\ [ConnNext]_connVars => ConnInv'
<1> SUFFICES ASSUME ConnInv, [ConnNext]_connVars PROVE ConnInv' OBVIOUS
<1>1. CASE UNCHANGED connVars BY <1>1 DEF ConnInv, connVars
<1>2. ASSUME NEW s \in Sockets, NEW a \in Homes \cup {Proxy}, Connects(s, a) PROVE ConnInv'
  BY <1>2, ConnectsStep DEF Addresses
<1>3. ASSUME NEW s \in Sockets, SpeaksAtOnce(s) \/ AsksToUpgrade(s) \/ UpgradeRefused(s) \/ (\E a \in Homes \cup {Proxy} : Upgrades(s, a)) PROVE ConnInv'
  BY <1>3, OpensStep DEF Addresses
<1>4. ASSUME NEW s \in Sockets, NEW kind \in KindsFor([browser |-> TRUE]) \cup KindsFor([browser |-> FALSE]), ClientSends(s, kind) PROVE ConnInv'
  BY <1>4, ClientSendsStep DEF Kinds
<1>5. ASSUME NEW s \in Sockets, NEW n \in 1..MaxPackets, Receives(s, n) PROVE ConnInv'
  BY <1>5, ReceivesStep
<1>6. ASSUME NEW s \in Sockets, PacketEnds(s) \/ Sends(s) \/ Empties(s) PROVE ConnInv'
  BY <1>6, PacketEndsStep, SendsStep, EmptiesStep
<1>7. ASSUME NEW s \in Sockets, NEW paused \in BOOLEAN, PausesForWorker(s, paused) PROVE ConnInv'
  BY <1>7, PausesStep
<1>8. ASSUME NEW s \in Sockets, CloseComes(s) \/ ClientGoes(s) PROVE ConnInv'
  BY <1>8, OnCloseStep DEF CloseComes, ClientGoes
<1>9. ASSUME NEW s \in Sockets, SniffFires(s) \/ LoginFires(s) \/ ForceFires(s) \/ IdleFires(s) PROVE ConnInv'
  BY <1>9, FiresStep
<1> QED BY <1>1, <1>2, <1>3, <1>4, <1>5, <1>6, <1>7, <1>8, <1>9 DEF ConnNext

-----------------------------------------------------------------------------
(* What that is worth.                                                     *)

LEMMA JoinCounted ==
  ASSUME NEW a \in Seq(Packets), NEW b \in Seq(Packets), NEW j, IsJoin(j, a, b), NEW top \in Int, Counted(a, top - Len(b)), Counted(b, top)
  PROVE  Counted(j, top) /\ j \in Seq(Packets) /\ Len(j) = Len(a) + Len(b)
<1>0. /\ Len(j) = Len(a) + Len(b) /\ Len(a) \in Nat /\ Len(b) \in Nat /\ j \in Seq(Packets)
      /\ \A i \in 1..Len(j) : \/ i \in 1..Len(a) /\ j[i] = a[i]
                              \/ i - Len(a) \in 1..Len(b) /\ j[i] = b[i - Len(a)] /\ i > Len(a)
  BY Joined DEF IsJoin
<1>1. ASSUME NEW i \in 1..Len(j) PROVE j[i].n = top - Len(j) + i
  <2>0. i \in Int OBVIOUS
  <2>1. CASE i \in 1..Len(a) /\ j[i] = a[i]
    <3>1. a[i].n = top - Len(b) - Len(a) + i BY <2>1 DEF Counted
    <3>2. top - Len(b) - Len(a) + i = top - (Len(a) + Len(b)) + i BY <1>0, <2>0
    <3> QED BY <1>0, <2>1, <3>1, <3>2
  <2>2. CASE i - Len(a) \in 1..Len(b) /\ j[i] = b[i - Len(a)] /\ i > Len(a)
    <3>1. b[i - Len(a)].n = top - Len(b) + (i - Len(a)) BY <2>2 DEF Counted
    <3>2. top - Len(b) + (i - Len(a)) = top - (Len(a) + Len(b)) + i BY <1>0, <2>0
    <3> QED BY <1>0, <2>2, <3>1, <3>2
  <2> QED BY <1>0, <2>1, <2>2
<1> QED BY <1>0, <1>1 DEF Counted

InHand(h) == IF h = Nothing THEN <<>> ELSE <<h>>
LEMMA OnlyOne == ASSUME NEW q, NEW h, Len(q) = 1, q[1] = h PROVE \A i \in 1..Len(q) : i = 1 /\ q[i] = h
<1>1. \A i \in 1..1 : i = 1 OBVIOUS
<1> QED BY <1>1
LEMMA RowIs ==
  ASSUME NEW h, h \in Packets \/ h = Nothing, NEW q \in Seq(Packets), NEW d \in Seq(Packets), NEW w \in Seq(Packets), NEW sent \in Nat,
         InOrder(h, q, d, w, sent), NEW line, line = InHand(h) \o q \o d \o w
  PROVE  /\ line \in Seq(Packets) /\ Rising(line)
         /\ d = <<>> /\ WithoutGap(h, q, w, sent) => Counted(line, sent)
<1>h. PICK hh : hh = InHand(h) OBVIOUS
<1>a. PICK a : IsJoin(a, hh, q) BY DEF IsJoin
<1>b. PICK b : IsJoin(b, a, d) BY DEF IsJoin
<1>0. IsJoin(line, b, w) BY <1>h, <1>a, <1>b DEF IsJoin
<1>1. /\ hh \in Seq(Packets) /\ (h = Nothing => hh = <<>>) /\ (h # Nothing => Len(hh) = 1 /\ hh[1] = h)
  BY <1>h DEF InHand
<1>2. Rising(q) /\ Rising(d) /\ Rising(w) /\ Before(q, d) /\ Before(q, w) /\ Before(d, w) /\ First(h, q) /\ First(h, d) /\ First(h, w)
  BY DEF InOrder
<1>3. Rising(hh) /\ Before(hh, q) /\ Before(hh, d) /\ Before(hh, w)
  <2>1. CASE h = Nothing
    <3>1. Len(hh) = 0 BY <1>1, <2>1
    <3> QED BY <3>1 DEF Rising, Before
  <2>2. CASE h # Nothing
    <3>1. \A i \in 1..Len(hh) : i = 1 /\ hh[i] = h BY <1>1, <2>2, OnlyOne
    <3>2. Rising(hh) BY <3>1 DEF Rising
    <3>3. Before(hh, q) BY <1>2, <2>2, <3>1 DEF Before, First
    <3>4. Before(hh, d) BY <1>2, <2>2, <3>1 DEF Before, First
    <3>5. Before(hh, w) BY <1>2, <2>2, <3>1 DEF Before, First
    <3> QED BY <3>2, <3>3, <3>4, <3>5
  <2> QED BY <2>1, <2>2
<1>4. a \in Seq(Packets) /\ Rising(a) /\ Len(a) = Len(hh) + Len(q)
  BY <1>1, <1>2, <1>3, <1>a, JoinedRow
<1>5. Before(a, d) /\ Before(a, w) BY <1>1, <1>2, <1>3, <1>a, JoinedRow
<1>6. b \in Seq(Packets) /\ Rising(b) BY <1>2, <1>4, <1>5, <1>b, JoinedRow
<1>7. Before(b, w) BY <1>2, <1>4, <1>5, <1>b, JoinedRow
<1>8. line \in Seq(Packets) /\ Rising(line)
  <2>1. ASSUME NEW l, IsJoin(l, b, w) PROVE l \in Seq(Packets) /\ Rising(l)
    <3>1. l \in Seq(Packets) BY <1>6, <2>1, JoinedRow
    <3>2. Rising(l) BY <1>2, <1>6, <1>7, <2>1, JoinedRow
    <3> QED BY <3>1, <3>2
  <2> QED BY <1>0, <2>1
<1>9. ASSUME d = <<>>, WithoutGap(h, q, w, sent) PROVE Counted(line, sent)
  <2>0. Len(q) \in Nat /\ Len(w) \in Nat /\ sent - Len(w) \in Int OBVIOUS
  <2>1. Counted(hh, sent - Len(w) - Len(q))
    <3>1. CASE h = Nothing BY <1>1, <3>1 DEF Counted
    <3>2. CASE h # Nothing
      <4>1. h.n = sent - Len(w) - Len(q) BY <1>9, <3>2 DEF WithoutGap
      <4>2. sent - Len(w) - Len(q) = sent - Len(w) - Len(q) - 1 + 1 BY <2>0
      <4>3. \A i \in 1..Len(hh) : i = 1 /\ hh[i] = h BY <1>1, <3>2, OnlyOne
      <4>4. Len(hh) = 1 BY <1>1, <3>2
      <4> QED BY <2>0, <4>1, <4>2, <4>3, <4>4 DEF Counted
    <3> QED BY <3>1, <3>2
  <2>2. Counted(a, sent - Len(w)) BY <1>1, <1>9, <1>a, <2>0, <2>1, JoinCounted DEF WithoutGap
  <2>3. b = a BY <1>4, <1>9, <1>b DEF IsJoin
  <2>4. Counted(line, sent) BY <1>0, <1>4, <1>9, <2>2, <2>3, JoinCounted DEF WithoutGap
  <2> QED BY <2>4
<1> QED BY <1>8, <1>9

LineOf(k) == InHand(k.handling) \o k.queue \o k.decoder \o k.wire
LEMMA InOneOrder == ConnInv => OneAtATimeInOrder
<1>a. SUFFICES ASSUME ConnInv PROVE \A s \in Sockets :
        socket[s].stage = "session" /\ ~socket[s].closed /\ ~socket[s].destroyed /\ ~socket[s].closing =>
          \A i \in 1..(Len(LineOf(socket[s])) - 1) :
            LineOf(socket[s])[i].n < LineOf(socket[s])[i + 1].n
            /\ (LineOf(socket[s])[i + 1].n = LineOf(socket[s])[i].n + 1 \/ socket[s].browser)
  BY DEF OneAtATimeInOrder, LineOf, InHand
<1>b. SUFFICES ASSUME NEW s \in Sockets, NEW k, k = socket[s], k.stage = "session", ~k.closed, ~k.destroyed, ~k.closing,
                    NEW line, line = LineOf(k), NEW i \in 1..(Len(line) - 1)
             PROVE  line[i].n < line[i + 1].n /\ (line[i + 1].n = line[i].n + 1 \/ k.browser)
  OBVIOUS
<1>1. SocketInv(k) /\ Rows(k) BY <1>a, <1>b, InvIs
<1>2. Going(k, FALSE, FALSE) BY <1>b, <1>1 DEF SocketInv, Lively, Dead
<1>3. InOrder(k.handling, k.queue, k.decoder, k.wire, k.sent) /\ (~k.browser => k.decoder = <<>> /\ WithoutGap(k.handling, k.queue, k.wire, k.sent))
  BY <1>2 DEF Going, InLine, Steered
<1>4. line \in Seq(Packets) /\ Rising(line) /\ (~k.browser => Counted(line, k.sent))
  <2>1. ASSUME NEW h, NEW q, NEW d, NEW w, NEW sent, h = k.handling, q = k.queue, d = k.decoder, w = k.wire, sent = k.sent
        PROVE  line \in Seq(Packets) /\ Rising(line) /\ (d = <<>> /\ WithoutGap(h, q, w, sent) => Counted(line, sent))
    <3>1. (h \in Packets \/ h = Nothing) /\ q \in Seq(Packets) /\ d \in Seq(Packets) /\ w \in Seq(Packets) /\ sent \in Nat
          /\ InOrder(h, q, d, w, sent)
      BY <1>1, <1>3, <2>1 DEF Rows
    <3>2. line = InHand(h) \o q \o d \o w BY <1>b, <2>1 DEF LineOf
    <3> HIDE <2>1
    <3> QED BY <3>1, <3>2, RowIs
  <2> QED BY <1>3, <2>1
<1>5. i \in 1..Len(line) /\ i + 1 \in 1..Len(line) /\ i < i + 1 /\ i \in Int /\ Len(line) \in Nat
  <2>1. Len(line) \in Nat BY <1>4
  <2> QED BY <2>1
<1>6. line[i].n < line[i + 1].n BY <1>4, <1>5 DEF Rising
<1>7. ASSUME ~k.browser PROVE line[i + 1].n = line[i].n + 1
  <2>1. line[i].n = k.sent - Len(line) + i /\ line[i + 1].n = k.sent - Len(line) + (i + 1)
    BY <1>4, <1>5, <1>7 DEF Counted
  <2>2. k.sent - Len(line) + (i + 1) = k.sent - Len(line) + i + 1
    <3>1. k.sent \in Nat BY <1>1 DEF Rows
    <3>2. ASSUME NEW a \in Nat, NEW l \in Nat PROVE a - l + (i + 1) = a - l + i + 1 BY <1>5
    <3> QED BY <1>5, <3>1, <3>2
  <2> QED BY <2>1, <2>2
<1> QED BY <1>6, <1>7

LEMMA GoesOn == ConnInv => SomethingResumes
<1> SUFFICES ASSUME ConnInv, NEW s \in Sockets, NEW k, k = socket[s], k.stage = "session", ~k.closed, ~k.destroyed, ~k.closing
             PROVE  /\ k.paused => k.reasons # {} \/ k.controlBackpressured
                    /\ "queue" \in k.reasons => k.handling # Nothing
                    /\ "write" \in k.reasons \/ k.controlBackpressured => k.needsDrain
                    /\ k.browser /\ ~k.externallyPaused /\ ~k.controlBackpressured => k.decoder = <<>>
                    /\ k.browser => (k.externallyPaused <=> k.reasons # {})
                    /\ k.queue # <<>> => k.handling # Nothing
  BY DEF SomethingResumes
<1>1. Going(k, FALSE, FALSE) /\ HandedOn(k) BY InvIs DEF SocketInv, Lively, Dead
<1> QED BY <1>1 DEF Going, Steered, Served, HandedOn

LEMMA CountsAreRight == ConnInv => CountsAreSockets
<1>1. ASSUME ConnInv PROVE DOMAIN activeSocketsByAddress = Addresses
  BY <1>1 DEF ConnInv, OnAddresses
<1> QED BY <1>1 DEF ConnInv, Tallied, CountsAreSockets, AliveIn, AliveAt

-----------------------------------------------------------------------------
(* The town as one: its parts side by side.                                *)

LEMMA TownSteps ==
  [AllNext]_allVars => /\ [EconomyNext]_economyVars /\ [RevokeNext]_revokeVars /\ [WebNext]_webVars /\ [FriendNext]_friendVars
                       /\ [SlotNext]_slotVars /\ [ConnNext]_connVars
BY DEF AllNext, allVars

LEMMA TownHolds == AllSpec => [](EconomyInv /\ RevokeInv /\ WebInv /\ FriendInv /\ SlotInv /\ ConnInv)
<1> DEFINE All == EconomyInv /\ RevokeInv /\ WebInv /\ FriendInv /\ SlotInv /\ ConnInv
<1>1. AllInit => All
  BY EconomyBegins, RevokeBegins, WebBegins, FriendBegins, SlotStart, ConnStart DEF AllInit
<1>2. All /\ [AllNext]_allVars => All'
  BY TownSteps, EconomyStays, RevokeStays, WebStays, FriendStays, SlotStep, ConnStep
<1> QED BY <1>1, <1>2, PTL DEF AllSpec

\* A token of before a deletion brings nobody back, unless two processes lost a revocation between them,
\* and an account that a run holds is not deleted under it (revocations.js, rpc-handlers.js, accounts.js).
THEOREM DeletionsHold == AllSpec => [](DeletedStaysDeleted /\ NobodyHoldsTheDeleted)
<1>1. RevokeInv => DeletedStaysDeleted /\ NobodyHoldsTheDeleted BY DEF RevokeInv
<1> QED BY <1>1, TownHolds, PTL

\* No token of a sign-in and no pass outlives the player's sign-out, those of a later second are not
\* taken for ones of before, and who was denied comes in only by what had crossed the denial
\* (browser-sessions.js, launch-codes.js, play-pass.js, auth.js).
THEOREM SignOutsAndDenialsHold == AllSpec => [](SignOutsHold /\ DenialsHold)
<1>1. WebInv => SignOutsHold /\ DenialsHold BY SignOutsAreKept DEF WebInv
<1> QED BY <1>1, TownHolds, PTL

\* Two accounts that no crash tore apart list each other or do not, and neither a block nor a request
\* stands beside a friendship (social.js befriend, unfriend, ignore; rpc-handlers.js).
THEOREM FriendsAreMutual == AllSpec => []FriendshipsAreMutual
BY FriendshipsAreBoth, TownHolds, PTL

\* What two accounts share they share alike: goods change hands once and value is kept unless a fault
\* tears a write of both, no gift is given past its ration, and friendships are mutual (trade.js,
\* market.js, gifts.js, social.js, accounts.js).
THEOREM AccountsAgree == AllSpec => []TwoAccountsAgree
<1>1. OnlyTornPairsLose /\ GiftsAreRationed /\ FriendshipsAreMutual => TwoAccountsAgree
  BY DEF TwoAccountsAgree
<1> QED BY <1>1, NothingIsLost, RationsAreKept, FriendshipsAreBoth, TownHolds, PTL

\* Whom a connection follows is a friend, or was one as a login read it, and its panel shows where he
\* is and nobody else (presence.js).
THEOREM FollowersAreRight == AllSpec => [](OnlyFriendsAreFollowed /\ PanelsTellTheTruth)
<1>1. FriendInv => OnlyFriendsAreFollowed /\ PanelsTellTheTruth
  BY FollowedAreFriends, PanelsAreTrue
<1> QED BY <1>1, TownHolds, PTL

\* No client meets an object id twice, whatever threads are lost and replaced, and it meets none of its own
\* (worker-slots.js, ids.js): for any slots, any floor of ids and any range that is the client's.
THEOREM NumbersStayNew == AllSpec => []NumbersAreNew
BY SlotInvIsEnough, TownHolds, PTL

\* The counts behind the limits are those of the sockets there are, in all and of every address, however
\* a socket was refused, ended or lost (index.js admitSocket, admitAddress, onClose).
THEOREM CountsHold == AllSpec => []CountsAreSockets
BY CountsAreRight, TownHolds, PTL

\* Whatever stops the reading of a session goes away again - a packet in hand, a stream that drains, a
\* worker -, and a frame that was decoded waits for nothing that has already happened (index.js
\* updateReadFlow, websocket.js drainFrames, resume): for any chunks and frames, any sizes of the queue.
THEOREM ReadingGoesOn == AllSpec => []SomethingResumes
BY GoesOn, TownHolds, PTL

\* What is in hand, queued, decoded and on its way are the packets of the client in their order, each
\* once, and of its own stream without a gap (index.js drain, websocket.js drainFrames).
THEOREM PacketsKeepTheirOrder == AllSpec => []OneAtATimeInOrder
BY InOneOrder, TownHolds, PTL

\* The four together: what is served is served in order, for any slots, sockets, addresses and limits.
THEOREM ClientsAreServed == AllSpec => []ClientsAreServedInOrder
<1>1. NumbersAreNew /\ CountsAreSockets /\ SomethingResumes /\ OneAtATimeInOrder => ClientsAreServedInOrder
  BY DEF ClientsAreServedInOrder
<1> QED BY <1>1, NumbersStayNew, CountsHold, ReadingGoesOn, PacketsKeepTheirOrder, PTL

\* The rest of the town together: nobody outstays a leave, for any accounts, connections, terms and moments.
THEOREM LeavesAreNotOutstayed == AllSpec => []NobodyOutstaysHisLeave
<1>1. DeletedStaysDeleted /\ NobodyHoldsTheDeleted /\ (SignOutsHold /\ DenialsHold)
      /\ (OnlyFriendsAreFollowed /\ PanelsTellTheTruth) => NobodyOutstaysHisLeave
  BY DEF NobodyOutstaysHisLeave
<1> QED BY <1>1, DeletionsHold, SignOutsAndDenialsHold, FollowersAreRight, PTL
=============================================================================
