----------------------------- MODULE Revocation -----------------------------
(***************************************************************************)
(* What ends a sign-in.  First, the revocation of an account's tokens      *)
(* (auth.js) and the deletion of the account, after which nothing may      *)
(* bring it back; then the browser client's sessions, which the player     *)
(* or a denial ends (browser-sessions.js).                                 *)
(*                                                                         *)
(* A token is signed with the account's generation.  Generations are kept  *)
(* in a file, which a tool may write as well, or in the database, which is *)
(* asked every few seconds; a check reads what the server's memory has.    *)
(* An account that is loaded and not there is made.                        *)
(***************************************************************************)
EXTENDS Integers, FiniteSets

CONSTANT MaxRevocations   \* bound: revocations, reads, requests and edits of the file

ASSUME RevocationAssumption == MaxRevocations \in Nat

VARIABLES
  keeps,     \* where generations are kept: "file" or "store"
  kept,      \* the generation there, and whether a file reads as one
  memory,    \* the server's: the generation, whether it has one, whether it was read just now
  reading,   \* what a query under way has read
  bumping,   \* the server's own revocation in the store, until it is answered
  tool,      \* the generation another process has read, to write the file
  tokens,    \* the generations of the tokens handed out
  asked,     \* whether a request of the website is past its look at the account
  conn, call,\* the game connection, and a call that was let in
  held,      \* whether a run holds the account
  removal, stored,
  acts,
  revoked,   \* the generation the deletion raised it to
  overwritten,      \* whether a revocation was written over
  back       \* how a deleted account came back

revokeVars == <<keeps, kept, memory, reading, bumping, tool, tokens, asked, conn, call, held, removal,
                stored, acts, revoked, overwritten, back>>
keepVars == <<keeps, kept, memory, reading, bumping, tool, overwritten>>
siteVars == <<tokens, asked>>
heldVars == <<held, stored, back>>
gameVars == <<conn, call, held, stored, back>>

None == -1
NobodyThere == [gen |-> None, before |-> FALSE]

RevokeInit ==
  /\ keeps \in {"file", "store"}
  /\ kept = [gen |-> 0, whole |-> TRUE]
  /\ memory = [gen |-> 0, readable |-> TRUE, fresh |-> TRUE]
  /\ reading = None /\ bumping = None /\ tool = None
  /\ tokens = {0} /\ asked = FALSE /\ conn = NobodyThere /\ call = NobodyThere /\ held = FALSE
  /\ removal = "none" /\ stored = "yes" /\ acts = 0
  /\ revoked = None /\ overwritten = FALSE /\ back = "no"

Counts == acts < MaxRevocations /\ acts' = acts + 1

-----------------------------------------------------------------------------
(* Generations.                                                            *)

\* Mutant of Merged: what was read last is believed
LastRead(gen) == gen
\* mergeGenerations: generations only go up
Merged(gen) == IF gen > memory.gen THEN gen ELSE memory.gen
Knows(gen) == memory' = [gen |-> gen, readable |-> TRUE, fresh |-> TRUE]

\* refreshGenerations: the file is read again by the first check of its window; one that does
\* not read as one is remembered as such until it does
Refreshes ==
  /\ keeps = "file" /\ ~memory.fresh
  /\ IF kept.whole THEN Knows(kept.gen)
     ELSE memory' = [memory EXCEPT !.readable = FALSE, !.fresh = TRUE]
  /\ UNCHANGED <<keeps, kept, reading, bumping, tool, overwritten, siteVars, gameVars, removal, acts, revoked>>

\* refreshFromStore: the query, and its answer or its failure, which changes nothing
ReadLeaves ==
  /\ keeps = "store" /\ reading = None /\ Counts
  /\ reading' = kept.gen
  /\ UNCHANGED <<keeps, kept, memory, bumping, tool, overwritten, siteVars, gameVars, removal, revoked>>
ReadComes(answered) ==
  /\ reading # None /\ reading' = None
  /\ IF answered THEN Knows(Merged(reading)) ELSE UNCHANGED memory
  /\ UNCHANGED <<keeps, kept, bumping, tool, overwritten, siteVars, gameVars, removal, acts, revoked>>

\* Another process: in the store one statement; in the file it reads, adds and writes, for this
\* account or for another
ToolBumps ==
  /\ keeps = "store" /\ Counts /\ kept' = [kept EXCEPT !.gen = @ + 1]
  /\ UNCHANGED <<keeps, memory, reading, bumping, tool, overwritten, siteVars, gameVars, removal, revoked>>
ToolReads ==
  /\ keeps = "file" /\ tool = None /\ kept.whole /\ Counts
  /\ tool' = kept.gen
  /\ UNCHANGED <<keeps, kept, memory, reading, bumping, overwritten, siteVars, gameVars, removal, revoked>>
ToolWrites(raise) ==
  /\ tool # None /\ tool' = None
  /\ kept' = [gen |-> tool + raise, whole |-> TRUE]
  /\ overwritten' = (overwritten \/ kept.gen # tool)
  /\ UNCHANGED <<keeps, memory, reading, bumping, siteVars, gameVars, removal, acts, revoked>>

\* A file that was edited by hand, and put right
FileBreaks ==
  /\ keeps = "file" /\ Counts /\ kept' = [kept EXCEPT !.whole = ~@]
  /\ UNCHANGED <<keeps, memory, reading, bumping, tool, overwritten, siteVars, gameVars, removal, revoked>>

\* revokeInFile: read again and written at once; a file that does not read refuses it
RevokedInFile ==
  /\ keeps = "file" /\ kept.whole
  /\ kept' = [kept EXCEPT !.gen = @ + 1] /\ Knows(kept.gen + 1)
  /\ UNCHANGED <<keeps, reading, bumping, tool, overwritten>>
\* revokeInStore: the statement
BumpLeaves ==
  /\ keeps = "store" /\ bumping = None
  /\ kept' = [kept EXCEPT !.gen = @ + 1] /\ bumping' = kept.gen + 1
  /\ UNCHANGED <<keeps, memory, reading, tool, overwritten>>

\* POST .../revoke
RevokesTokens ==
  /\ removal = "none" /\ Counts /\ (RevokedInFile \/ BumpLeaves)
  /\ UNCHANGED <<siteVars, gameVars, removal, revoked>>

\* removeAccount goes on: the connections are closed, and what was let in is under way
Revoked(gen) ==
  /\ removal' = "waiting" /\ revoked' = gen
  /\ conn' = NobodyThere /\ call' = IF call = NobodyThere THEN NobodyThere ELSE [call EXCEPT !.before = TRUE]
\* Its answer; a deletion goes on, or fails with it
BumpAnswers(answered) ==
  /\ bumping # None /\ bumping' = None
  /\ IF answered THEN Knows(Merged(bumping)) ELSE UNCHANGED memory
  /\ IF removal # "revoking" THEN UNCHANGED <<removal, revoked, conn, call>>
     ELSE IF answered THEN Revoked(bumping)
     ELSE removal' = "none" /\ UNCHANGED <<revoked, conn, call>>
  /\ UNCHANGED <<keeps, kept, reading, tool, overwritten, siteVars, heldVars, acts>>

\* The file's window of five seconds ends: the next check reads it again
WindowEnds ==
  /\ keeps = "file" /\ memory.fresh /\ memory' = [memory EXCEPT !.fresh = FALSE]
  /\ UNCHANGED <<keeps, kept, reading, bumping, tool, overwritten, siteVars, gameVars, removal, acts, revoked>>

-----------------------------------------------------------------------------
(* Tokens.                                                                 *)

\* issueToken: there is none while the generations cannot be read
Issues == memory.readable /\ memory.fresh /\ tokens' = tokens \cup {memory.gen}

\* A request of the website, or a launch code spent: the account is looked up, and the token is
\* made when that is answered
SiteAsks ==
  /\ ~asked /\ stored # "gone" /\ Counts /\ asked' = TRUE
  /\ UNCHANGED <<keepVars, tokens, gameVars, removal, revoked>>
SiteAnswers ==
  /\ asked /\ asked' = FALSE /\ Issues
  /\ UNCHANGED <<keepVars, gameVars, removal, acts, revoked>>
\* account/token, by a call that was let in
RefreshesToken ==
  /\ call # NobodyThere /\ Issues
  /\ UNCHANGED <<keepVars, asked, gameVars, removal, acts, revoked>>

\* tokenProblem: the generation it was signed with
TakesToken(gen) == memory.readable /\ memory.fresh /\ gen = memory.gen

\* authorise, or handleLogin, which is one account's one connection
CallsIn(gen, login) ==
  /\ call = NobodyThere /\ TakesToken(gen)
  /\ call' = [gen |-> gen, before |-> FALSE] /\ conn' = IF login THEN call' ELSE conn
  /\ UNCHANGED <<keepVars, siteVars, held, stored, back, removal, acts, revoked>>

\* loadAccount: an account that is not there is made
GoneBack(by) ==
  IF stored # "gone" THEN UNCHANGED <<stored, back>>
  ELSE /\ stored' = "again"
       /\ back' = IF by.before THEN "late" ELSE IF by.gen >= revoked THEN "issued since" ELSE "wrong"
CallLoads ==
  /\ call # NobodyThere /\ call' = NobodyThere /\ GoneBack(call)
  /\ UNCHANGED <<keepVars, siteVars, conn, held, removal, acts, revoked>>

\* acquireAccount and releaseAccount; a run outlives its connection until it is settled
Holds ==
  /\ conn # NobodyThere /\ ~held /\ held' = TRUE /\ GoneBack(conn)
  /\ UNCHANGED <<keepVars, siteVars, conn, call, removal, acts, revoked>>
LetsGo ==
  /\ held /\ held' = FALSE
  /\ UNCHANGED <<keepVars, siteVars, conn, call, stored, back, removal, acts, revoked>>
CutsOff ==
  /\ conn # NobodyThere /\ conn' = NobodyThere
  /\ UNCHANGED <<keepVars, siteVars, call, held, stored, back, removal, acts, revoked>>

-----------------------------------------------------------------------------
(* removeAccount and deleteAccount.                                        *)

RemovalAsked ==
  /\ removal = "none" /\ stored = "yes" /\ Counts
  /\ \/ RevokedInFile /\ Revoked(kept.gen + 1)
     \/ BumpLeaves /\ removal' = "revoking" /\ UNCHANGED <<revoked, conn, call>>
  /\ UNCHANGED <<siteVars, heldVars>>

\* It looks for a holder, waits for the lock and looks again
LooksForHolder ==
  /\ removal = "waiting" /\ ~held /\ removal' = "locking"
  /\ UNCHANGED <<keepVars, siteVars, gameVars, acts, revoked>>
\* Mutant of MayDelete: it was looked before
LookedBefore == TRUE
MayDelete == ~held
Deletes ==
  /\ removal = "locking"
  /\ IF MayDelete THEN removal' = "done" /\ stored' = "gone" ELSE removal' = "waiting" /\ UNCHANGED stored
  /\ UNCHANGED <<keepVars, siteVars, conn, call, held, back, acts, revoked>>
\* Still held when the wait runs out: it is asked again
GivesUp ==
  /\ removal = "waiting" /\ removal' = "none"
  /\ UNCHANGED <<keepVars, siteVars, gameVars, acts, revoked>>

RevokeNext ==
  \/ Refreshes \/ ReadLeaves \/ ToolBumps \/ ToolReads \/ FileBreaks \/ RevokesTokens \/ WindowEnds
  \/ \E answered \in BOOLEAN : ReadComes(answered) \/ BumpAnswers(answered)
  \/ \E raise \in {0, 1} : ToolWrites(raise)
  \/ SiteAsks \/ SiteAnswers \/ RefreshesToken
  \/ \E gen \in tokens, login \in BOOLEAN : CallsIn(gen, login)
  \/ CallLoads \/ Holds \/ LetsGo \/ CutsOff
  \/ RemovalAsked \/ LooksForHolder \/ Deletes \/ GivesUp
RevokeSpec == RevokeInit /\ [][RevokeNext]_revokeVars

-----------------------------------------------------------------------------
(* Properties.                                                             *)

RevokeTypeOK ==
  /\ kept.gen \in Nat /\ memory.gen \in Nat /\ tokens \subseteq 0..MaxRevocations
  /\ {reading, bumping, tool, revoked} \subseteq Nat \cup {None}
  /\ removal \in {"none", "revoking", "waiting", "locking", "done"}
  /\ stored \in {"yes", "gone", "again"} /\ back \in {"no", "late", "issued since", "wrong"}

\* Whatever reads and answers overlap, a token of before the deletion lets nobody in once it is
\* revoked, so a deleted account comes back only through what had been let in by then or through a
\* token handed out since; unless two processes wrote the file at once and one revocation was lost.
DeletedStaysDeleted == back = "wrong" => overwritten

\* An account is not deleted under a run that holds it.
NobodyHoldsTheDeleted == held => stored # "gone"
-----------------------------------------------------------------------------
(***************************************************************************)
(* The browser client of one account: who may open it                      *)
(* (web-client-access.js), the launch code that opens it (launch-codes.js),*)
(* the session tokens and the play pass it runs on (auth.js, play-pass.js),*)
(* and the player's sign-out, which ends them (browser-sessions.js).       *)
(*                                                                         *)
(* Expiries are whole seconds, sign-outs are of the moment: time passes in *)
(* halves.  A renewal waits for the account's lock before it issues.       *)
(***************************************************************************)

CONSTANTS SessionTtl, KeptTtl, PassTtl, RenewWithin, CodeTtl,   \* in seconds
          MaxNow,      \* bound: half seconds
          MaxEvents    \* bound: requests and decisions

ASSUME WebSessionsAssumption ==
  /\ {SessionTtl, KeptTtl, PassTtl, RenewWithin, CodeTtl} \subseteq Nat \ {0}
  /\ SessionTtl < KeptTtl /\ RenewWithin < PassTtl /\ {MaxNow, MaxEvents} \subseteq Nat

VARIABLES
  clock, events,
  access,     \* the account's web_client.state
  deciding,   \* whether a denial is saved and its sign-out is still to come
  signedOut,  \* endedAt
  code,       \* when the launch code lapses, and whether it came across a denial
  opening,    \* requests under way: a code's, by the state it read; a launch's; a renewal's, by its token
  sessions,   \* the tokens: their expiry, how they were come by, whether across a sign-out
  pass,       \* the expiry of the browser's play pass, and whether it came across a sign-out
  playing     \* the browser's game connection

webVars == <<clock, events, access, deciding, signedOut, code, opening, sessions, pass, playing>>

Never == -1
NoCode == [lapses |-> Never, across |-> FALSE]
NotOpening == [code |-> "idle", launch |-> "idle", renewal |-> "idle"]
Second == clock \div 2
KeptToken == [expiry |-> KeptTtl, by |-> "kept", across |-> FALSE]

WebInit ==
  /\ clock = 0 /\ events = 0 /\ access = "none" /\ deciding = FALSE /\ signedOut = Never
  /\ code = NoCode /\ opening = NotOpening /\ sessions = {KeptToken}
  /\ pass = [expiry |-> Never, across |-> FALSE] /\ playing = FALSE

PeopleAsk == events < MaxEvents /\ events' = events + 1

\* issuedBeforeSignOut, of something that was issued in this second
IssuedBeforeSignOut(second) == signedOut # Never /\ 2 * second <= signedOut

\* A token says nothing of its term: one that has no more than a session left is taken for one
TakenForSession(t) == t.expiry - Second <= SessionTtl
\* Mutant of Accepts: the sign-out is not looked at
StillGood(t) == t.expiry > Second
\* tokenProblem, of a token of the account's generation
Accepts(t) ==
  /\ t.expiry > Second
  /\ TakenForSession(t) => ~IssuedBeforeSignOut(t.expiry - SessionTtl)
\* checkPlayPass
PassHolds == pass.expiry > Second /\ ~IssuedBeforeSignOut(pass.expiry - PassTtl)

\* What was under way when the player signed out comes across it
Across(o) == [o EXCEPT !.code = IF @ = "approved" THEN "across" ELSE @,
                       !.launch = IF @ = "on" THEN "across" ELSE @,
                       !.renewal = IF @ = "on" THEN "across" ELSE @]

-----------------------------------------------------------------------------
(* Approval.                                                               *)

\* requestWebClient: one that has an answer keeps it
RequestsAccess ==
  /\ access = "none" /\ PeopleAsk /\ access' = "pending"
  /\ UNCHANGED <<clock, deciding, signedOut, code, opening, sessions, pass, playing>>
\* decideWebClient, under the account's lock
Decides(state) ==
  /\ ~deciding /\ PeopleAsk /\ access' = state /\ deciding' = (state = "denied")
  /\ UNCHANGED <<clock, signedOut, code, opening, sessions, pass, playing>>
\* answerWebClient goes on: a denial drops the codes and ends the sessions
DenialEnds ==
  /\ deciding /\ deciding' = FALSE
  /\ code' = NoCode /\ signedOut' = clock /\ opening' = Across(opening)
  /\ UNCHANGED <<clock, events, access, sessions, pass, playing>>

\* browserSignOut: and the browser's connection is closed
SignsOut ==
  /\ PeopleAsk /\ signedOut' = clock /\ playing' = FALSE /\ opening' = Across(opening)
  /\ UNCHANGED <<clock, access, deciding, code, sessions, pass>>

-----------------------------------------------------------------------------
(* The way in.                                                             *)

\* issueLaunchCode: the account is read, and judged when it is there
CodeAsked ==
  /\ opening.code = "idle" /\ PeopleAsk /\ opening' = [opening EXCEPT !.code = access]
  /\ UNCHANGED <<clock, access, deciding, signedOut, code, sessions, pass, playing>>
CodeComes ==
  /\ opening.code # "idle" /\ opening' = [opening EXCEPT !.code = "idle"]
  /\ code' = IF opening.code \in {"approved", "across"}
             THEN [lapses |-> Second + CodeTtl, across |-> opening.code = "across"] ELSE code
  /\ UNCHANGED <<clock, events, access, deciding, signedOut, sessions, pass, playing>>

\* launch: the code is spent, then the account looked for
Launches ==
  /\ code # NoCode /\ opening.launch = "idle" /\ code' = NoCode
  /\ opening' = [opening EXCEPT !.launch = IF code.lapses <= Second THEN @ ELSE IF code.across THEN "across" ELSE "on"]
  /\ UNCHANGED <<clock, events, access, deciding, signedOut, sessions, pass, playing>>
LaunchEnds ==
  /\ opening.launch # "idle" /\ opening' = [opening EXCEPT !.launch = "idle"]
  /\ sessions' = sessions \cup {[expiry |-> Second + SessionTtl, by |-> "launch", across |-> opening.launch = "across"]}
  /\ pass' = [expiry |-> Second + PassTtl, across |-> opening.launch = "across"]
  /\ UNCHANGED <<clock, events, access, deciding, signedOut, code, playing>>

\* account/token: let in by a token, it waits for the account's lock
RenewalAsked(t) ==
  /\ opening.renewal = "idle" /\ Accepts(t) /\ PeopleAsk
  /\ opening' = [opening EXCEPT !.renewal = IF t.across THEN "across" ELSE IF t.by = "launch" THEN "on" ELSE "desktop"]
  /\ UNCHANGED <<clock, access, deciding, signedOut, code, sessions, pass, playing>>
RenewalEnds ==
  /\ opening.renewal # "idle" /\ opening' = [opening EXCEPT !.renewal = "idle"]
  /\ sessions' = sessions \cup {[expiry |-> Second + SessionTtl, by |-> IF opening.renewal = "desktop" THEN "desktop" ELSE "launch",
                                 across |-> opening.renewal = "across"]}
  /\ UNCHANGED <<clock, events, access, deciding, signedOut, code, pass, playing>>

\* serveWebClient: a pass that runs out soon is renewed with the file it opened
FileAsked ==
  /\ PassHolds /\ 2 * pass.expiry - clock < 2 * RenewWithin
  /\ pass' = [pass EXCEPT !.expiry = Second + PassTtl]
  /\ UNCHANGED <<clock, events, access, deciding, signedOut, code, opening, sessions, playing>>

\* handleLogin of the browser, and the end of its connection
Plays(t) ==
  /\ ~playing /\ t.by = "launch" /\ Accepts(t) /\ playing' = TRUE
  /\ UNCHANGED <<clock, events, access, deciding, signedOut, code, opening, sessions, pass>>
HangsUp ==
  /\ playing /\ playing' = FALSE
  /\ UNCHANGED <<clock, events, access, deciding, signedOut, code, opening, sessions, pass>>

TimePasses ==
  /\ clock < MaxNow /\ clock' = clock + 1
  /\ UNCHANGED <<events, access, deciding, signedOut, code, opening, sessions, pass, playing>>

WebNext ==
  \/ RequestsAccess \/ DenialEnds \/ SignsOut \/ CodeAsked \/ CodeComes \/ Launches \/ LaunchEnds
  \/ \E state \in {"approved", "denied"} : Decides(state)
  \/ \E t \in sessions : RenewalAsked(t) \/ Plays(t)
  \/ RenewalEnds \/ FileAsked \/ HangsUp \/ TimePasses
WebSpec == WebInit /\ [][WebNext]_webVars

-----------------------------------------------------------------------------
(* Properties.                                                             *)

WebTypeOK ==
  /\ clock \in 0..MaxNow /\ {signedOut, code.lapses, pass.expiry} \subseteq Nat \cup {Never}
  /\ access \in {"none", "pending", "approved", "denied"} /\ deciding \in BOOLEAN /\ playing \in BOOLEAN
  /\ \A t \in sessions : t.by \in {"kept", "desktop", "launch"} /\ t.across \in BOOLEAN

\* Every session token and every pass of before a sign-out is refused from then on, and one that is
\* issued in a later second is not taken for one of before.
SignOutsHold ==
  LET issued(t) == t.expiry - SessionTtl IN
  /\ \A t \in sessions : t.by # "kept" =>
       /\ (signedOut # Never /\ 2 * issued(t) + 1 <= signedOut => ~Accepts(t))
       /\ (issued(t) > signedOut \div 2 /\ t.expiry > Second => Accepts(t))
  /\ (pass.expiry # Never /\ 2 * (pass.expiry - PassTtl) + 1 <= signedOut => ~PassHolds)

\* A browser game that was denied is over: the browser comes in again only through a code, a launch
\* or a renewal that was under way when the sessions were ended.
DenialsHold ==
  access = "denied" /\ ~deciding =>
    /\ code # NoCode => code.across
    /\ opening.code # "approved" /\ opening.launch # "on" /\ opening.renewal # "on"
    /\ \A t \in sessions : t.by = "launch" /\ Accepts(t) => t.across
    /\ PassHolds => pass.across

\* "The desktop client's kept token is not touched" (browser-sessions.js): the code does otherwise
\* with a kept token that has less than a session left, so no run checks it.
KeptTokensAreNotTouched == \A t \in sessions : t.by = "kept" /\ t.expiry > Second => Accepts(t)
=============================================================================
