---- MODULE MCStorage ----
(* Bounds for what keeps the accounts: the file lock (three processes, two    *)
(* views of the machine), a server's life under the advisory lock.           *)
EXTENDS ProcessLock, ServerLife, TLC

CONSTANTS server1, replacement, container, host, elsewhere

ThreeProcesses == {server1, replacement, container}
TwoViews == {host, elsewhere}
ViewOfThree == [p \in ThreeProcesses |-> IF p = container THEN elsewhere ELSE host]
SameClocks == {}

VARIABLE part   \* the component a behaviour is of: they meet only where one of them says so
allVars == <<part, vars, lifeVars>>

AllInit ==
  /\ part \in {"file lock", "server life"}
  /\ Init /\ LifeInit
AllNext ==
  \/ part = "file lock" /\ Next /\ UNCHANGED <<part, lifeVars>>
  \/ part = "server life" /\ LifeNext /\ UNCHANGED <<part, vars>>
AllSpec ==
  /\ AllInit /\ [][AllNext]_allVars
  /\ \A p \in Processes :
       /\ WF_vars(part = "file lock" /\ StartupStep(p)) /\ WF_vars(part = "file lock" /\ ShutdownStep(p))
       /\ WF_vars(part = "file lock" /\ HeartbeatReads(p)) /\ WF_vars(part = "file lock" /\ HeartbeatTouches(p))
       /\ WF_vars(part = "file lock" /\ Resumes(p))
  /\ \A s \in Servers :
       WF_lifeVars(part = "server life" /\ HearsOfDrop(s)) /\ WF_lifeVars(part = "server life" /\ Retakes(s)) /\ WF_lifeVars(part = "server life" /\ Exits(s))

\* Beside the server that keeps the accounts writes at most the work of a broken connection or of a request cut
\* short: a stop leaves nothing else behind the stage that waits for it.
ServersKeepApart == LifeTypeOK /\ StagesAreDone /\ OnlyStragglersTrespass
\* Every start is answered, and a server that lost its lock ends.
ServersSettle == EveryStartIsAnswered /\ LostLocksEndIt
=============================================================================
