--------------------------- MODULE LifecycleScope ---------------------------
(***************************************************************************)
(* Lifetimes: the scopes of socket/lifecycle-scope.js, one for a run and   *)
(* under it one for each of its floors, and what they own: timers and      *)
(* cleanups.  Disposing is one turn of the thread, but a cleanup is code   *)
(* of its own and may cancel, register or dispose in the middle of it, so  *)
(* a disposal is a stack of steps here; timers fire between turns.         *)
(***************************************************************************)
EXTENDS Naturals, Sequences, FiniteSets, SequencesExt

CONSTANTS RunScope,     \* the scope of the run
          FloorScopes,  \* the scopes of its floors, in no order
          Handles,      \* bound: the timers and cleanups ever registered
          NoScope       \* `floorScope` without a floor

ASSUME ScopeAssumption == RunScope \notin FloorScopes /\ NoScope \notin FloorScopes \cup {RunScope}

VARIABLES
  scope,      \* each scope: "unmade", "open" or "disposed"
  owned,      \* its resources in the order they were registered
  kept,       \* its children
  handle,     \* each timer or cleanup: what it is, whose, and what became of it
  stack,      \* the disposals under way, the innermost first
  floorScope  \* match-world.js: the floor's

scopeVars == <<scope, owned, kept, handle, stack, floorScope>>

AllScopes == FloorScopes \cup {RunScope}
Kinds3 == {"timeout", "interval", "cleanup"}

ScopeInit ==
  /\ scope = [s \in AllScopes |-> IF s = RunScope THEN "open" ELSE "unmade"]
  /\ owned = [s \in AllScopes |-> <<>>]
  /\ kept = [s \in AllScopes |-> {}]
  /\ handle = [h \in Handles |-> [kind |-> "none", of |-> RunScope, armed |-> FALSE, ended |-> 0, late |-> FALSE]]
  /\ stack = <<>>
  /\ floorScope = NoScope

Turn == stack = <<>>                        \* nothing is being disposed
\* code runs: between turns, or as a cleanup
Runs == Turn \/ (stack # <<>> /\ Head(stack).at = "resources" /\ Head(stack).inside)

-----------------------------------------------------------------------------
(* Registering and cancelling.                                             *)

\* Mutant of Accepts: a disposed scope goes on taking what it is given
AcceptsAll(s) == TRUE
\* defer runs a cleanup at once on a disposed scope; timeout and interval give nothing
Accepts(s) == scope[s] = "open"

Registers(h, s, kind) ==
  /\ Runs /\ handle[h].kind = "none" /\ scope[s] # "unmade"
  /\ IF Accepts(s)
     THEN /\ handle' = [handle EXCEPT ![h] = [@ EXCEPT !.kind = kind, !.of = s, !.armed = TRUE]]
          /\ owned' = [owned EXCEPT ![s] = Append(@, h)]
     ELSE /\ handle' = [handle EXCEPT ![h] = [@ EXCEPT !.kind = kind, !.of = s,
                                                       !.ended = IF kind = "cleanup" THEN 1 ELSE 0]]
          /\ UNCHANGED owned
  /\ UNCHANGED <<scope, kept, stack, floorScope>>

Owns(s, h) == h \in Range(owned[s])
Without(s, h) == [owned EXCEPT ![s] = SelectSeq(@, LAMBDA x : x # h)]
Ended(h) == [handle EXCEPT ![h].armed = FALSE, ![h].ended = @ + 1]

\* cancel
Cancels(h) ==
  /\ Runs /\ handle[h].kind # "none" /\ Owns(handle[h].of, h)
  /\ owned' = Without(handle[h].of, h)
  /\ handle' = Ended(h)
  /\ UNCHANGED <<scope, kept, stack, floorScope>>

\* A timer comes due between turns: a timeout is done with, an interval goes on
Fires(h) ==
  /\ Turn /\ handle[h].armed /\ handle[h].kind \in {"timeout", "interval"}
  /\ LET s == handle[h].of
         runs == [handle[h] EXCEPT !.late = @ \/ scope[s] # "open"]
     IN IF handle[h].kind = "timeout"
        THEN /\ owned' = Without(s, h)
             /\ handle' = [handle EXCEPT ![h] = [runs EXCEPT !.armed = FALSE, !.ended = @ + 1]]
        ELSE /\ handle' = [handle EXCEPT ![h] = runs]
             /\ UNCHANGED owned
  /\ UNCHANGED <<scope, kept, stack, floorScope>>

-----------------------------------------------------------------------------
(* Disposing: children first, then what it owns, the last registered first *)

\* `called` by code, or with its parent
Disposal(s, called) == [of |-> s, called |-> called, at |-> "children", left |-> kept[s], todo |-> <<>>, inside |-> FALSE]

\* Mutant of Marked: marked only when it is through
MarkedAtTheEnd(s) == scope
\* `disposed` is set before anything is cleaned up
Marked(s) == [scope EXCEPT ![s] = "disposed"]

Disposes(s) ==
  /\ scope[s] = "open" /\ \A i \in DOMAIN stack : stack[i].of # s
  /\ scope' = Marked(s)
  /\ kept' = [kept EXCEPT ![RunScope] = @ \ {s}]
  /\ stack' = <<Disposal(s, TRUE)>> \o stack

\* endFloorScope, and the run's in quiesce, from anywhere code runs
CallsDispose(s) ==
  /\ Runs /\ Disposes(s)
  /\ UNCHANGED <<owned, handle, floorScope>>

Top == Head(stack)
Upon(frame) == stack' = <<frame>> \o Tail(stack)

\* the next child, or on to the resources as they are then
ChildDisposed ==
  /\ stack # <<>> /\ Top.at = "children"
  /\ IF Top.left = {}
     THEN /\ kept' = [kept EXCEPT ![Top.of] = {}]
          /\ Upon([Top EXCEPT !.at = "resources", !.todo = Reverse(owned[Top.of])])
          /\ UNCHANGED <<scope, floorScope>>
     ELSE \E c \in Top.left :
            /\ IF scope[c] = "open"
               THEN /\ scope' = Marked(c)
                    /\ stack' = <<Disposal(c, FALSE), [Top EXCEPT !.left = @ \ {c}]>> \o Tail(stack)
               ELSE Upon([Top EXCEPT !.left = @ \ {c}]) /\ UNCHANGED scope
            /\ UNCHANGED <<kept, floorScope>>
  /\ UNCHANGED <<owned, handle>>

\* One resource: unless a cleanup before it has ended it already.  A timer is cleared, a
\* cleanup runs (and may do what code does)
ResourceEnds ==
  /\ stack # <<>> /\ Top.at = "resources" /\ ~Top.inside /\ Top.todo # <<>>
  /\ LET h == Head(Top.todo)
     IN IF Owns(Top.of, h)
        THEN /\ owned' = Without(Top.of, h)
             /\ handle' = Ended(h)
             /\ Upon([Top EXCEPT !.todo = Tail(@), !.inside = handle[h].kind = "cleanup"])
        ELSE Upon([Top EXCEPT !.todo = Tail(@)]) /\ UNCHANGED <<owned, handle>>
  /\ UNCHANGED <<scope, kept, floorScope>>

\* The cleanup returns or throws, which is contained: on with the next
CleanupReturns ==
  /\ stack # <<>> /\ Top.inside
  /\ Upon([Top EXCEPT !.inside = FALSE])
  /\ UNCHANGED <<scope, owned, kept, handle, floorScope>>

\* whoever called it forgets the floor's scope
DisposalEnds ==
  /\ stack # <<>> /\ Top.at = "resources" /\ ~Top.inside /\ Top.todo = <<>>
  /\ stack' = Tail(stack)
  /\ scope' = [scope EXCEPT ![Top.of] = "disposed"]
  /\ floorScope' = IF Top.called /\ Top.of \in {floorScope, RunScope} THEN NoScope ELSE floorScope
  /\ UNCHANGED <<owned, kept, handle>>

-----------------------------------------------------------------------------
(* match-world.js: a floor's scope replaces the one before it.             *)

\* beginFloor, once the last floor's scope is gone; a run that is over gives a scope that is
\* over too
BeginsFloor(s) ==
  /\ Turn /\ scope[s] = "unmade" /\ floorScope = NoScope
  /\ scope' = [scope EXCEPT ![s] = IF Accepts(RunScope) THEN "open" ELSE "disposed"]
  /\ kept' = IF Accepts(RunScope) THEN [kept EXCEPT ![RunScope] = @ \cup {s}] ELSE kept
  /\ floorScope' = s
  /\ UNCHANGED <<owned, handle, stack>>

DisposalGoesOn == ChildDisposed \/ ResourceEnds \/ CleanupReturns \/ DisposalEnds
ScopeNext ==
  \/ DisposalGoesOn
  \/ \E h \in Handles : Cancels(h) \/ Fires(h) \/ \E s \in AllScopes, k \in Kinds3 : Registers(h, s, k)
  \/ \E s \in AllScopes : CallsDispose(s) \/ (s \in FloorScopes /\ BeginsFloor(s))

ScopeSpec == ScopeInit /\ [][ScopeNext]_scopeVars

-----------------------------------------------------------------------------
(* Properties.                                                             *)

ScopeTypeOK ==
  /\ scope \in [AllScopes -> {"unmade", "open", "disposed"}]
  /\ \A s \in AllScopes : Range(owned[s]) \subseteq Handles /\ kept[s] \subseteq FloorScopes
  /\ \A h \in Handles : handle[h].kind \in Kinds3 \cup {"none"} /\ handle[h].of \in AllScopes
  /\ floorScope \in FloorScopes \cup {NoScope}

\* When a disposal is through nothing of what the scope or its children owned is left,
\* though cleanups cancelled, registered and disposed meanwhile: every cleanup has run once,
\* and no timer of a disposed scope is armed or has fired since.
NothingOutlivesItsScope ==
  /\ \A h \in Handles : handle[h].ended <= 1 /\ ~handle[h].late
  /\ Turn => \A s \in AllScopes : scope[s] = "disposed" =>
       /\ owned[s] = <<>> /\ \A c \in kept[s] : scope[c] = "disposed"
       /\ \A h \in Handles : handle[h].of = s =>
            ~handle[h].armed /\ (handle[h].kind = "cleanup" => handle[h].ended = 1)
=============================================================================
