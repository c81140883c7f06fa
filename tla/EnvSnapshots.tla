---------------------------- MODULE EnvSnapshots ----------------------------
(***************************************************************************)
(* What ScopedEnv promises its callers, independently of how it is done:   *)
(* at most one thread at a time owns the process environment; each scope   *)
(* it opens remembers the WHOLE environment as it was; closing a scope     *)
(* puts that environment back, innermost first (a scope closed before one  *)
(* it encloses waits for it), and ownership is given up only when no scope *)
(* is left.  ScopedEnv implements this with one undo record per scope that *)
(* holds only the variables the scope touched.                             *)
(***************************************************************************)
EXTENDS Naturals, Sequences

CONSTANTS Threads,    \* threads of the test process
          Keys,       \* names of environment variables
          Values,     \* values of variables, the absent one included
          HostEnv,    \* the environment the process was started with
          NoThread    \* "nobody owns the environment"

VARIABLES env,        \* the process environment
          owner,      \* the thread that owns it, or NoThread
          scopes      \* the owner's scopes, outermost first

vars == <<env, owner, scopes>>

Scope == [before : [Keys -> Values], closed : BOOLEAN]

Init == /\ env = HostEnv
        /\ owner = NoThread
        /\ scopes = << >>

Own(t) == /\ owner = NoThread
          /\ owner' = t
          /\ scopes' = << [before |-> env, closed |-> FALSE] >>
          /\ UNCHANGED env

Open == /\ owner # NoThread
        /\ scopes' = Append(scopes, [before |-> env, closed |-> FALSE])
        /\ UNCHANGED <<env, owner>>

\* Only the innermost scope, the one being opened, changes variables.
Set(k, v) == /\ scopes # << >>
             /\ ~scopes[Len(scopes)].closed
             /\ env' = [env EXCEPT ![k] = v]
             /\ UNCHANGED <<owner, scopes>>

Close(i) == /\ i \in DOMAIN scopes
            /\ ~scopes[i].closed
            /\ scopes' = [scopes EXCEPT ![i].closed = TRUE]
            /\ UNCHANGED <<env, owner>>

Undo == /\ scopes # << >>
        /\ scopes[Len(scopes)].closed
        /\ env' = scopes[Len(scopes)].before
        /\ scopes' = SubSeq(scopes, 1, Len(scopes) - 1)
        /\ UNCHANGED owner

Disown == /\ owner # NoThread
          /\ scopes = << >>
          /\ owner' = NoThread
          /\ UNCHANGED <<env, scopes>>

Next == \/ \E t \in Threads : Own(t)
        \/ Open
        \/ \E k \in Keys, v \in Values : Set(k, v)
        \/ \E i \in DOMAIN scopes : Close(i)
        \/ Undo
        \/ Disown

Spec == Init /\ [][Next]_vars
=============================================================================
