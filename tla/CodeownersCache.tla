---------------------------- MODULE CodeownersCache ----------------------------
(***************************************************************************)
(* adapters/github/codeowners_provider.py on top of the token manager: the *)
(* parsed CODEOWNERS of each repository, cached per process.  On a miss    *)
(* the three places the file may be in are asked for one after the other,  *)
(* each with a token of its own (repository_content_provider.py).  An      *)
(* action is what runs between two suspensions: between two places, and    *)
(* between GitHub's answer and its use, other coroutines run, time passes  *)
(* and the repository changes, and misses that overlap store what they     *)
(* found in any order, the older over the newer too.                       *)
(***************************************************************************)
EXTENDS TokenManager

CONSTANTS
    Repos,
    InstallationOf, \* InstallationOf[r]: the installation r belongs to
    Contents,       \* what a CODEOWNERS may say
    Layouts,        \* what a repository may have at those places
    Absent,         \* no such file (or no such repository: GitHub answers 404)
    TTL,            \* _CACHE_TTL_SECONDS
    MaxPushes,      \* bound: pushes that change the layout
    NotRead,        \* GitHub has not looked at the path yet
    NoRules,        \* no entry in the cache
    NoCall          \* a caller outside of _rules_for

Paths == 1..3       \* _CODEOWNERS_PATHS
File == Contents \cup {Absent}
Call == [repo : Repos, since : Int, path : Paths, read : File \cup {NotRead}]

ASSUME CodeownersAssumption ==
    /\ InstallationOf \in [Repos -> Installations]
    /\ Absent \notin Contents
    /\ Layouts \subseteq [Paths -> File]
    /\ {NotRead, NoRules} \cap File = {}
    /\ NoCall \notin Call
    /\ {TTL, MaxPushes} \subseteq Nat

VARIABLES
    files,      \* files[r][p]: what repository r has at path p, at GitHub
    pushes,     \* changes of layout so far
    pushed,     \* pushed[r]: when r changed last
    rules,      \* rules[r]: the cached rules; Absent stands for CodeOwners("")
    until,      \* until[r]: when they expire
    call        \* call[c]: the locals of the _rules_for that caller c is in

cacheVars == <<rules, until>>
world == <<files, pushes, pushed>>
vars == <<tokenVars, world, cacheVars, call>>

TypeOK ==
    /\ TokenTypeOK
    /\ files \in [Repos -> [Paths -> File]]
    /\ pushes \in 0..MaxPushes
    /\ pushed \in [Repos -> Int]
    /\ rules \in [Repos -> File \cup {NoRules}]
    /\ until \in [Repos -> Int]
    /\ call \in [Callers -> Call \cup {NoCall}]

Init ==
    /\ TokenInit
    /\ files \in [Repos -> Layouts]
    /\ pushes = 0
    /\ pushed = [r \in Repos |-> -TTL]
    /\ rules = [r \in Repos |-> NoRules]
    /\ until = [r \in Repos |-> 0]
    /\ call = [c \in Callers |-> NoCall]

-------------------------------------------------------------------------------

\* A push edits, adds, deletes or moves CODEOWNERS.  Bound: MaxPushes.
Push(r, layout) ==
    /\ pushes < MaxPushes
    /\ files[r] # layout
    /\ files' = [files EXCEPT ![r] = layout]
    /\ pushes' = pushes + 1
    /\ pushed' = [pushed EXCEPT ![r] = now]
    /\ UNCHANGED <<tokenVars, cacheVars, call>>

\* cached[1] > now.
Valid(r) == rules[r] # NoRules /\ until[r] > now

\* Ask GitHub for path p: get_file wants a token first.
AskFor(c, locals) ==
    /\ call' = [call EXCEPT ![c] = locals]
    /\ GetToken(c, InstallationOf[locals.repo])

\* _rules_for misses the cache.  A hit returns rules[r] and changes nothing.
LookUp(c, r) ==
    /\ call[c] = NoCall
    /\ pc[c] = "idle"
    /\ ~Valid(r)
    /\ AskFor(c, [repo |-> r, since |-> now, path |-> 1, read |-> NotRead])
    /\ UNCHANGED <<world, cacheVars>>

\* Any other request to GitHub wants a token as well.
OtherRequest(c, i) ==
    /\ call[c] = NoCall
    /\ pc[c] = "idle"
    /\ GetToken(c, i)
    /\ UNCHANGED <<world, cacheVars, call>>

\* GitHub, given a token that has not expired, looks at the path: the file, or a 404.
\* This happens in a thread of its own (asyncio.to_thread); the coroutine goes on
\* some time after.
ReadFile(c) ==
    /\ call[c] # NoCall
    /\ call[c].read = NotRead
    /\ pc[c] = "returned"
    /\ got[c] # NoToken
    /\ got[c] > now
    /\ call' = [call EXCEPT ![c] = [@ EXCEPT !.read = files[call[c].repo][call[c].path]]]
    /\ UNCHANGED <<tokenVars, world, cacheVars>>

MutReadBeyondLastPath(c) ==
    /\ call[c] # NoCall
    /\ call[c].read = Absent
    /\ AskFor(c, [call[c] EXCEPT !.path = @ + 1, !.read = NotRead])
    /\ UNCHANGED <<world, cacheVars>>

\* Back in the coroutine: nothing there, so the next path is asked for.
NextPath(c) ==
    /\ call[c] # NoCall
    /\ call[c].read = Absent
    /\ call[c].path + 1 \in Paths
    /\ AskFor(c, [call[c] EXCEPT !.path = @ + 1, !.read = NotRead])
    /\ UNCHANGED <<world, cacheVars>>

MutKeepFromNow(c) ==
    /\ call[c] # NoCall
    /\ call[c].read # NotRead
    /\ call[c].read # Absent \/ call[c].path + 1 \notin Paths
    /\ rules' = [rules EXCEPT ![call[c].repo] = call[c].read]
    /\ until' = [until EXCEPT ![call[c].repo] = now + TTL]
    /\ call' = [call EXCEPT ![c] = NoCall]
    /\ Forget(c)
    /\ UNCHANGED world

\* Back in the coroutine: the first file found, or none at all, replaces whatever
\* another caller has cached meanwhile, for TTL from when this call began.
Store(c) ==
    /\ call[c] # NoCall
    /\ call[c].read # NotRead
    /\ call[c].read # Absent \/ call[c].path + 1 \notin Paths
    /\ rules' = [rules EXCEPT ![call[c].repo] = call[c].read]
    /\ until' = [until EXCEPT ![call[c].repo] = call[c].since + TTL]
    /\ call' = [call EXCEPT ![c] = NoCall]
    /\ Forget(c)
    /\ UNCHANGED world

\* Another request is over; or the token, or the file, could not be had, or its bytes
\* are no text: the call raises and caches nothing.
Return(c) ==
    /\ call[c] # NoCall => call[c].read # Absent
    /\ Forget(c)
    /\ call' = [call EXCEPT ![c] = NoCall]
    /\ UNCHANGED <<world, cacheVars>>

Proceed(c) ==
    \/ Continue(c) /\ UNCHANGED <<world, cacheVars, call>>
    \/ ReadFile(c)
    \/ NextPath(c)
    \/ Store(c)
    \/ Return(c)

Next ==
    \/ \E c \in Callers, r \in Repos : LookUp(c, r)
    \/ \E c \in Callers, i \in Installations : OtherRequest(c, i)
    \/ \E c \in Callers : Proceed(c)
    \/ \E r \in Repos, layout \in Layouts : Push(r, layout)
    \/ Tick /\ UNCHANGED <<world, cacheVars, call>>

Spec == Init /\ [][Next]_vars

\* Every request to GitHub ends, by its time limit at the latest, and the event loop
\* runs each coroutine that can go on.
FairSpec == Spec /\ \A c \in Callers : WF_vars(Proceed(c))

-------------------------------------------------------------------------------

\* What the CODEOWNERS of r is: the file at the first of the paths that has one.
InEffect(r) ==
    LET found == {p \in Paths : files[r][p] # Absent}
    IN  IF found = {} THEN Absent
        ELSE files[r][CHOOSE p \in found : \A q \in found : p <= q]

\* A change of CODEOWNERS is seen by everyone after TTL: whatever the cache still
\* serves of a repository that has been quiet for that long is what is in effect.
\* Until then anything may be served: the text before the edit, read by a slow
\* request and stored over the newer one of a request that overtook it; or "no
\* owners", of a file that moved behind the reader's back or of a repository that
\* GitHub did not show.
StaleNoLongerThanTTL ==
    \A r \in Repos : Valid(r) /\ pushed[r] + TTL <= now => rules[r] = InEffect(r)

\* Every call for a token or for the rules of a repository returns or raises: the
\* lock is passed on whatever happens to its holder.
CallsReturn ==
    \A c \in Callers :
        (pc[c] # "idle") ~> (pc[c] = "idle")

\* The cache asks for its tokens the way the token manager expects.
UsesTokenManager == TokenSpec

-------------------------------------------------------------------------------
\* The inductive invariant: what began after the last push has seen the places up to
\* where it is as they are, the one it has just read included, and what was cached of
\* that is what is in effect.
FreshReads ==
    /\ \A r \in Repos : pushed[r] <= now
    /\ \A c \in Callers :
        call[c] # NoCall =>
            /\ call[c].since <= now
            /\ call[c].since > pushed[call[c].repo] =>
                /\ \A p \in Paths : p < call[c].path => files[call[c].repo][p] = Absent
                /\ call[c].read \in {NotRead, files[call[c].repo][call[c].path]}
    /\ \A r \in Repos :
        rules[r] # NoRules =>
            /\ until[r] - TTL <= now
            /\ until[r] - TTL > pushed[r] => rules[r] = InEffect(r)

CacheInv == TypeOK /\ InLine /\ FreshReads

===============================================================================
