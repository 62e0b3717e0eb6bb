----------------------------- MODULE TokenManager -----------------------------
(***************************************************************************)
(* adapters/github/token_manager.py: installation tokens, cached per       *)
(* process, with one asyncio lock per installation around the fetch.       *)
(* Callers are coroutines of one event loop.  One action is what a         *)
(* coroutine does between two suspensions: waiting for the lock and        *)
(* waiting for the thread that asks GitHub.                                *)
(*                                                                         *)
(* A token is the moment it expires; what else it is made of is never      *)
(* read.  The lock is the line of those who hold it or wait for it:        *)
(* asyncio wakes its waiters first in, first out, and a newcomer never     *)
(* overtakes one that was woken.                                           *)
(***************************************************************************)
EXTENDS Integers, Sequences

CONSTANTS
    Callers,        \* coroutines
    Installations,
    Lifetimes,      \* how much longer than its arrival GitHub lets a token live
    Skew,           \* ttl_skew_seconds
    MaxTime,        \* bound: the clock
    NoToken,        \* no entry in the cache, or a call that raised
    NoInstallation  \* of a caller outside of get_token

ASSUME TokenAssumption ==
    /\ Lifetimes \subseteq Int
    /\ {Skew, MaxTime} \subseteq Nat
    /\ NoToken \notin Int
    /\ NoInstallation \notin Installations

VARIABLES
    now,        \* the clock
    token,      \* token[i]: the cached token of installation i
    line,       \* line[i]: who holds, then who waits for, the lock of i
    pc,         \* pc[c]: where caller c is in get_token
    asked,      \* asked[c]: the installation whose token it wants
    got         \* got[c]: the token it got and has not used yet

tokenVars == <<now, token, line, pc, asked, got>>

TokenTypeOK ==
    /\ now \in 0..MaxTime
    /\ token \in [Installations -> Int \cup {NoToken}]
    /\ line \in [Installations -> Seq(Callers)]
    /\ pc \in [Callers -> {"idle", "waiting", "fetching", "returned"}]
    /\ asked \in [Callers -> Installations \cup {NoInstallation}]
    /\ got \in [Callers -> Int \cup {NoToken}]

TokenInit ==
    /\ now = 0
    /\ token = [i \in Installations |-> NoToken]
    /\ line = [i \in Installations |-> <<>>]
    /\ pc = [c \in Callers |-> "idle"]
    /\ asked = [c \in Callers |-> NoInstallation]
    /\ got = [c \in Callers |-> NoToken]

-------------------------------------------------------------------------------

MutFreshUntilExpiry(i) == token[i] # NoToken /\ token[i] > now

\* _fresh_cached_token returns the cached token.
Fresh(i) == token[i] # NoToken /\ token[i] > now + Skew

MutGetTokenUnlocked(c, i) ==
    /\ pc[c] \in {"idle", "returned"}
    /\ asked' = [asked EXCEPT ![c] = i]
    /\ got' = [got EXCEPT ![c] = IF Fresh(i) THEN token[i] ELSE NoToken]
    /\ pc' = [pc EXCEPT ![c] = IF Fresh(i) THEN "returned" ELSE "fetching"]
    /\ line' = IF Fresh(i) THEN line ELSE [line EXCEPT ![i] = Append(@, c)]
    /\ UNCHANGED <<now, token>>

\* A call of get_token(i), maybe right after the result of another one was used.  It
\* answers from the cache, or gets in line.  At the head of the line
\* the caller has the lock without a suspension, so that the second look at the
\* cache finds what the first one found, and it starts to fetch.
GetToken(c, i) ==
    /\ pc[c] \in {"idle", "returned"}
    /\ asked' = [asked EXCEPT ![c] = i]
    /\ got' = [got EXCEPT ![c] = IF Fresh(i) THEN token[i] ELSE NoToken]
    /\ pc' = [pc EXCEPT ![c] = IF Fresh(i) THEN "returned"
                              ELSE IF line[i] = <<>> THEN "fetching" ELSE "waiting"]
    /\ line' = IF Fresh(i) THEN line ELSE [line EXCEPT ![i] = Append(@, c)]
    /\ UNCHANGED <<now, token>>

\* Leave the `async with lock` block of installation i, with a result.
Leave(c, i, result) ==
    /\ line' = [line EXCEPT ![i] = Tail(@)]
    /\ pc' = [pc EXCEPT ![c] = "returned"]
    /\ got' = [got EXCEPT ![c] = result]

MutFetchWithoutSecondLook(c) ==
    /\ pc[c] = "waiting"
    /\ Head(line[asked[c]]) = c
    /\ pc' = [pc EXCEPT ![c] = "fetching"]
    /\ UNCHANGED <<now, token, line, asked, got>>

\* The lock's next holder wakes up and looks at the cache again.
Resume(c) ==
    /\ pc[c] = "waiting"
    /\ Head(line[asked[c]]) = c
    /\ IF Fresh(asked[c])
       THEN Leave(c, asked[c], token[asked[c]])
       ELSE /\ pc' = [pc EXCEPT ![c] = "fetching"]
            /\ UNCHANGED <<line, got>>
    /\ UNCHANGED <<now, token, asked>>

\* GitHub answers.  The token is cached and returned as it is, however short a
\* time it has left.
FetchDone(c) ==
    /\ pc[c] = "fetching"
    /\ \E lifetime \in Lifetimes :
        /\ token' = [token EXCEPT ![asked[c]] = now + lifetime]
        /\ Leave(c, asked[c], now + lifetime)
    /\ UNCHANGED <<now, asked>>

MutKeepLockOnError(c) ==
    /\ pc[c] = "fetching"
    /\ pc' = [pc EXCEPT ![c] = "returned"]
    /\ got' = [got EXCEPT ![c] = NoToken]
    /\ UNCHANGED <<now, token, line, asked>>

\* The request raises; the caller gets a TokenFetchError, and the cache stays.
FetchFails(c) ==
    /\ pc[c] = "fetching"
    /\ Leave(c, asked[c], NoToken)
    /\ UNCHANGED <<now, token, asked>>

\* The caller is done with the token, or with the error.
Forget(c) ==
    /\ pc[c] = "returned"
    /\ pc' = [pc EXCEPT ![c] = "idle"]
    /\ asked' = [asked EXCEPT ![c] = NoInstallation]
    /\ got' = [got EXCEPT ![c] = NoToken]
    /\ UNCHANGED <<now, token, line>>

\* Bound: MaxTime.
Tick ==
    /\ now < MaxTime
    /\ now' = now + 1
    /\ UNCHANGED <<token, line, pc, asked, got>>

Continue(c) == Resume(c) \/ FetchDone(c) \/ FetchFails(c)

TokenNext ==
    \/ \E c \in Callers, i \in Installations : GetToken(c, i)
    \/ \E c \in Callers : Continue(c) \/ Forget(c)
    \/ Tick

TokenSpec == TokenInit /\ [][TokenNext]_tokenVars

-------------------------------------------------------------------------------
\* What get_token is for.

Fetching(i) == {c \in Callers : pc[c] = "fetching" /\ asked[c] = i}

\* Concurrent misses of one installation never have two requests for a token under
\* way, however fetches fail and callers come and go.
OneFetch == \A i \in Installations : \A c, d \in Fetching(i) : c = d

\* Nobody asks GitHub while a usable token is cached: those who waited behind a
\* fetch that succeeded take its token.
FetchOnlyWhenStale ==
    [][\A c \in Callers :
        pc[c] # "fetching" /\ pc'[c] = "fetching" => ~Fresh(asked'[c])]_tokenVars

\* A token that did not just come from GitHub lives for longer than the skew when
\* it is handed out, even to a caller that waited for it.
CachedTokensLast ==
    [][\A c \in Callers :
        pc[c] # "fetching" /\ got'[c] \notin {got[c], NoToken} => got'[c] > now + Skew]_tokenVars

-------------------------------------------------------------------------------
\* The inductive invariant: the line of an installation has everybody who is in
\* the middle of a call for it, once, and only its head fetches.
InLine ==
    /\ \A c \in Callers :
        pc[c] \in {"waiting", "fetching"} =>
            /\ asked[c] \in Installations
            /\ \E k \in DOMAIN line[asked[c]] : line[asked[c]][k] = c
    /\ \A i \in Installations : \A k \in DOMAIN line[i] :
        /\ asked[line[i][k]] = i
        /\ pc[line[i][k]] \in {"waiting", "fetching"}
        /\ pc[line[i][k]] = "fetching" => k = 1
        /\ \A l \in DOMAIN line[i] : line[i][k] = line[i][l] => k = l

TokenInv == TokenTypeOK /\ InLine

===============================================================================
