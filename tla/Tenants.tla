-------------------------------- MODULE Tenants --------------------------------
(***************************************************************************)
(* The tenants of the API process: the `installation` webhooks that make   *)
(* and change them (webhooks.py, installation_command_parser.py,           *)
(* installation_service.py), the repository they live in, which is in      *)
(* memory and forgets them in a restart, and the bearer token the          *)
(* endpoints of a tenant ask for (auth.py).                                *)
(*                                                                         *)
(* Handlers are coroutines of one event loop, and nothing they await       *)
(* suspends them: the repository's lock is free whenever one of them runs. *)
(* A handler is one action.  A token is its number in the order in which   *)
(* secrets.token_urlsafe made them, which never repeats itself.            *)
(***************************************************************************)
EXTENDS EventStore, Sequences

CONSTANTS
    Lifecycle,      \* Lifecycle[i]: the webhooks GitHub has for i, in their order
    NoTenant,       \* an installation the repository does not have
    MaxHooks,       \* bound: deliveries of `installation` webhooks
    MaxRestarts     \* bound: restarts of the API process

Status == {"active", "suspended", "deleted"}
Tenant == [status : Status, api_token : Nat]

\* "malformed" is a payload without a field the parser reads; "other" stands for
\* the actions nobody handles.
Transitions == {"deleted", "suspend", "unsuspend"}
Actions == Transitions \cup {"created", "other", "malformed"}

ASSUME TenantAssumption ==
    /\ Lifecycle \in [Installations -> Seq(Actions)]
    /\ \A i \in Installations : Lifecycle[i] # <<>> /\ Head(Lifecycle[i]) = "created"
    /\ NoTenant \notin Tenant
    /\ {MaxHooks, MaxRestarts} \subseteq Nat

VARIABLES
    tenants,    \* tenants[i]: what the repository has of installation i
    issued,     \* issued[t]: history, the installation that token t was made for
    hooks,      \* `installation` webhooks so far
    restarts,   \* restarts so far
    followed,   \* followed[i]: history, how much of Lifecycle[i] was handled, in its
                \* order, since the start of the process; 0 after a webhook that was
                \* late
    admitted    \* history: the requests that were let in, <<i, token>>

tenantVars == <<tenants, issued, hooks, restarts, followed, admitted>>

TenantsTypeOK ==
    /\ tenants \in [Installations -> Tenant \cup {NoTenant}]
    /\ issued \in Seq(Installations)
    /\ hooks \in 0..MaxHooks
    /\ restarts \in 0..MaxRestarts
    /\ followed \in [Installations -> Nat]
    /\ admitted \subseteq Installations \X Nat

TenantInit ==
    /\ tenants = [i \in Installations |-> NoTenant]
    /\ issued = <<>>
    /\ hooks = 0
    /\ restarts = 0
    /\ followed = [i \in Installations |-> 0]
    /\ admitted = {}

-------------------------------------------------------------------------------
\* An `installation` webhook.

MutStatusSwapped(action) ==
    CASE action = "deleted" -> "deleted"
      [] action = "suspend" -> "active"
      [] action = "unsuspend" -> "suspended"

\* _ACTION_TO_STATUS
StatusOf(action) ==
    CASE action = "deleted" -> "deleted"
      [] action = "suspend" -> "suspended"
      [] action = "unsuspend" -> "active"

MutAlwaysIssue(i) ==
    /\ issued' = Append(issued, i)
    /\ tenants' = [tenants EXCEPT ![i] = [status |-> "active", api_token |-> Len(issued) + 1]]

\* _create_or_update: a token the installation has is kept.
create_or_update(i) ==
    IF tenants[i] = NoTenant
    THEN /\ issued' = Append(issued, i)
         /\ tenants' = [tenants EXCEPT ![i] = [status |-> "active", api_token |-> Len(issued) + 1]]
    ELSE /\ tenants' = [tenants EXCEPT ![i].status = "active"]
         /\ UNCHANGED issued

\* An unknown installation is left unknown.
transition(i, status) ==
    /\ tenants' = IF tenants[i] = NoTenant THEN tenants
                  ELSE [tenants EXCEPT ![i].status = status]
    /\ UNCHANGED issued

\* What the parser makes no command of is acknowledged and changes nothing.
handle(i, action) ==
    IF action = "created" THEN create_or_update(i)
    ELSE IF action \in Transitions THEN transition(i, StatusOf(action))
    ELSE UNCHANGED <<tenants, issued>>

\* GitHub delivers the k-th webhook of installation i: the next one, one once more,
\* or one out of its order.  Bound: MaxHooks.
InstallationHook(i, k) ==
    /\ hooks < MaxHooks
    /\ hooks' = hooks + 1
    /\ handle(i, Lifecycle[i][k])
    /\ followed' = [followed EXCEPT ![i] = IF k \in {@, @ + 1} THEN k ELSE 0]
    /\ UNCHANGED <<restarts, admitted>>

\* The process dies and another one starts, with an empty repository.
\* Bound: MaxRestarts.
Restart ==
    /\ restarts < MaxRestarts
    /\ restarts' = restarts + 1
    /\ tenants' = [i \in Installations |-> NoTenant]
    /\ followed' = [i \in Installations |-> 0]
    /\ UNCHANGED <<issued, hooks, admitted>>

-------------------------------------------------------------------------------
\* A request for installation i that presents token t.

MutMatchesAnyTenant(i, t) ==
    /\ tenants[i] # NoTenant
    /\ \E j \in Installations : tenants[j] # NoTenant /\ tenants[j].api_token = t

\* Neither 404 nor 401.  The status of the tenant is not looked at.
token_matches(i, t) ==
    /\ tenants[i] # NoTenant
    /\ tenants[i].api_token = t

Admit(i, t) ==
    /\ token_matches(i, t)
    /\ admitted' = admitted \cup {<<i, t>>}
    /\ UNCHANGED <<tenants, issued, hooks, restarts, followed>>

TenantNext ==
    \/ \E i \in Installations : \E k \in DOMAIN Lifecycle[i] : InstallationHook(i, k)
    \/ Restart
    \/ \E i \in Installations, t \in DOMAIN issued : Admit(i, t)

TenantSpec == TenantInit /\ [][TenantNext]_tenantVars

-------------------------------------------------------------------------------

\* What a tenant's endpoints give away or take in, they do for a token that was
\* made for that tenant: not for that of another one, whatever webhooks were lost,
\* repeated or late, and however often the process forgot who is who.
OwnTokenOnly ==
    \A a \in admitted : a[2] \in DOMAIN issued /\ issued[a[2]] = a[1]

\* A tenant keeps its token as long as the process lives: `created` delivered
\* again, a suspension or a deletion and its return do not lock its owner out.
TokenStable ==
    [][\A i \in Installations :
        tenants[i] # NoTenant /\ restarts' = restarts =>
            /\ tenants'[i] # NoTenant
            /\ tenants'[i].api_token = tenants[i].api_token]_tenantVars

\* What became of an installation with the first k of its webhooks.
StatusAfter(i, k) ==
    LET status == [created |-> "active", suspend |-> "suspended",
                   unsuspend |-> "active", deleted |-> "deleted"]
        told == {l \in 1..k : Lifecycle[i][l] \in DOMAIN status}
        last == CHOOSE l \in told : \A m \in told : m <= l
    IN  status[Lifecycle[i][last]]

\* As long as webhooks come in order, each once or more, the status is what GitHub
\* says it is.
StatusFollows ==
    \A i \in Installations :
        followed[i] > 0 /\ tenants[i] # NoTenant => tenants[i].status = StatusAfter(i, followed[i])

===============================================================================
