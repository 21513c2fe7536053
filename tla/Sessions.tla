------------------------------ MODULE Sessions ------------------------------
(***************************************************************************)
(* The sessions of one user: refresh tokens as keys of Redis with a set    *)
(* that indexes them by user (app/services/refresh_tokens.py), the login,  *)
(* refresh and logout that issue and consume them, and the password reset  *)
(* (app/api/auth.py) and the member removal (app/api/org.py) that revoke   *)
(* all of them.                                                            *)
(*                                                                         *)
(* Each call to Redis, each SELECT and each commit is a step of its own.   *)
(* The row of the user is in Postgres: removal is final.                   *)
(***************************************************************************)
CONSTANTS
    Token,    \* refresh tokens, generated once each
    Link,     \* rows of password_reset_tokens, created once each
    Request,  \* HTTP requests that may be in progress at the same time
    None      \* no operation, token or link

Op == {"login", "refresh", "logout", "reset", "remove"}

ASSUME NoneAssumption == None \notin Op \cup Token \cup Link

VARIABLES
    row,      \* the row of the user exists
    live,     \* tokens whose key is in Redis
    index,    \* members of the user's set in Redis; an empty set has no key
    timed,    \* the set has a time to live ...
    outlived, \* ... that is longer than that of these tokens' keys
    links,    \* links[l]: the reset link; "used" also when it expired
    req,      \* the requests in progress
    issued,   \* history: tokens generated so far
    handed,   \* history: tokens sent to a client
    from,     \* history: from[t]: the token that t replaced, if any
    dropped   \* history: tokens the index lost while it was being deleted

vars == <<row, live, index, timed, outlived, links, req, issued, handed, from, dropped>>
userSet == <<index, timed, outlived>>
history == <<issued, handed, from, dropped>>

----------------------------------------------------------------------------
\* token: presented, or issued from "stored" on.  old: the token presented
\* to a refresh.  read: SMEMBERS.  before: history: what the clients held
\* when the revocation was committed.  late: history: the row was gone when
\* the request started.
Requests == [op : Op \cup {None},
             at : {"idle", "popped", "check", "found", "stored", "added",
                   "kept", "got", "deleted", "link", "revoke", "members",
                   "killed", "done"},
             token : Token \cup {None}, old : Token \cup {None},
             link : Link \cup {None}, read : SUBSET Token,
             before : SUBSET Token, late : BOOLEAN]

Idle == [op |-> None, at |-> "idle", token |-> None, old |-> None,
         link |-> None, read |-> {}, before |-> {}, late |-> FALSE]

\* Every variable has its type, and the histories relate as their names say.
TypeOK ==
    /\ row \in BOOLEAN
    /\ live \in SUBSET issued
    /\ index \in SUBSET issued
    /\ timed \in BOOLEAN
    /\ outlived \in SUBSET issued
    /\ links \in [Link -> {"none", "live", "used"}]
    /\ req \in [Request -> Requests]
    /\ issued \in SUBSET Token
    /\ handed \in SUBSET issued
    /\ from \in [Token -> Token \cup {None}]
    /\ dropped \in SUBSET issued

Init ==
    /\ row = TRUE
    /\ live = {}
    /\ index = {}
    /\ timed = FALSE
    /\ outlived = {}
    /\ links = [l \in Link |-> "none"]
    /\ req = [r \in Request |-> Idle]
    /\ issued = {}
    /\ handed = {}
    /\ from = [t \in Token |-> None]
    /\ dropped = {}

----------------------------------------------------------------------------
\* The set of the index after SADD, SREM or DELETE: Redis removes it, and
\* its time to live, with its last member.
IndexBecomes(S) ==
    /\ index' = S
    /\ timed' = (timed /\ S # {})
    /\ outlived' = IF S = {} THEN {} ELSE outlived

(* Issuing a token: login and refresh *)

\* login finds the row and verifies the password.
Login(r) ==
    /\ req[r] = Idle
    /\ row
    /\ req' = [req EXCEPT ![r] = [Idle EXCEPT !.op = "login", !.at = "found"]]
    /\ UNCHANGED <<row, live, userSet, links, history>>

\* Fault: GET instead of GETDEL, the key stays.
FaultTaken(t) == live

\* GETDEL takes the key in the call that reads it.
Taken(t) == live \ {t}

\* refresh: the first call to hit the key goes on, any other is refused.
RefreshPop(r, t) ==
    /\ req[r] = Idle
    /\ t \in handed \cap live
    /\ live' = Taken(t)
    /\ req' = [req EXCEPT ![r] = [Idle EXCEPT !.op = "refresh", !.at = "popped",
                                              !.old = t, !.late = ~row]]
    /\ UNCHANGED <<row, userSet, links, history>>

RefreshUnindex(r) ==
    /\ req[r].at = "popped"
    /\ IndexBecomes(index \ {req[r].old})
    /\ req' = [req EXCEPT ![r].at = "check"]
    /\ UNCHANGED <<row, live, links, history>>

\* Fault: the claims of the old token are trusted, as before the re-check.
FaultMayRefresh == TRUE

\* The user's row is read again.
MayRefresh == row

RefreshCheck(r) ==
    /\ req[r].at = "check"
    /\ req' = [req EXCEPT ![r] = IF MayRefresh THEN [@ EXCEPT !.at = "found"]
                                               ELSE Idle]
    /\ UNCHANGED <<row, live, userSet, links, history>>

\* store_refresh_token: SET, SADD, EXPIRE; then the response is sent.
StoreKey(r, t) ==
    /\ req[r].at = "found"
    /\ t \notin issued
    /\ live' = live \cup {t}
    /\ issued' = issued \cup {t}
    /\ from' = [from EXCEPT ![t] = req[r].old]
    /\ req' = [req EXCEPT ![r].at = "stored", ![r].token = t]
    /\ UNCHANGED <<row, userSet, links, handed, dropped>>

AddToIndex(r) ==
    /\ req[r].at = "stored"
    /\ IndexBecomes(index \cup {req[r].token})
    /\ req' = [req EXCEPT ![r].at = "added"]
    /\ UNCHANGED <<row, live, links, history>>

KeepIndex(r) ==
    /\ req[r].at = "added"
    /\ timed' = (index # {})
    /\ outlived' = IF index # {} THEN live ELSE {}
    /\ req' = [req EXCEPT ![r].at = "kept"]
    /\ UNCHANGED <<row, live, index, links, history>>

Hand(r) ==
    /\ req[r].at = "kept"
    /\ handed' = handed \cup {req[r].token}
    /\ req' = [req EXCEPT ![r] = Idle]
    /\ UNCHANGED <<row, live, userSet, links, issued, from, dropped>>

----------------------------------------------------------------------------
(* Logout *)

\* GET.  The payload, which names the user, is gone with the key.
LogoutGet(r, t) ==
    /\ req[r] = Idle
    /\ t \in handed \cap live
    /\ req' = [req EXCEPT ![r] = [Idle EXCEPT !.op = "logout", !.at = "got",
                                              !.token = t]]
    /\ UNCHANGED <<row, live, userSet, links, history>>

\* Fault: the index entry goes first, the key afterwards.
FaultLogoutDelete(r) ==
    /\ req[r].at = "got"
    /\ IndexBecomes(index \ {req[r].token})
    /\ req' = [req EXCEPT ![r].at = "deleted"]
    /\ UNCHANGED <<row, live, links, history>>

LogoutDelete(r) ==
    /\ req[r].at = "got"
    /\ live' = live \ {req[r].token}
    /\ req' = [req EXCEPT ![r].at = "deleted"]
    /\ UNCHANGED <<row, userSet, links, history>>

LogoutUnindex(r) ==
    /\ req[r].at = "deleted"
    /\ IndexBecomes(index \ {req[r].token})
    /\ req' = [req EXCEPT ![r] = Idle]
    /\ UNCHANGED <<row, live, links, history>>

----------------------------------------------------------------------------
(* Password reset, removal, and the revocation both end in *)

\* request_password_reset stores a link.
RequestLink(l) ==
    /\ row
    /\ links[l] = "none"
    /\ links' = [links EXCEPT ![l] = "live"]
    /\ UNCHANGED <<row, live, userSet, req, history>>

ExpireLink(l) ==
    /\ links[l] = "live"
    /\ links' = [links EXCEPT ![l] = "used"]
    /\ UNCHANGED <<row, live, userSet, req, history>>

\* confirm_password_reset: the link is live and its user exists.
ResetRead(r, l) ==
    /\ req[r] = Idle
    /\ links[l] = "live"
    /\ row
    /\ req' = [req EXCEPT ![r] = [Idle EXCEPT !.op = "reset", !.at = "link",
                                              !.link = l]]
    /\ UNCHANGED <<row, live, userSet, links, history>>

\* Fault: the other links are deleted and not marked.
FaultLinksWithout(L) ==
    [l \in Link |-> IF l \in L THEN "used"
                    ELSE IF links[l] = "live" THEN "gone" ELSE links[l]]

\* No link is live, and those of L are used whatever they were.
LinksWithout(L) ==
    [l \in Link |-> IF links[l] = "live" \/ l \in L THEN "used" ELSE links[l]]

\* This link and all the live ones are used; what the link was read as is
\* not looked at again.  Without its row the UPDATE of the user fails.
ResetCommit(r) ==
    /\ req[r].at = "link"
    /\ row
    /\ links' = LinksWithout({req[r].link})
    /\ req' = [req EXCEPT ![r].at = "revoke", ![r].before = handed]
    /\ UNCHANGED <<row, live, userSet, history>>

\* remove_member's commit deletes the row and, by cascade, its links.
RemoveCommit(r) ==
    /\ req[r] = Idle
    /\ row
    /\ row' = FALSE
    /\ links' = LinksWithout({})
    /\ req' = [req EXCEPT ![r] = [Idle EXCEPT !.op = "remove", !.at = "revoke",
                                              !.before = handed]]
    /\ UNCHANGED <<live, userSet, history>>

\* revoke_all_refresh_tokens_for_user: SMEMBERS, DELETE of the keys, DELETE
\* of the set.
RevokeRead(r) ==
    /\ req[r].at = "revoke"
    /\ req' = [req EXCEPT ![r].at = "members", ![r].read = index]
    /\ UNCHANGED <<row, live, userSet, links, history>>

RevokeKeys(r) ==
    /\ req[r].at = "members"
    /\ live' = live \ req[r].read
    /\ req' = [req EXCEPT ![r].at = "killed"]
    /\ UNCHANGED <<row, userSet, links, history>>

RevokeIndex(r) ==
    /\ req[r].at = "killed"
    /\ IndexBecomes({})
    /\ dropped' = dropped \cup (index \ req[r].read)
    /\ req' = [req EXCEPT ![r].at = "done"]
    /\ UNCHANGED <<row, live, links, issued, handed, from>>

Revoked(r) ==
    /\ req[r].at = "done"
    /\ req' = [req EXCEPT ![r] = Idle]
    /\ UNCHANGED <<row, live, userSet, links, history>>

----------------------------------------------------------------------------
\* A key reaches its time to live.
ExpireKey(t) ==
    /\ t \in live
    /\ live' = live \ {t}
    /\ UNCHANGED <<row, userSet, links, req, history>>

\* The set reaches its own, after the keys that were there when it was last
\* renewed.
ExpireIndex ==
    /\ timed
    /\ outlived \cap live = {}
    /\ IndexBecomes({})
    /\ dropped' = dropped \cup index
    /\ UNCHANGED <<row, live, links, req, issued, handed, from>>

\* The process of the request dies, or Redis does not answer it.
Crash(r) ==
    /\ req[r] # Idle
    /\ req' = [req EXCEPT ![r] = Idle]
    /\ UNCHANGED <<row, live, userSet, links, history>>

----------------------------------------------------------------------------
Next ==
    \/ \E r \in Request :
           \/ Login(r) \/ RefreshUnindex(r) \/ RefreshCheck(r)
           \/ AddToIndex(r) \/ KeepIndex(r) \/ Hand(r)
           \/ LogoutDelete(r) \/ LogoutUnindex(r)
           \/ ResetCommit(r) \/ RemoveCommit(r)
           \/ RevokeRead(r) \/ RevokeKeys(r) \/ RevokeIndex(r) \/ Revoked(r)
           \/ Crash(r)
           \/ \E t \in Token : RefreshPop(r, t) \/ StoreKey(r, t) \/ LogoutGet(r, t)
           \/ \E l \in Link : ResetRead(r, l)
    \/ \E l \in Link : RequestLink(l) \/ ExpireLink(l)
    \/ \E t \in Token : ExpireKey(t)
    \/ ExpireIndex

Spec == Init /\ [][Next]_vars

----------------------------------------------------------------------------
(* Properties *)

\* refresh_tokens.py, pop_refresh_token: "only the first caller can ever get
\* a hit".  Two tokens never replace the same one.
RotatedOnce ==
    \A t, u \in issued : from[t] = from[u] /\ from[t] # None => t = u

\* When a revocation ends, every token that a client held at the reset or
\* removal is dead, however logins, refreshes, logouts, other revocations
\* and crashes fell between its steps; only tokens that the index lost to
\* another deletion of it escape.
RevocationKills ==
    \A r \in Request :
        req[r].at = "done" => req[r].before \cap live \subseteq dropped

\* auth.py, refresh: a token that outlived the revocation is refused by the
\* missing row.  A refresh that starts after the removal issues nothing.
RemovedGetsNothing ==
    \A r \in Request :
        req[r].late => req[r].at \notin {"found", "stored", "added", "kept"}

=============================================================================
