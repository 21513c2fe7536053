---------------------------- MODULE Verification ----------------------------
(* E-mail verification of one user (signup, verify_email,                   *)
(* resend_verification, _issue_verification_token in app/api/auth.py;       *)
(* migration 0014). A request reads and later commits; an UPDATE that finds  *)
(* rows locked waits and then leaves out those that no longer match, so it   *)
(* writes what its snapshot had and what still holds at its commit.         *)

CONSTANTS
    Link,        \* rows of email_verification_tokens
    Request,     \* slots for requests in progress
    Issuer       \* those that may issue links

\* The slice of the requests.
IssuersOK == Issuer \subseteq Request

VARIABLES
    user,        \* the users row: its existence and is_verified
    link,        \* link |-> used_at and expires_at, as far as they matter
    req          \* request |-> its step and what it holds

vars == <<user, link, req>>

\* Type invariant. A link is live until it is used or past its expiry.
TypeOK ==
    /\ user \in {"none", "unverified", "verified", "removed"}
    /\ link \in [Link -> {"none", "live", "expired", "used"}]
    /\ req \in [Request -> [at: {"idle", "issue"}]
                             \cup [at: {"insert"}, swept: SUBSET Link]
                             \cup [at: {"verify"}, link: Link]]

Is(status) == {k \in Link : link[k] = status}
Unused == Is("live") \cup Is("expired")
Exists == user \in {"unverified", "verified"}

Init ==
    /\ user = "none"
    /\ link = [k \in Link |-> "none"]
    /\ req = [r \in Request |-> [at |-> "idle"]]

Goto(r, h) == req' = [req EXCEPT ![r] = h]
Ready(r) == req[r].at = "idle"

-----------------------------------------------------------------------------
\* signup of a new organisation: the user is committed, then a link issued.
Signup(r) ==
    /\ Ready(r) /\ r \in Issuer /\ user = "none"
    /\ user' = "unverified"
    /\ Goto(r, [at |-> "issue"])
    /\ UNCHANGED link

\* signup with an invite: the address is vouched for.
SignupInvited(r) ==
    /\ Ready(r) /\ user = "none"
    /\ user' = "verified"
    /\ UNCHANGED <<link, req>>

\* resend_verification up to its read of the user.
Resend(r) ==
    /\ Ready(r) /\ r \in Issuer /\ user = "unverified"
    /\ Goto(r, [at |-> "issue"])
    /\ UNCHANGED <<user, link>>

\* An invalidation that is left out.
FaultInvalidate(r) ==
    /\ req[r].at = "issue"
    /\ Goto(r, [at |-> "insert", swept |-> {}])
    /\ UNCHANGED <<user, link>>

\* _issue_verification_token, the UPDATE of what is not used yet.
Invalidate(r) ==
    /\ req[r].at = "issue"
    /\ Goto(r, [at |-> "insert", swept |-> Unused])
    /\ UNCHANGED <<user, link>>

\* _issue_verification_token, the INSERT and the commit. The foreign key
\* wants the user.
Issue(r) ==
    /\ req[r].at = "insert" /\ Exists
    /\ \E k \in Is("none") :
         link' = [j \in Link |->
           IF j = k THEN "live" ELSE IF j \in req[r].swept THEN "used" ELSE link[j]]
    /\ Goto(r, [at |-> "idle"])
    /\ UNCHANGED user

\* verify_email up to its flush.
VerifyRead(r) ==
    /\ Ready(r) /\ Exists
    /\ \E k \in Is("live") : Goto(r, [at |-> "verify", link |-> k])
    /\ UNCHANGED <<user, link>>

\* verify_email, the commit: rows that are gone fail it.
VerifyCommit(r) ==
    /\ req[r].at = "verify" /\ Exists
    /\ user' = "verified"
    /\ link' = [link EXCEPT ![req[r].link] = "used"]
    /\ Goto(r, [at |-> "idle"])

\* A process that dies, or a transaction that fails, before its commit.
Crash(r) ==
    /\ ~Ready(r)
    /\ Goto(r, [at |-> "idle"])
    /\ UNCHANGED <<user, link>>

\* remove_member: ON DELETE CASCADE takes the links along.
RemoveUser ==
    /\ Exists
    /\ user' = "removed"
    /\ link' = [k \in Link |-> IF link[k] = "none" THEN "none" ELSE "used"]
    /\ UNCHANGED req

\* expires_at goes by.
Expire(k) ==
    /\ link[k] = "live"
    /\ link' = [link EXCEPT ![k] = "expired"]
    /\ UNCHANGED <<user, req>>

Next ==
    \/ RemoveUser
    \/ \E k \in Link : Expire(k)
    \/ \E r \in Request :
         \/ Signup(r) \/ SignupInvited(r) \/ Resend(r) \/ Invalidate(r) \/ Issue(r)
         \/ VerifyRead(r) \/ VerifyCommit(r) \/ Crash(r)

Spec == Init /\ [][Next]_vars

-----------------------------------------------------------------------------
\* At most one link is live, as long as one request at a time is between its
\* sweep and its insert, whatever confirmations, expiries and failures come
\* between.
\* models.py:607-616, auth.py:165-183.
OneLiveLink == \A j, k \in Is("live") : j = k

\* A user who is not verified is never left with spent links alone: each link
\* that goes is followed by a newer one or has verified its user.
\* auth.py:165-183 and :519-525.
NeverStranded ==
    user = "unverified" /\ Is("used") # {} => Unused # {}

\* The two together: a user has one way to confirm the address, and has it
\* until it is confirmed.
LinksSound == OneLiveLink /\ NeverStranded
=============================================================================
