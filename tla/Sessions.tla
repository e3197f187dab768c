------------------------------ MODULE Sessions ------------------------------
(***************************************************************************)
(* The sessions of one user: login, refresh-token rotation, logout,        *)
(* password change and deactivation (identity.AuthService and Service),    *)
(* and the admission of a request by the Auth middleware.  Every database  *)
(* statement and every Redis command is a step of its own, so that the     *)
(* requests of all server processes interleave between them; a command may *)
(* fail and a process may die between two of them.                         *)
(*                                                                         *)
(* The row, the refresh keys, their index and the cached cut-off are all   *)
(* keyed by the user, so users are independent and one stands for all.     *)
(* Time is in ticks of a second, the unit of the iat claim; 0 stands for   *)
(* NULL.  The horizon MaxTime is far below the seven days of a refresh     *)
(* key, which therefore does not expire here.                              *)
(***************************************************************************)
EXTENDS Naturals, FiniteSets

CONSTANTS Req,          \* requests in progress, over all server processes
          Token,        \* a token names a pair: its jti and its refresh key
          NoToken,
          AccessTTL,    \* accessTokenTTL
          CacheTTL,     \* pwdChangedCacheTTL
          MaxRequest,   \* longest duration of a request (the server's timeouts)
          MaxTime,      \* bound of the clock
          MaxFailures,  \* bound of failed commands and deaths
          MaxActs       \* bound of logouts, password changes, deactivations, status edits

ASSUME SessionsAssumption ==
    /\ NoToken \notin Token
    /\ AccessTTL \in Nat /\ CacheTTL \in Nat /\ MaxRequest \in Nat
    /\ MaxTime \in Nat \ {0} /\ MaxFailures \in Nat /\ MaxActs \in Nat

VARIABLES now,       \* the clock, shared by the processes and the database
          user,      \* the users row: status, deleted_at, password_changed_at
          iat,       \* iat[t]: the IssuedAt claim of pair t, 0 when unused
          parent,    \* parent[t]: the refresh key pair t was exchanged for
          given,     \* the pairs a client has received
          live,      \* Redis keys refresh:<token>
          index,     \* Redis set refresh_index:user:<id>
          revoked,   \* Redis keys jti_blacklist:<jti>
          cutoff,    \* Redis key pwd_changed:<id>, absent when exp is 0
          req,       \* program counter and locals of every request
          failures,  \* commands failed so far
          acts       \* such acts begun so far

redis == <<live, index, revoked, cutoff>>
pairs == <<iat, parent, given>>
vars == <<now, user, pairs, redis, req, failures, acts>>

Time == 0..MaxTime
Statuses == {"active", "inactive", "deleted"}
PCs == {"idle", "mint", "store", "index", "exchange", "unindex", "user",
        "password", "list", "delkeys", "delindex", "bust",
        "blacklist", "cached", "read", "fill"}

Request == [pc : PCs, tok : Token \union {NoToken}, from : Token \union {NoToken},
            since : Time, val : Time, keys : SUBSET Token, then : {"idle", "bust"}]
NewRequest(pc, tok, from, since, next) ==
    [pc |-> pc, tok |-> tok, from |-> from, since |-> since,
     val |-> 0, keys |-> {}, then |-> next]
Idle == NewRequest("idle", NoToken, NoToken, 0, "idle")
NoEntry == [val |-> 0, exp |-> 0, raced |-> FALSE]

Init ==
    /\ now = 1
    /\ user = [status |-> "active", deletedAt |-> 0, changed |-> 0]
    /\ iat = [t \in Token |-> 0]
    /\ parent = [t \in Token |-> NoToken]
    /\ given = {} /\ live = {} /\ index = {} /\ revoked = {}
    /\ cutoff = NoEntry
    /\ req = [r \in Req |-> Idle]
    /\ failures = 0 /\ acts = 0

-----------------------------------------------------------------------------
Works == UNCHANGED failures
Fails == failures < MaxFailures /\ failures' = failures + 1
Act == acts < MaxActs /\ acts' = acts + 1

At(r, pc) == req[r].pc = pc
Goto(r, pc) == req' = [req EXCEPT ![r].pc = pc]
Finish(r) == req' = [req EXCEPT ![r] = Idle]
Start(r, pc, tok, from, next) ==
    /\ At(r, "idle")
    /\ req' = [req EXCEPT ![r] = NewRequest(pc, tok, from, now, next)]

\* The lookups of a login, by tenant or by user name, skip deleted rows.
LoginRowFound == user.deletedAt = 0
\* Login accepts the row it found.
CanLogin == LoginRowFound /\ user.status = "active"
\* Refresh's check of the row it re-reads.
CanRefresh == user.status = "active" /\ user.deletedAt = 0

\* Bound: a request that will mint starts only while a pair is left for it.
Room == Cardinality({r \in Req : req[r].pc \in {"mint", "exchange", "unindex", "user"}})
            < Cardinality({t \in Token : iat[t] = 0})

-----------------------------------------------------------------------------
(* Issuing a pair *)

\* The row is read and the password compared; wrong passwords leave no trace.
Login(r) ==
    /\ Room /\ CanLogin
    /\ Start(r, "mint", NoToken, NoToken, "idle")
    /\ UNCHANGED <<now, user, pairs, redis, failures, acts>>

\* issueTokens signs the access token: jti and iat are fixed here.
Mint(r) ==
    /\ At(r, "mint")
    /\ \E t \in {u \in Token : iat[u] = 0} :
          /\ iat' = [iat EXCEPT ![t] = now]
          /\ parent' = [parent EXCEPT ![t] = req[r].from]
          /\ req' = [req EXCEPT ![r] = [req[r] EXCEPT !.pc = "store", !.tok = t]]
    /\ UNCHANGED <<now, user, given, redis, failures, acts>>

\* SET refresh:<token>.  A failed SET may or may not have reached Redis; the
\* request ends and the client never learns the token.
StoreRefresh(r) ==
    /\ At(r, "store")
    /\ \/ live' = live \union {req[r].tok} /\ Goto(r, "index") /\ Works
       \/ live' \in {live, live \union {req[r].tok}} /\ Finish(r) /\ Fails
    /\ UNCHANGED <<now, user, pairs, index, revoked, cutoff, acts>>

\* SADD to the user's index, best effort; the pair is returned either way.
IndexRefresh(r) ==
    /\ At(r, "index")
    /\ \/ index' = index \union {req[r].tok} /\ Works
       \/ index' = index /\ Fails
    /\ given' = given \union {req[r].tok}
    /\ Finish(r)
    /\ UNCHANGED <<now, user, iat, parent, live, revoked, cutoff, acts>>

-----------------------------------------------------------------------------
(* Refresh: read the key, delete it, unindex it, re-read the user, issue *)

RefreshGet(r, k) ==
    /\ Room /\ k \in given \intersect live
    /\ Start(r, "exchange", NoToken, k, "idle")
    /\ UNCHANGED <<now, user, pairs, redis, failures, acts>>

\* Mutant: A failed rotation DEL is logged and the refresh goes on.
RefreshDel_GoesOn(r) ==
    /\ At(r, "exchange")
    /\ \/ live' = live \ {req[r].from} /\ Works
       \/ live' \in {live, live \ {req[r].from}} /\ Fails
    /\ Goto(r, "unindex")
    /\ UNCHANGED <<now, user, pairs, index, revoked, cutoff, acts>>

\* The rotation DEL; how many keys it deleted is not looked at.  On an error
\* nothing is issued.
RefreshDel(r) ==
    /\ At(r, "exchange")
    /\ \/ live' = live \ {req[r].from} /\ Goto(r, "unindex") /\ Works
       \/ live' \in {live, live \ {req[r].from}} /\ Finish(r) /\ Fails
    /\ UNCHANGED <<now, user, pairs, index, revoked, cutoff, acts>>

RefreshUnindex(r) ==
    /\ At(r, "unindex")
    /\ \/ index' = index \ {req[r].from} /\ Works
       \/ index' = index /\ Fails
    /\ Goto(r, "user")
    /\ UNCHANGED <<now, user, pairs, live, revoked, cutoff, acts>>

RefreshUser(r) ==
    /\ At(r, "user")
    /\ IF CanRefresh THEN Goto(r, "mint") ELSE Finish(r)
    /\ UNCHANGED <<now, user, pairs, redis, failures, acts>>

-----------------------------------------------------------------------------
(* RevokeAllRefreshTokens: list the index, delete the keys, delete the index *)

RevokeList(r) ==
    /\ At(r, "list")
    /\ \/ /\ req' = [req EXCEPT ![r].keys = index,
                       ![r].pc = IF index = {} THEN "delindex" ELSE "delkeys"]
          /\ Works
       \/ Fails /\ IF req[r].then = "idle" THEN Finish(r) ELSE Goto(r, req[r].then)
    /\ UNCHANGED <<now, user, pairs, redis, acts>>

RevokeKeys(r) ==
    /\ At(r, "delkeys")
    /\ \/ live' = live \ req[r].keys /\ Works
       \/ live' \in {live, live \ req[r].keys} /\ Fails
    /\ Goto(r, "delindex")
    /\ UNCHANGED <<now, user, pairs, index, revoked, cutoff, acts>>

RevokeIndex(r) ==
    /\ At(r, "delindex")
    /\ \/ index' = {} /\ Works
       \/ index' = index /\ Fails
    /\ IF req[r].then = "idle" THEN Finish(r) ELSE Goto(r, req[r].then)
    /\ UNCHANGED <<now, user, pairs, live, revoked, cutoff, acts>>

-----------------------------------------------------------------------------
(* What ends sessions *)

\* Blacklist.Revoke stores nothing for a token at its expiry; IsRevoked asks.
WithRevoked(t) == IF now < iat[t] + AccessTTL THEN revoked \union {t} ELSE revoked
IsRevoked(t) == t \in revoked

\* Logout by the bearer of an accepted access token.  A failed blacklist write
\* is an error and nothing else happens.
Logout(r, t) ==
    /\ Act
    /\ t \in given /\ ~IsRevoked(t)
    /\ now <= iat[t] + AccessTTL
    /\ \/ /\ revoked' = WithRevoked(t)
          /\ Start(r, "list", NoToken, NoToken, "idle") /\ Works
       \/ /\ At(r, "idle") /\ Fails
          /\ revoked' \in {revoked, WithRevoked(t)} /\ UNCHANGED req
    /\ UNCHANGED <<now, user, pairs, live, index, cutoff>>

\* The row is read and the current password compared.
PasswordRead(r) ==
    /\ Act
    /\ Start(r, "password", NoToken, NoToken, "bust")
    /\ UNCHANGED <<now, user, pairs, redis, failures>>

PasswordWrite(r) ==
    /\ At(r, "password")
    /\ user' = [user EXCEPT !.changed = now]
    /\ Goto(r, "list")
    /\ UNCHANGED <<now, pairs, redis, failures, acts>>

\* The cached cut-off is deleted, best effort.
PasswordBust(r) ==
    /\ At(r, "bust")
    /\ \/ cutoff' = NoEntry /\ Works
       \/ cutoff' = cutoff /\ Fails
    /\ Finish(r)
    /\ UNCHANGED <<now, user, pairs, live, index, revoked, acts>>

\* The UPDATE of DeactivateUser, which also hits a row already deleted, and of
\* UpdateUser, which does not look whether the row is deleted.
Deactivated(u) == [u EXCEPT !.status = "deleted", !.deletedAt = now]
WithStatus(u, s) == [u EXCEPT !.status = s]

\* The row, then the refresh tokens.
Deactivate(r) ==
    /\ Act
    /\ user' = Deactivated(user)
    /\ Start(r, "list", NoToken, NoToken, "idle")
    /\ UNCHANGED <<now, pairs, redis, failures>>

\* An administrator edits the status; neither tokens nor deleted_at follow.
UpdateStatus ==
    /\ Act
    /\ \E s \in {"active", "inactive"} :
          user.status # s /\ user' = WithStatus(user, s)
    /\ UNCHANGED <<now, pairs, redis, req, failures>>

-----------------------------------------------------------------------------
(* The Auth middleware *)

\* Signature and expiry.
Admit(r, t) ==
    /\ t \in given
    /\ now <= iat[t] + AccessTTL
    /\ Start(r, "blacklist", t, NoToken, "idle")
    /\ UNCHANGED <<now, user, pairs, redis, failures, acts>>

\* EXISTS jti_blacklist:<jti>; an error is a 503 under the closed policy.
AdmitBlacklist(r) ==
    /\ At(r, "blacklist")
    /\ \/ Works /\ IF IsRevoked(req[r].tok) THEN Finish(r) ELSE Goto(r, "cached")
       \/ Fails /\ Finish(r)
    /\ UNCHANGED <<now, user, pairs, redis, acts>>

\* A token passes when it was not issued before the cut-off.
Passes(t, c) == iat[t] >= c

\* GET pwd_changed:<id>.  An entry may be seen until its expiry second is over.
Visible == cutoff.exp # 0 /\ now <= cutoff.exp

\* Request r goes on to its handler in this state, or is rejected.
AdmittedByCache(r) == At(r, "cached") /\ Visible /\ Passes(req[r].tok, cutoff.val)
AdmittedByRow(r) == At(r, "fill") /\ Passes(req[r].tok, req[r].val)
Admitted(r) == AdmittedByCache(r) \/ AdmittedByRow(r)

\* Mutant: A hit renews the lifetime of the entry.
CutoffHit_Renews(r) ==
    /\ At(r, "cached")
    /\ Visible
    /\ cutoff' = [cutoff EXCEPT !.exp = now + CacheTTL]
    /\ Finish(r)
    /\ UNCHANGED <<now, user, pairs, live, index, revoked, failures, acts>>

CutoffHit(r) ==
    /\ At(r, "cached")
    /\ Visible
    /\ Finish(r)
    /\ UNCHANGED <<now, user, pairs, redis, failures, acts>>

CutoffMiss(r) ==
    /\ At(r, "cached")
    /\ \/ (cutoff.exp = 0 \/ now >= cutoff.exp) /\ Works
       \/ Fails
    /\ Goto(r, "read")
    /\ UNCHANGED <<now, user, pairs, redis, acts>>

\* SELECT password_changed_at
CutoffRead(r) ==
    /\ At(r, "read")
    /\ req' = [req EXCEPT ![r] = [req[r] EXCEPT !.pc = "fill", !.val = user.changed]]
    /\ UNCHANGED <<now, user, pairs, redis, failures, acts>>

\* SET pwd_changed:<id> with its TTL, best effort, then the comparison.
\* raced records that the row had moved on since it was read.
CutoffFill(r) ==
    /\ At(r, "fill")
    /\ \/ /\ cutoff' = [val |-> req[r].val, exp |-> now + CacheTTL,
                        raced |-> req[r].val < user.changed]
          /\ Works
       \/ cutoff' = cutoff /\ Fails
    /\ Finish(r)
    /\ UNCHANGED <<now, user, pairs, live, index, revoked, acts>>

-----------------------------------------------------------------------------
\* The process dies, or a query fails, and the request is never finished.
Abandon(r) ==
    /\ ~At(r, "idle")
    /\ Fails
    /\ Finish(r)
    /\ UNCHANGED <<now, user, pairs, redis, acts>>

\* No request outlasts MaxRequest.
Tick ==
    /\ now < MaxTime
    /\ \A r \in Req : At(r, "idle") \/ now < req[r].since + MaxRequest
    /\ now' = now + 1
    /\ UNCHANGED <<user, pairs, redis, req, failures, acts>>

Issue(r) == Login(r) \/ Mint(r) \/ StoreRefresh(r) \/ IndexRefresh(r)
Refresh(r) == \/ \E k \in Token : RefreshGet(r, k)
              \/ RefreshDel(r) \/ RefreshUnindex(r) \/ RefreshUser(r)
Revoke(r) == RevokeList(r) \/ RevokeKeys(r) \/ RevokeIndex(r)
End(r) == \/ \E t \in Token : Logout(r, t)
          \/ PasswordRead(r) \/ PasswordWrite(r) \/ PasswordBust(r)
          \/ Deactivate(r)
Auth(r) == \/ \E t \in Token : Admit(r, t)
           \/ AdmitBlacklist(r)
           \/ CutoffHit(r) \/ CutoffMiss(r) \/ CutoffRead(r) \/ CutoffFill(r)

Next ==
    \/ \E r \in Req : Issue(r) \/ Refresh(r) \/ Revoke(r) \/ End(r) \/ Auth(r)
                      \/ Abandon(r)
    \/ UpdateStatus
    \/ Tick

Spec == Init /\ [][Next]_vars

-----------------------------------------------------------------------------
(* Properties *)

\* The value in flight in a request, and the holder of a cached entry, stay in
\* their ranges.
TypeOK ==
    /\ now \in Time
    /\ user \in [status : Statuses, deletedAt : Time, changed : Time]
    /\ iat \in [Token -> Time]
    /\ parent \in [Token -> Token \union {NoToken}]
    /\ given \subseteq Token /\ live \subseteq Token
    /\ index \subseteq Token /\ revoked \subseteq Token
    /\ cutoff \in [val : Time, exp : 0..(MaxTime + CacheTTL), raced : BOOLEAN]
    /\ req \in [Req -> Request]
    /\ failures \in 0..MaxFailures /\ acts \in 0..MaxActs

\* A pair obtained by a refresh exists only when the refresh key it was
\* exchanged for is gone for good: after a failed rotation DEL nothing is
\* issued, whatever the other requests do and whichever command fails.
ExchangedKeyIsGone == \A t \in Token : parent[t] \notin live

\* A deleted user is locked out: a request is admitted at the latest one
\* access-token lifetime and two request durations after the deletion, also
\* when the revocation of the refresh tokens failed or missed some, when a
\* login or a refresh was under way, and when an administrator afterwards sets
\* the status of the deleted row to active.
DeletedUserLockedOut ==
    \A r \in Req :
        Admitted(r) /\ user.deletedAt # 0
            => now <= user.deletedAt + AccessTTL + 2 * MaxRequest

\* After a password change, older access tokens are admitted for at most one
\* cache lifetime and one request duration: also when the change died before
\* it deleted the cached cut-off, and when a request that had read the old
\* cut-off stores it after the deletion.
OldTokensEnd ==
    \A r \in Req :
        Admitted(r) /\ iat[req[r].tok] < user.changed
            => now <= user.changed + CacheTTL + MaxRequest

\* While no command has failed, the cached cut-off is behind the row only until
\* the change that moved the row has deleted it, or when a reader that was
\* overtaken by the change stored it.
StaleCutoffIsARace ==
    Visible /\ cutoff.val < user.changed /\ ~cutoff.raced /\ failures = 0
        => \E r \in Req : req[r].then = "bust"

\* Both ends come in time, whatever was in flight when they were called for.
SessionsEndInTime == DeletedUserLockedOut /\ OldTokensEnd
=============================================================================
