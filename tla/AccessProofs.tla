---------------------------- MODULE AccessProofs -----------------------------
(***************************************************************************)
(* Proofs about who may do what: sessions and tokens, and the permissions  *)
(* that the middleware reads and caches. The parts share no state: each    *)
(* theorem is about the specification of its own part.                     *)
(***************************************************************************)
EXTENDS Sessions, AccessControl, TLAPS

------------------------------------------------------------------------------
(***************************************************************************)
(* The sessions of a user, for any number of concurrent requests and       *)
(* pairs, any lifetimes, any request duration, and any number of failures  *)
(* and administrative acts.                                                *)
(*                                                                         *)
(* The two deadlines are sums of three windows: how long after the change  *)
(* a request that had read the old row may still act on it (Overtaken),    *)
(* how long what it wrote stays valid, and how long a request that found   *)
(* it valid may take (InTime).  ExchangedKeyIsGone needs that a refresh    *)
(* key becomes live once, before any client knows it (Keys).               *)
(***************************************************************************)

\* A request runs for at most MaxRequest, and one that is being admitted began
\* in the lifetime of its token.
InTime ==
    \A r \in Req : ~At(r, "idle") =>
        /\ req[r].since <= now /\ now <= req[r].since + MaxRequest
        /\ req[r].pc \in {"blacklist", "cached", "read", "fill"}
               => req[r].since <= iat[req[r].tok] + AccessTTL

\* Tokens in use are issued; the times that are recorded are past.
Past ==
    /\ now # 0
    /\ user.deletedAt <= now /\ user.changed <= now
    /\ \A t \in Token : iat[t] <= now
    /\ \A t \in given : iat[t] # 0
    /\ \A r \in Req : req[r].pc \in {"store", "index", "blacklist", "cached", "read", "fill"}
           => req[r].tok \in Token /\ iat[req[r].tok] # 0
    /\ cutoff.exp <= now + CacheTTL

\* Who acts on a row that has moved on had begun before it moved.
Overtaken ==
    \A r \in Req :
        /\ At(r, "mint") /\ user.deletedAt # 0 => req[r].since <= user.deletedAt
        /\ At(r, "fill") /\ req[r].val < user.changed => req[r].since <= user.changed

\* What they wrote is in time as well.
Written ==
    /\ \A t \in Token : iat[t] # 0 /\ user.deletedAt # 0
           => iat[t] <= user.deletedAt + MaxRequest
    /\ cutoff.exp # 0 /\ cutoff.val < user.changed
           => cutoff.exp <= user.changed + CacheTTL + MaxRequest

\* A key that is yet to be stored belongs to one request and no client, and a
\* key that is being exchanged, or was, belongs to a client.
NewKeys == \A r \in Req : At(r, "store") => req[r].tok \in Token \ given
OwnKeys ==
    \A r, s \in Req : /\ r # s
                      /\ req[r].pc \in {"store", "index"}
                      /\ req[s].pc \in {"store", "index"}
                      => req[r].tok # req[s].tok
OldKeys ==
    /\ \A r \in Req : req[r].pc \in {"exchange", "unindex", "user", "mint"}
           => req[r].from \in given \union {NoToken}
    /\ \A t \in Token : parent[t] \in given \union {NoToken}
Keys == NewKeys /\ OwnKeys /\ OldKeys

\* After a rotation DEL that succeeded the key is gone.
Rotated ==
    /\ ExchangedKeyIsGone
    /\ \A r \in Req : req[r].pc \in {"unindex", "user", "mint"} => req[r].from \notin live

\* The change of a password always ends by deleting the cached cut-off.
BustFlow ==
    \A r \in Req : /\ req[r].pc \in {"password", "bust"} => req[r].then = "bust"
                   /\ req[r].then = "bust" => req[r].pc \in
                          {"password", "list", "delkeys", "delindex", "bust"}
BustComes == BustFlow /\ StaleCutoffIsARace

IInv == TypeOK /\ InTime /\ Past /\ Overtaken /\ Written /\ Keys /\ Rotated /\ BustComes

LEMMA InitIInv == Init => IInv
  BY SessionsAssumption
  DEF Init, IInv, TypeOK, InTime, Past, Overtaken, Written, Keys, NewKeys, OwnKeys, OldKeys, Rotated, BustComes, BustFlow,
      StaleCutoffIsARace, Visible, ExchangedKeyIsGone, At, NewRequest, Idle, NoEntry, Request, Time, Statuses, PCs

\* Every step keeps the types.
LEMMA TypeStep ==
    ASSUME TypeOK, Past, [Next]_vars
    PROVE  TypeOK'
<1>1. ASSUME NEW r \in Req, Login(r) PROVE TypeOK'
  BY <1>1, SessionsAssumption DEF Login, Start, Goto, Finish, At, NewRequest, Idle, Works, Fails, Act, Room, CanLogin, LoginRowFound, pairs, redis, Past, TypeOK, Request, Time, Statuses, PCs
<1>2. ASSUME NEW r \in Req, Mint(r) PROVE TypeOK'
  <2>1. PICK u \in Token : req' = [req EXCEPT ![r] = [req[r] EXCEPT !.pc = "store", !.tok = u]]
    BY <1>2, SessionsAssumption DEF Mint, Start, Goto, Finish, At, NewRequest, Idle, Works, Fails, Act, pairs, redis
  <2>2. req[r] \in Request
    BY <1>2, SessionsAssumption DEF Mint, Start, Goto, Finish, At, NewRequest, Idle, Works, Fails, Act, pairs, redis, TypeOK
  <2>3. [req[r] EXCEPT !.pc = "store", !.tok = u] \in Request
    BY <2>1, <2>2 DEF Request, PCs
  <2>4. req' \in [Req -> Request]
    BY <1>2, SessionsAssumption, <2>1, <2>3 DEF Mint, Start, Goto, Finish, At, NewRequest, Idle, Works, Fails, Act, pairs, redis, TypeOK
  <2>5. /\ now' \in Time
          /\ user' \in [status : Statuses, deletedAt : Time, changed : Time]
          /\ iat' \in [Token -> Time]
          /\ parent' \in [Token -> Token \union {NoToken}]
    BY <1>2, SessionsAssumption DEF Mint, Start, Goto, Finish, At, NewRequest, Idle, Works, Fails, Act, pairs, redis, TypeOK, Request, Time, Statuses
  <2>6. /\ given' \subseteq Token /\ live' \subseteq Token
          /\ index' \subseteq Token /\ revoked' \subseteq Token
    BY <1>2, SessionsAssumption DEF Mint, Start, Goto, Finish, At, NewRequest, Idle, Works, Fails, Act, pairs, redis, TypeOK, Past, Request, PCs
  <2>7. cutoff' \in [val : Time, exp : 0..(MaxTime + CacheTTL), raced : BOOLEAN]
    BY <1>2, SessionsAssumption DEF Mint, Start, Goto, Finish, At, NewRequest, Idle, Works, Fails, Act, pairs, redis, TypeOK, Request, Time, NoEntry
  <2>8. /\ failures' \in 0..MaxFailures /\ acts' \in 0..MaxActs
    BY <1>2, SessionsAssumption DEF Mint, Start, Goto, Finish, At, NewRequest, Idle, Works, Fails, Act, pairs, redis, TypeOK, Request, Time, NoEntry
  <2>9. QED
    BY <2>1, <2>2, <2>3, <2>4, <2>5, <2>6, <2>7, <2>8 DEF TypeOK
<1>3. ASSUME NEW r \in Req, StoreRefresh(r) PROVE TypeOK'
  <2>1. Goto(r, "index") \/ Finish(r)
    BY <1>3, SessionsAssumption DEF StoreRefresh, Start, Goto, Finish, At, NewRequest, Idle, Works, Fails, Act, pairs, redis
  <2>2. Goto(r, "index") => req' \in [Req -> Request]
    BY <1>3, SessionsAssumption DEF StoreRefresh, Start, Goto, Finish, At, NewRequest, Idle, Works, Fails, Act, pairs, redis, TypeOK, Request, PCs
  <2>3. Finish(r) => req' \in [Req -> Request]
    BY <1>3, SessionsAssumption DEF StoreRefresh, Start, Goto, Finish, At, NewRequest, Idle, Works, Fails, Act, pairs, redis, TypeOK, Request, PCs, Time
  <2>4. req' \in [Req -> Request]
    BY <1>3, SessionsAssumption, <2>1, <2>2, <2>3 DEF StoreRefresh, Start, Goto, Finish, At, NewRequest, Idle, Works, Fails, Act, pairs, redis, TypeOK
  <2>5. /\ now' \in Time
          /\ user' \in [status : Statuses, deletedAt : Time, changed : Time]
          /\ iat' \in [Token -> Time]
          /\ parent' \in [Token -> Token \union {NoToken}]
    BY <1>3, SessionsAssumption DEF StoreRefresh, Start, Goto, Finish, At, NewRequest, Idle, Works, Fails, Act, pairs, redis, TypeOK, Request, Time, Statuses
  <2>6. /\ given' \subseteq Token /\ live' \subseteq Token
          /\ index' \subseteq Token /\ revoked' \subseteq Token
    BY <1>3, SessionsAssumption DEF StoreRefresh, Start, Goto, Finish, At, NewRequest, Idle, Works, Fails, Act, pairs, redis, TypeOK, Past, Request, PCs
  <2>7. cutoff' \in [val : Time, exp : 0..(MaxTime + CacheTTL), raced : BOOLEAN]
    BY <1>3, SessionsAssumption DEF StoreRefresh, Start, Goto, Finish, At, NewRequest, Idle, Works, Fails, Act, pairs, redis, TypeOK, Request, Time, NoEntry
  <2>8. /\ failures' \in 0..MaxFailures /\ acts' \in 0..MaxActs
    BY <1>3, SessionsAssumption DEF StoreRefresh, Start, Goto, Finish, At, NewRequest, Idle, Works, Fails, Act, pairs, redis, TypeOK, Request, Time, NoEntry
  <2>9. QED
    BY <2>1, <2>2, <2>3, <2>4, <2>5, <2>6, <2>7, <2>8 DEF TypeOK
<1>4. ASSUME NEW r \in Req, IndexRefresh(r) PROVE TypeOK'
  <2>1. req' \in [Req -> Request]
    BY <1>4, SessionsAssumption DEF IndexRefresh, Start, Goto, Finish, At, NewRequest, Idle, Works, Fails, Act, pairs, redis, TypeOK, Request, Time, PCs
  <2>2. /\ now' \in Time
          /\ user' \in [status : Statuses, deletedAt : Time, changed : Time]
          /\ iat' \in [Token -> Time]
          /\ parent' \in [Token -> Token \union {NoToken}]
    BY <1>4, SessionsAssumption DEF IndexRefresh, Start, Goto, Finish, At, NewRequest, Idle, Works, Fails, Act, pairs, redis, TypeOK, Request, Time, Statuses
  <2>3. /\ given' \subseteq Token /\ live' \subseteq Token
          /\ index' \subseteq Token /\ revoked' \subseteq Token
    BY <1>4, SessionsAssumption DEF IndexRefresh, Start, Goto, Finish, At, NewRequest, Idle, Works, Fails, Act, pairs, redis, TypeOK, Past, Request, PCs
  <2>4. cutoff' \in [val : Time, exp : 0..(MaxTime + CacheTTL), raced : BOOLEAN]
    BY <1>4, SessionsAssumption DEF IndexRefresh, Start, Goto, Finish, At, NewRequest, Idle, Works, Fails, Act, pairs, redis, TypeOK, Request, Time, NoEntry
  <2>5. /\ failures' \in 0..MaxFailures /\ acts' \in 0..MaxActs
    BY <1>4, SessionsAssumption DEF IndexRefresh, Start, Goto, Finish, At, NewRequest, Idle, Works, Fails, Act, pairs, redis, TypeOK, Request, Time, NoEntry
  <2>6. QED
    BY <2>1, <2>2, <2>3, <2>4, <2>5 DEF TypeOK
<1>5. ASSUME NEW r \in Req, RefreshDel(r) PROVE TypeOK'
  BY <1>5, SessionsAssumption DEF RefreshDel, Start, Goto, Finish, At, NewRequest, Idle, Works, Fails, Act, pairs, redis, Past, TypeOK, Request, Time, Statuses, PCs
<1>6. ASSUME NEW r \in Req, RefreshUnindex(r) PROVE TypeOK'
  BY <1>6, SessionsAssumption DEF RefreshUnindex, Start, Goto, Finish, At, NewRequest, Idle, Works, Fails, Act, pairs, redis, Past, TypeOK, Request, Time, Statuses, PCs
<1>7. ASSUME NEW r \in Req, RefreshUser(r) PROVE TypeOK'
  BY <1>7, SessionsAssumption DEF RefreshUser, Start, Goto, Finish, At, NewRequest, Idle, Works, Fails, Act, CanRefresh, pairs, redis, Past, TypeOK, Request, Time, Statuses, PCs
<1>8. ASSUME NEW r \in Req, RevokeList(r) PROVE TypeOK'
  <2>1. req' \in [Req -> Request]
    BY <1>8, SessionsAssumption DEF RevokeList, Start, Goto, Finish, At, NewRequest, Idle, Works, Fails, Act, pairs, redis, TypeOK, Request, Time, PCs
  <2>2. /\ now' \in Time
          /\ user' \in [status : Statuses, deletedAt : Time, changed : Time]
          /\ iat' \in [Token -> Time]
          /\ parent' \in [Token -> Token \union {NoToken}]
    BY <1>8, SessionsAssumption DEF RevokeList, Start, Goto, Finish, At, NewRequest, Idle, Works, Fails, Act, pairs, redis, TypeOK, Request, Time, Statuses
  <2>3. /\ given' \subseteq Token /\ live' \subseteq Token
          /\ index' \subseteq Token /\ revoked' \subseteq Token
    BY <1>8, SessionsAssumption DEF RevokeList, Start, Goto, Finish, At, NewRequest, Idle, Works, Fails, Act, pairs, redis, TypeOK, Past, Request, PCs
  <2>4. cutoff' \in [val : Time, exp : 0..(MaxTime + CacheTTL), raced : BOOLEAN]
    BY <1>8, SessionsAssumption DEF RevokeList, Start, Goto, Finish, At, NewRequest, Idle, Works, Fails, Act, pairs, redis, TypeOK, Request, Time, NoEntry
  <2>5. /\ failures' \in 0..MaxFailures /\ acts' \in 0..MaxActs
    BY <1>8, SessionsAssumption DEF RevokeList, Start, Goto, Finish, At, NewRequest, Idle, Works, Fails, Act, pairs, redis, TypeOK, Request, Time, NoEntry
  <2>6. QED
    BY <2>1, <2>2, <2>3, <2>4, <2>5 DEF TypeOK
<1>9. ASSUME NEW r \in Req, RevokeKeys(r) PROVE TypeOK'
  BY <1>9, SessionsAssumption DEF RevokeKeys, Start, Goto, Finish, At, NewRequest, Idle, Works, Fails, Act, pairs, redis, Past, TypeOK, Request, Time, Statuses, PCs
<1>10. ASSUME NEW r \in Req, RevokeIndex(r) PROVE TypeOK'
  BY <1>10, SessionsAssumption DEF RevokeIndex, Start, Goto, Finish, At, NewRequest, Idle, Works, Fails, Act, pairs, redis, Past, TypeOK, Request, Time, Statuses, PCs
<1>11. ASSUME NEW r \in Req, PasswordRead(r) PROVE TypeOK'
  <2>1. req' \in [Req -> Request]
    BY <1>11, SessionsAssumption DEF PasswordRead, Start, Goto, Finish, At, NewRequest, Idle, Works, Fails, Act, pairs, redis, TypeOK, Request, Time, PCs
  <2>2. /\ now' \in Time
          /\ user' \in [status : Statuses, deletedAt : Time, changed : Time]
          /\ iat' \in [Token -> Time]
          /\ parent' \in [Token -> Token \union {NoToken}]
    BY <1>11, SessionsAssumption DEF PasswordRead, Start, Goto, Finish, At, NewRequest, Idle, Works, Fails, Act, pairs, redis, TypeOK, Request, Time, Statuses
  <2>3. /\ given' \subseteq Token /\ live' \subseteq Token
          /\ index' \subseteq Token /\ revoked' \subseteq Token
    BY <1>11, SessionsAssumption DEF PasswordRead, Start, Goto, Finish, At, NewRequest, Idle, Works, Fails, Act, pairs, redis, TypeOK, Past, Request, PCs
  <2>4. cutoff' \in [val : Time, exp : 0..(MaxTime + CacheTTL), raced : BOOLEAN]
    BY <1>11, SessionsAssumption DEF PasswordRead, Start, Goto, Finish, At, NewRequest, Idle, Works, Fails, Act, pairs, redis, TypeOK, Request, Time, NoEntry
  <2>5. /\ failures' \in 0..MaxFailures /\ acts' \in 0..MaxActs
    BY <1>11, SessionsAssumption DEF PasswordRead, Start, Goto, Finish, At, NewRequest, Idle, Works, Fails, Act, pairs, redis, TypeOK, Request, Time, NoEntry
  <2>6. QED
    BY <2>1, <2>2, <2>3, <2>4, <2>5 DEF TypeOK
<1>12. ASSUME NEW r \in Req, PasswordWrite(r) PROVE TypeOK'
  BY <1>12, SessionsAssumption DEF PasswordWrite, Start, Goto, Finish, At, NewRequest, Idle, Works, Fails, Act, pairs, redis, Past, TypeOK, Request, Time, Statuses, PCs
<1>13. ASSUME NEW r \in Req, PasswordBust(r) PROVE TypeOK'
  <2>1. req' \in [Req -> Request]
    BY <1>13, SessionsAssumption DEF PasswordBust, Start, Goto, Finish, At, NewRequest, Idle, Works, Fails, Act, NoEntry, pairs, redis, TypeOK, Request, Time, PCs
  <2>2. /\ now' \in Time
          /\ user' \in [status : Statuses, deletedAt : Time, changed : Time]
          /\ iat' \in [Token -> Time]
          /\ parent' \in [Token -> Token \union {NoToken}]
    BY <1>13, SessionsAssumption DEF PasswordBust, Start, Goto, Finish, At, NewRequest, Idle, Works, Fails, Act, NoEntry, pairs, redis, TypeOK, Request, Time, Statuses
  <2>3. /\ given' \subseteq Token /\ live' \subseteq Token
          /\ index' \subseteq Token /\ revoked' \subseteq Token
    BY <1>13, SessionsAssumption DEF PasswordBust, Start, Goto, Finish, At, NewRequest, Idle, Works, Fails, Act, NoEntry, pairs, redis, TypeOK, Past, Request, PCs
  <2>4. NoEntry \in [val : Time, exp : 0..(MaxTime + CacheTTL), raced : BOOLEAN]
    BY <1>13, SessionsAssumption DEF PasswordBust, pairs, redis, Time, NoEntry
  <2>5. now + CacheTTL \in 0..(MaxTime + CacheTTL) /\ req[r].val \in Time
    BY <1>13, SessionsAssumption DEF PasswordBust, Start, Goto, Finish, At, NewRequest, Idle, Works, Fails, Act, NoEntry, pairs, redis, TypeOK, Request, Time
  <2>6. cutoff' \in [val : Time, exp : 0..(MaxTime + CacheTTL), raced : BOOLEAN]
    BY <1>13, SessionsAssumption, <2>4, <2>5 DEF PasswordBust, Start, Goto, Finish, At, NewRequest, Idle, Works, Fails, Act, NoEntry, pairs, redis, TypeOK
  <2>7. /\ failures' \in 0..MaxFailures /\ acts' \in 0..MaxActs
    BY <1>13, SessionsAssumption DEF PasswordBust, Start, Goto, Finish, At, NewRequest, Idle, Works, Fails, Act, pairs, redis, TypeOK, Request, Time, NoEntry
  <2>8. QED
    BY <2>1, <2>2, <2>3, <2>4, <2>5, <2>6, <2>7 DEF TypeOK
<1>14. ASSUME NEW r \in Req, Deactivate(r) PROVE TypeOK'
  <2>1. req' \in [Req -> Request]
    BY <1>14, SessionsAssumption DEF Deactivate, Start, Goto, Finish, At, NewRequest, Idle, Works, Fails, Act, Deactivated, pairs, redis, TypeOK, Request, Time, PCs
  <2>2. /\ now' \in Time
          /\ user' \in [status : Statuses, deletedAt : Time, changed : Time]
          /\ iat' \in [Token -> Time]
          /\ parent' \in [Token -> Token \union {NoToken}]
    BY <1>14, SessionsAssumption DEF Deactivate, Start, Goto, Finish, At, NewRequest, Idle, Works, Fails, Act, Deactivated, pairs, redis, TypeOK, Request, Time, Statuses
  <2>3. /\ given' \subseteq Token /\ live' \subseteq Token
          /\ index' \subseteq Token /\ revoked' \subseteq Token
    BY <1>14, SessionsAssumption DEF Deactivate, Start, Goto, Finish, At, NewRequest, Idle, Works, Fails, Act, Deactivated, pairs, redis, TypeOK, Past, Request, PCs
  <2>4. cutoff' \in [val : Time, exp : 0..(MaxTime + CacheTTL), raced : BOOLEAN]
    BY <1>14, SessionsAssumption DEF Deactivate, Start, Goto, Finish, At, NewRequest, Idle, Works, Fails, Act, pairs, redis, TypeOK, Request, Time, NoEntry
  <2>5. /\ failures' \in 0..MaxFailures /\ acts' \in 0..MaxActs
    BY <1>14, SessionsAssumption DEF Deactivate, Start, Goto, Finish, At, NewRequest, Idle, Works, Fails, Act, pairs, redis, TypeOK, Request, Time, NoEntry
  <2>6. QED
    BY <2>1, <2>2, <2>3, <2>4, <2>5 DEF TypeOK
<1>15. ASSUME NEW r \in Req, AdmitBlacklist(r) PROVE TypeOK'
  BY <1>15, SessionsAssumption DEF AdmitBlacklist, Start, Goto, Finish, At, NewRequest, Idle, Works, Fails, Act, IsRevoked, pairs, redis, Past, TypeOK, Request, Time, Statuses, PCs
<1>16. ASSUME NEW r \in Req, CutoffHit(r) PROVE TypeOK'
  BY <1>16, SessionsAssumption DEF CutoffHit, Start, Goto, Finish, At, NewRequest, Idle, Works, Fails, Act, Visible, pairs, redis, Past, TypeOK, Request, Time, Statuses, PCs
<1>17. ASSUME NEW r \in Req, CutoffMiss(r) PROVE TypeOK'
  <2>1. req' \in [Req -> Request]
    BY <1>17, SessionsAssumption DEF CutoffMiss, Start, Goto, Finish, At, NewRequest, Idle, Works, Fails, Act, pairs, redis, TypeOK, Request, PCs
  <2>2. TypeOK'
    BY <1>17, SessionsAssumption, <2>1 DEF CutoffMiss, Start, Goto, Finish, At, NewRequest, Idle, Works, Fails, Act, pairs, redis, TypeOK
  <2>3. QED
    BY <2>1, <2>2 DEF TypeOK
<1>18. ASSUME NEW r \in Req, CutoffRead(r) PROVE TypeOK'
  <2>1. req[r] \in Request /\ user.changed \in Time
    BY <1>18, SessionsAssumption DEF CutoffRead, Start, Goto, Finish, At, NewRequest, Idle, Works, Fails, Act, pairs, redis, TypeOK
  <2>2. [req[r] EXCEPT !.pc = "fill", !.val = user.changed] \in Request
    BY <2>1 DEF Request, PCs
  <2>3. req' \in [Req -> Request]
    BY <1>18, SessionsAssumption, <2>1, <2>2 DEF CutoffRead, Start, Goto, Finish, At, NewRequest, Idle, Works, Fails, Act, pairs, redis, TypeOK
  <2>4. /\ now' \in Time
          /\ user' \in [status : Statuses, deletedAt : Time, changed : Time]
          /\ iat' \in [Token -> Time]
          /\ parent' \in [Token -> Token \union {NoToken}]
    BY <1>18, SessionsAssumption DEF CutoffRead, Start, Goto, Finish, At, NewRequest, Idle, Works, Fails, Act, pairs, redis, TypeOK, Request, Time, Statuses
  <2>5. /\ given' \subseteq Token /\ live' \subseteq Token
          /\ index' \subseteq Token /\ revoked' \subseteq Token
    BY <1>18, SessionsAssumption DEF CutoffRead, Start, Goto, Finish, At, NewRequest, Idle, Works, Fails, Act, pairs, redis, TypeOK, Past, Request, PCs
  <2>6. cutoff' \in [val : Time, exp : 0..(MaxTime + CacheTTL), raced : BOOLEAN]
    BY <1>18, SessionsAssumption DEF CutoffRead, Start, Goto, Finish, At, NewRequest, Idle, Works, Fails, Act, pairs, redis, TypeOK, Request, Time, NoEntry
  <2>7. /\ failures' \in 0..MaxFailures /\ acts' \in 0..MaxActs
    BY <1>18, SessionsAssumption DEF CutoffRead, Start, Goto, Finish, At, NewRequest, Idle, Works, Fails, Act, pairs, redis, TypeOK, Request, Time, NoEntry
  <2>8. QED
    BY <2>1, <2>2, <2>3, <2>4, <2>5, <2>6, <2>7 DEF TypeOK
<1>19. ASSUME NEW r \in Req, CutoffFill(r) PROVE TypeOK'
  <2>1. req' \in [Req -> Request]
    BY <1>19, SessionsAssumption DEF CutoffFill, Start, Goto, Finish, At, NewRequest, Idle, Works, Fails, Act, pairs, redis, TypeOK, Request, Time, PCs
  <2>2. /\ now' \in Time
          /\ user' \in [status : Statuses, deletedAt : Time, changed : Time]
          /\ iat' \in [Token -> Time]
          /\ parent' \in [Token -> Token \union {NoToken}]
    BY <1>19, SessionsAssumption DEF CutoffFill, Start, Goto, Finish, At, NewRequest, Idle, Works, Fails, Act, pairs, redis, TypeOK, Request, Time, Statuses
  <2>3. /\ given' \subseteq Token /\ live' \subseteq Token
          /\ index' \subseteq Token /\ revoked' \subseteq Token
    BY <1>19, SessionsAssumption DEF CutoffFill, Start, Goto, Finish, At, NewRequest, Idle, Works, Fails, Act, pairs, redis, TypeOK, Past, Request, PCs
  <2>4. NoEntry \in [val : Time, exp : 0..(MaxTime + CacheTTL), raced : BOOLEAN]
    BY <1>19, SessionsAssumption DEF CutoffFill, pairs, redis, Time, NoEntry
  <2>5. now + CacheTTL \in 0..(MaxTime + CacheTTL) /\ req[r].val \in Time
    BY <1>19, SessionsAssumption DEF CutoffFill, Start, Goto, Finish, At, NewRequest, Idle, Works, Fails, Act, pairs, redis, TypeOK, Request, Time
  <2>6. [val |-> req[r].val, exp |-> now + CacheTTL, raced |-> req[r].val < user.changed] \in [val : Time, exp : 0..(MaxTime + CacheTTL), raced : BOOLEAN]
    BY <1>19, SessionsAssumption, <2>5 DEF CutoffFill, Start, Goto, Finish, At, NewRequest, Idle, Works, Fails, Act, pairs, redis
  <2>7. cutoff' \in [val : Time, exp : 0..(MaxTime + CacheTTL), raced : BOOLEAN]
    BY <1>19, SessionsAssumption, <2>6 DEF CutoffFill, Start, Goto, Finish, At, NewRequest, Idle, Works, Fails, Act, pairs, redis, TypeOK
  <2>8. /\ failures' \in 0..MaxFailures /\ acts' \in 0..MaxActs
    BY <1>19, SessionsAssumption DEF CutoffFill, Start, Goto, Finish, At, NewRequest, Idle, Works, Fails, Act, pairs, redis, TypeOK, Request, Time, NoEntry
  <2>9. QED
    BY <2>1, <2>2, <2>3, <2>4, <2>5, <2>6, <2>7, <2>8 DEF TypeOK
<1>20. ASSUME NEW r \in Req, Abandon(r) PROVE TypeOK'
  BY <1>20, SessionsAssumption DEF Abandon, Start, Goto, Finish, At, NewRequest, Idle, Works, Fails, Act, pairs, redis, Past, TypeOK, Request, Time, Statuses, PCs
<1>21. ASSUME NEW r \in Req, NEW t \in Token, RefreshGet(r, t) PROVE TypeOK'
  <2>1. req' \in [Req -> Request]
    BY <1>21, SessionsAssumption DEF RefreshGet, Start, Goto, Finish, At, NewRequest, Idle, Works, Fails, Act, Room, pairs, redis, TypeOK, Request, Time, PCs
  <2>2. /\ now' \in Time
          /\ user' \in [status : Statuses, deletedAt : Time, changed : Time]
          /\ iat' \in [Token -> Time]
          /\ parent' \in [Token -> Token \union {NoToken}]
    BY <1>21, SessionsAssumption DEF RefreshGet, Start, Goto, Finish, At, NewRequest, Idle, Works, Fails, Act, Room, pairs, redis, TypeOK, Request, Time, Statuses
  <2>3. /\ given' \subseteq Token /\ live' \subseteq Token
          /\ index' \subseteq Token /\ revoked' \subseteq Token
    BY <1>21, SessionsAssumption DEF RefreshGet, Start, Goto, Finish, At, NewRequest, Idle, Works, Fails, Act, Room, pairs, redis, TypeOK, Past, Request, PCs
  <2>4. cutoff' \in [val : Time, exp : 0..(MaxTime + CacheTTL), raced : BOOLEAN]
    BY <1>21, SessionsAssumption DEF RefreshGet, Start, Goto, Finish, At, NewRequest, Idle, Works, Fails, Act, pairs, redis, TypeOK, Request, Time, NoEntry
  <2>5. /\ failures' \in 0..MaxFailures /\ acts' \in 0..MaxActs
    BY <1>21, SessionsAssumption DEF RefreshGet, Start, Goto, Finish, At, NewRequest, Idle, Works, Fails, Act, pairs, redis, TypeOK, Request, Time, NoEntry
  <2>6. QED
    BY <2>1, <2>2, <2>3, <2>4, <2>5 DEF TypeOK
<1>22. ASSUME NEW r \in Req, NEW t \in Token, Logout(r, t) PROVE TypeOK'
  <2>1. req' \in [Req -> Request]
    BY <1>22, SessionsAssumption DEF Logout, Start, Goto, Finish, At, NewRequest, Idle, Works, Fails, Act, WithRevoked, IsRevoked, pairs, redis, TypeOK, Request, Time, PCs
  <2>2. /\ now' \in Time
          /\ user' \in [status : Statuses, deletedAt : Time, changed : Time]
          /\ iat' \in [Token -> Time]
          /\ parent' \in [Token -> Token \union {NoToken}]
    BY <1>22, SessionsAssumption DEF Logout, Start, Goto, Finish, At, NewRequest, Idle, Works, Fails, Act, WithRevoked, IsRevoked, pairs, redis, TypeOK, Request, Time, Statuses
  <2>3. /\ given' \subseteq Token /\ live' \subseteq Token
          /\ index' \subseteq Token /\ revoked' \subseteq Token
    BY <1>22, SessionsAssumption DEF Logout, Start, Goto, Finish, At, NewRequest, Idle, Works, Fails, Act, WithRevoked, IsRevoked, pairs, redis, TypeOK, Past, Request, PCs
  <2>4. cutoff' \in [val : Time, exp : 0..(MaxTime + CacheTTL), raced : BOOLEAN]
    BY <1>22, SessionsAssumption DEF Logout, Start, Goto, Finish, At, NewRequest, Idle, Works, Fails, Act, pairs, redis, TypeOK, Request, Time, NoEntry
  <2>5. /\ failures' \in 0..MaxFailures /\ acts' \in 0..MaxActs
    BY <1>22, SessionsAssumption DEF Logout, Start, Goto, Finish, At, NewRequest, Idle, Works, Fails, Act, pairs, redis, TypeOK, Request, Time, NoEntry
  <2>6. QED
    BY <2>1, <2>2, <2>3, <2>4, <2>5 DEF TypeOK
<1>23. ASSUME NEW r \in Req, NEW t \in Token, Admit(r, t) PROVE TypeOK'
  <2>1. req' \in [Req -> Request]
    BY <1>23, SessionsAssumption DEF Admit, Start, Goto, Finish, At, NewRequest, Idle, Works, Fails, Act, pairs, redis, TypeOK, Request, Time, PCs
  <2>2. /\ now' \in Time
          /\ user' \in [status : Statuses, deletedAt : Time, changed : Time]
          /\ iat' \in [Token -> Time]
          /\ parent' \in [Token -> Token \union {NoToken}]
    BY <1>23, SessionsAssumption DEF Admit, Start, Goto, Finish, At, NewRequest, Idle, Works, Fails, Act, pairs, redis, TypeOK, Request, Time, Statuses
  <2>3. /\ given' \subseteq Token /\ live' \subseteq Token
          /\ index' \subseteq Token /\ revoked' \subseteq Token
    BY <1>23, SessionsAssumption DEF Admit, Start, Goto, Finish, At, NewRequest, Idle, Works, Fails, Act, pairs, redis, TypeOK, Past, Request, PCs
  <2>4. cutoff' \in [val : Time, exp : 0..(MaxTime + CacheTTL), raced : BOOLEAN]
    BY <1>23, SessionsAssumption DEF Admit, Start, Goto, Finish, At, NewRequest, Idle, Works, Fails, Act, pairs, redis, TypeOK, Request, Time, NoEntry
  <2>5. /\ failures' \in 0..MaxFailures /\ acts' \in 0..MaxActs
    BY <1>23, SessionsAssumption DEF Admit, Start, Goto, Finish, At, NewRequest, Idle, Works, Fails, Act, pairs, redis, TypeOK, Request, Time, NoEntry
  <2>6. QED
    BY <2>1, <2>2, <2>3, <2>4, <2>5 DEF TypeOK
<1>24. CASE UpdateStatus
  BY <1>24, SessionsAssumption DEF UpdateStatus, Start, Goto, Finish, At, NewRequest, Idle, Works, Fails, Act, WithStatus, pairs, redis, Past, TypeOK, Request, Time, Statuses, PCs
<1>25. CASE Tick
  BY <1>25, SessionsAssumption DEF Tick, Start, Goto, Finish, At, NewRequest, Idle, Works, Fails, Act, pairs, redis, Past, TypeOK, Request, Time, Statuses, PCs
<1>26. CASE UNCHANGED vars
  BY <1>26 DEF vars, pairs, redis, Past, TypeOK, Request, Time, Statuses, PCs, At
<1>27. QED
  BY <1>1, <1>2, <1>3, <1>4, <1>5, <1>6, <1>7, <1>8, <1>9, <1>10, <1>11, <1>12, <1>13, <1>14, <1>15, <1>16, <1>17, <1>18, <1>19, <1>20, <1>21, <1>22, <1>23, <1>24, <1>25, <1>26 DEF Next, Issue, Refresh, Revoke, End, Auth

\* The clock waits for a request at its limit; a token is issued once.
LEMMA InTimeStep ==
    ASSUME TypeOK, TypeOK', InTime, Past, [Next]_vars
    PROVE  InTime'
<1>1. ASSUME NEW r \in Req, Login(r) PROVE InTime'
  BY <1>1, SessionsAssumption DEF Login, Start, Goto, Finish, At, NewRequest, Idle, Works, Fails, Act, Room, CanLogin, LoginRowFound, pairs, redis, InTime, Past, TypeOK, Request, Time, Statuses, PCs
<1>2. ASSUME NEW r \in Req, Mint(r) PROVE InTime'
  BY <1>2, SessionsAssumption DEF Mint, Start, Goto, Finish, At, NewRequest, Idle, Works, Fails, Act, pairs, redis, InTime, Past, TypeOK, Request, Time, Statuses, PCs
<1>3. ASSUME NEW r \in Req, StoreRefresh(r) PROVE InTime'
  BY <1>3, SessionsAssumption DEF StoreRefresh, Start, Goto, Finish, At, NewRequest, Idle, Works, Fails, Act, pairs, redis, InTime, Past, TypeOK, Request, Time, Statuses, PCs
<1>4. ASSUME NEW r \in Req, IndexRefresh(r) PROVE InTime'
  BY <1>4, SessionsAssumption DEF IndexRefresh, Start, Goto, Finish, At, NewRequest, Idle, Works, Fails, Act, pairs, redis, InTime, Past, TypeOK, Request, Time, Statuses, PCs
<1>5. ASSUME NEW r \in Req, RefreshDel(r) PROVE InTime'
  BY <1>5, SessionsAssumption DEF RefreshDel, Start, Goto, Finish, At, NewRequest, Idle, Works, Fails, Act, pairs, redis, InTime, Past, TypeOK, Request, Time, Statuses, PCs
<1>6. ASSUME NEW r \in Req, RefreshUnindex(r) PROVE InTime'
  BY <1>6, SessionsAssumption DEF RefreshUnindex, Start, Goto, Finish, At, NewRequest, Idle, Works, Fails, Act, pairs, redis, InTime, Past, TypeOK, Request, Time, Statuses, PCs
<1>7. ASSUME NEW r \in Req, RefreshUser(r) PROVE InTime'
  BY <1>7, SessionsAssumption DEF RefreshUser, Start, Goto, Finish, At, NewRequest, Idle, Works, Fails, Act, CanRefresh, pairs, redis, InTime, Past, TypeOK, Request, Time, Statuses, PCs
<1>8. ASSUME NEW r \in Req, RevokeList(r) PROVE InTime'
  BY <1>8, SessionsAssumption DEF RevokeList, Start, Goto, Finish, At, NewRequest, Idle, Works, Fails, Act, pairs, redis, InTime, Past, TypeOK, Request, Time, Statuses, PCs
<1>9. ASSUME NEW r \in Req, RevokeKeys(r) PROVE InTime'
  BY <1>9, SessionsAssumption DEF RevokeKeys, Start, Goto, Finish, At, NewRequest, Idle, Works, Fails, Act, pairs, redis, InTime, Past, TypeOK, Request, Time, Statuses, PCs
<1>10. ASSUME NEW r \in Req, RevokeIndex(r) PROVE InTime'
  BY <1>10, SessionsAssumption DEF RevokeIndex, Start, Goto, Finish, At, NewRequest, Idle, Works, Fails, Act, pairs, redis, InTime, Past, TypeOK, Request, Time, Statuses, PCs
<1>11. ASSUME NEW r \in Req, PasswordRead(r) PROVE InTime'
  BY <1>11, SessionsAssumption DEF PasswordRead, Start, Goto, Finish, At, NewRequest, Idle, Works, Fails, Act, pairs, redis, InTime, Past, TypeOK, Request, Time, Statuses, PCs
<1>12. ASSUME NEW r \in Req, PasswordWrite(r) PROVE InTime'
  BY <1>12, SessionsAssumption DEF PasswordWrite, Start, Goto, Finish, At, NewRequest, Idle, Works, Fails, Act, pairs, redis, InTime, Past, TypeOK, Request, Time, Statuses, PCs
<1>13. ASSUME NEW r \in Req, PasswordBust(r) PROVE InTime'
  BY <1>13, SessionsAssumption DEF PasswordBust, Start, Goto, Finish, At, NewRequest, Idle, Works, Fails, Act, NoEntry, pairs, redis, InTime, Past, TypeOK, Request, Time, Statuses, PCs
<1>14. ASSUME NEW r \in Req, Deactivate(r) PROVE InTime'
  BY <1>14, SessionsAssumption DEF Deactivate, Start, Goto, Finish, At, NewRequest, Idle, Works, Fails, Act, Deactivated, pairs, redis, InTime, Past, TypeOK, Request, Time, Statuses, PCs
<1>15. ASSUME NEW r \in Req, AdmitBlacklist(r) PROVE InTime'
  BY <1>15, SessionsAssumption DEF AdmitBlacklist, Start, Goto, Finish, At, NewRequest, Idle, Works, Fails, Act, IsRevoked, pairs, redis, InTime, Past, TypeOK, Request, Time, Statuses, PCs
<1>16. ASSUME NEW r \in Req, CutoffHit(r) PROVE InTime'
  BY <1>16, SessionsAssumption DEF CutoffHit, Start, Goto, Finish, At, NewRequest, Idle, Works, Fails, Act, Visible, pairs, redis, InTime, Past, TypeOK, Request, Time, Statuses, PCs
<1>17. ASSUME NEW r \in Req, CutoffMiss(r) PROVE InTime'
  BY <1>17, SessionsAssumption DEF CutoffMiss, Start, Goto, Finish, At, NewRequest, Idle, Works, Fails, Act, pairs, redis, InTime, Past, TypeOK, Request, Time, Statuses, PCs
<1>18. ASSUME NEW r \in Req, CutoffRead(r) PROVE InTime'
  BY <1>18, SessionsAssumption DEF CutoffRead, Start, Goto, Finish, At, NewRequest, Idle, Works, Fails, Act, pairs, redis, InTime, Past, TypeOK, Request, Time, Statuses, PCs
<1>19. ASSUME NEW r \in Req, CutoffFill(r) PROVE InTime'
  BY <1>19, SessionsAssumption DEF CutoffFill, Start, Goto, Finish, At, NewRequest, Idle, Works, Fails, Act, pairs, redis, InTime, Past, TypeOK, Request, Time, Statuses, PCs
<1>20. ASSUME NEW r \in Req, Abandon(r) PROVE InTime'
  BY <1>20, SessionsAssumption DEF Abandon, Start, Goto, Finish, At, NewRequest, Idle, Works, Fails, Act, pairs, redis, InTime, Past, TypeOK, Request, Time, Statuses, PCs
<1>21. ASSUME NEW r \in Req, NEW t \in Token, RefreshGet(r, t) PROVE InTime'
  BY <1>21, SessionsAssumption DEF RefreshGet, Start, Goto, Finish, At, NewRequest, Idle, Works, Fails, Act, Room, pairs, redis, InTime, Past, TypeOK, Request, Time, Statuses, PCs
<1>22. ASSUME NEW r \in Req, NEW t \in Token, Logout(r, t) PROVE InTime'
  BY <1>22, SessionsAssumption DEF Logout, Start, Goto, Finish, At, NewRequest, Idle, Works, Fails, Act, WithRevoked, IsRevoked, pairs, redis, InTime, Past, TypeOK, Request, Time, Statuses, PCs
<1>23. ASSUME NEW r \in Req, NEW t \in Token, Admit(r, t) PROVE InTime'
  BY <1>23, SessionsAssumption DEF Admit, Start, Goto, Finish, At, NewRequest, Idle, Works, Fails, Act, pairs, redis, InTime, Past, TypeOK, Request, Time, Statuses, PCs
<1>24. CASE UpdateStatus
  BY <1>24, SessionsAssumption DEF UpdateStatus, Start, Goto, Finish, At, NewRequest, Idle, Works, Fails, Act, WithStatus, pairs, redis, InTime, Past, TypeOK, Request, Time, Statuses, PCs
<1>25. CASE Tick
  BY <1>25, SessionsAssumption DEF Tick, Start, Goto, Finish, At, NewRequest, Idle, Works, Fails, Act, pairs, redis, InTime, Past, TypeOK, Request, Time, Statuses, PCs
<1>26. CASE UNCHANGED vars
  BY <1>26 DEF vars, pairs, redis, InTime, Past, TypeOK, Request, Time, Statuses, PCs, At
<1>27. QED
  BY <1>1, <1>2, <1>3, <1>4, <1>5, <1>6, <1>7, <1>8, <1>9, <1>10, <1>11, <1>12, <1>13, <1>14, <1>15, <1>16, <1>17, <1>18, <1>19, <1>20, <1>21, <1>22, <1>23, <1>24, <1>25, <1>26 DEF Next, Issue, Refresh, Revoke, End, Auth

\* Times are written as the present, and the clock only grows.
LEMMA PastStep ==
    ASSUME TypeOK, TypeOK', Past, [Next]_vars
    PROVE  Past'
<1>1. ASSUME NEW r \in Req, Login(r) PROVE Past'
  BY <1>1, SessionsAssumption DEF Login, Start, Goto, Finish, At, NewRequest, Idle, Works, Fails, Act, Room, CanLogin, LoginRowFound, pairs, redis, Past, TypeOK, Request, Time, Statuses, PCs
<1>2. ASSUME NEW r \in Req, Mint(r) PROVE Past'
  BY <1>2, SessionsAssumption DEF Mint, Start, Goto, Finish, At, NewRequest, Idle, Works, Fails, Act, pairs, redis, Past, TypeOK, Request, Time, Statuses, PCs
<1>3. ASSUME NEW r \in Req, StoreRefresh(r) PROVE Past'
  BY <1>3, SessionsAssumption DEF StoreRefresh, Start, Goto, Finish, At, NewRequest, Idle, Works, Fails, Act, pairs, redis, Past, TypeOK, Request, Time, Statuses, PCs
<1>4. ASSUME NEW r \in Req, IndexRefresh(r) PROVE Past'
  BY <1>4, SessionsAssumption DEF IndexRefresh, Start, Goto, Finish, At, NewRequest, Idle, Works, Fails, Act, pairs, redis, Past, TypeOK, Request, Time, Statuses, PCs
<1>5. ASSUME NEW r \in Req, RefreshDel(r) PROVE Past'
  BY <1>5, SessionsAssumption DEF RefreshDel, Start, Goto, Finish, At, NewRequest, Idle, Works, Fails, Act, pairs, redis, Past, TypeOK, Request, Time, Statuses, PCs
<1>6. ASSUME NEW r \in Req, RefreshUnindex(r) PROVE Past'
  BY <1>6, SessionsAssumption DEF RefreshUnindex, Start, Goto, Finish, At, NewRequest, Idle, Works, Fails, Act, pairs, redis, Past, TypeOK, Request, Time, Statuses, PCs
<1>7. ASSUME NEW r \in Req, RefreshUser(r) PROVE Past'
  BY <1>7, SessionsAssumption DEF RefreshUser, Start, Goto, Finish, At, NewRequest, Idle, Works, Fails, Act, CanRefresh, pairs, redis, Past, TypeOK, Request, Time, Statuses, PCs
<1>8. ASSUME NEW r \in Req, RevokeList(r) PROVE Past'
  BY <1>8, SessionsAssumption DEF RevokeList, Start, Goto, Finish, At, NewRequest, Idle, Works, Fails, Act, pairs, redis, Past, TypeOK, Request, Time, Statuses, PCs
<1>9. ASSUME NEW r \in Req, RevokeKeys(r) PROVE Past'
  BY <1>9, SessionsAssumption DEF RevokeKeys, Start, Goto, Finish, At, NewRequest, Idle, Works, Fails, Act, pairs, redis, Past, TypeOK, Request, Time, Statuses, PCs
<1>10. ASSUME NEW r \in Req, RevokeIndex(r) PROVE Past'
  BY <1>10, SessionsAssumption DEF RevokeIndex, Start, Goto, Finish, At, NewRequest, Idle, Works, Fails, Act, pairs, redis, Past, TypeOK, Request, Time, Statuses, PCs
<1>11. ASSUME NEW r \in Req, PasswordRead(r) PROVE Past'
  BY <1>11, SessionsAssumption DEF PasswordRead, Start, Goto, Finish, At, NewRequest, Idle, Works, Fails, Act, pairs, redis, Past, TypeOK, Request, Time, Statuses, PCs
<1>12. ASSUME NEW r \in Req, PasswordWrite(r) PROVE Past'
  BY <1>12, SessionsAssumption DEF PasswordWrite, Start, Goto, Finish, At, NewRequest, Idle, Works, Fails, Act, pairs, redis, Past, TypeOK, Request, Time, Statuses, PCs
<1>13. ASSUME NEW r \in Req, PasswordBust(r) PROVE Past'
  BY <1>13, SessionsAssumption DEF PasswordBust, Start, Goto, Finish, At, NewRequest, Idle, Works, Fails, Act, NoEntry, pairs, redis, Past, TypeOK, Request, Time, Statuses, PCs
<1>14. ASSUME NEW r \in Req, Deactivate(r) PROVE Past'
  BY <1>14, SessionsAssumption DEF Deactivate, Start, Goto, Finish, At, NewRequest, Idle, Works, Fails, Act, Deactivated, pairs, redis, Past, TypeOK, Request, Time, Statuses, PCs
<1>15. ASSUME NEW r \in Req, AdmitBlacklist(r) PROVE Past'
  BY <1>15, SessionsAssumption DEF AdmitBlacklist, Start, Goto, Finish, At, NewRequest, Idle, Works, Fails, Act, IsRevoked, pairs, redis, Past, TypeOK, Request, Time, Statuses, PCs
<1>16. ASSUME NEW r \in Req, CutoffHit(r) PROVE Past'
  BY <1>16, SessionsAssumption DEF CutoffHit, Start, Goto, Finish, At, NewRequest, Idle, Works, Fails, Act, Visible, pairs, redis, Past, TypeOK, Request, Time, Statuses, PCs
<1>17. ASSUME NEW r \in Req, CutoffMiss(r) PROVE Past'
  BY <1>17, SessionsAssumption DEF CutoffMiss, Start, Goto, Finish, At, NewRequest, Idle, Works, Fails, Act, pairs, redis, Past, TypeOK, Request, Time, Statuses, PCs
<1>18. ASSUME NEW r \in Req, CutoffRead(r) PROVE Past'
  BY <1>18, SessionsAssumption DEF CutoffRead, Start, Goto, Finish, At, NewRequest, Idle, Works, Fails, Act, pairs, redis, Past, TypeOK, Request, Time, Statuses, PCs
<1>19. ASSUME NEW r \in Req, CutoffFill(r) PROVE Past'
  BY <1>19, SessionsAssumption DEF CutoffFill, Start, Goto, Finish, At, NewRequest, Idle, Works, Fails, Act, pairs, redis, Past, TypeOK, Request, Time, Statuses, PCs
<1>20. ASSUME NEW r \in Req, Abandon(r) PROVE Past'
  BY <1>20, SessionsAssumption DEF Abandon, Start, Goto, Finish, At, NewRequest, Idle, Works, Fails, Act, pairs, redis, Past, TypeOK, Request, Time, Statuses, PCs
<1>21. ASSUME NEW r \in Req, NEW t \in Token, RefreshGet(r, t) PROVE Past'
  BY <1>21, SessionsAssumption DEF RefreshGet, Start, Goto, Finish, At, NewRequest, Idle, Works, Fails, Act, Room, pairs, redis, Past, TypeOK, Request, Time, Statuses, PCs
<1>22. ASSUME NEW r \in Req, NEW t \in Token, Logout(r, t) PROVE Past'
  BY <1>22, SessionsAssumption DEF Logout, Start, Goto, Finish, At, NewRequest, Idle, Works, Fails, Act, WithRevoked, IsRevoked, pairs, redis, Past, TypeOK, Request, Time, Statuses, PCs
<1>23. ASSUME NEW r \in Req, NEW t \in Token, Admit(r, t) PROVE Past'
  BY <1>23, SessionsAssumption DEF Admit, Start, Goto, Finish, At, NewRequest, Idle, Works, Fails, Act, pairs, redis, Past, TypeOK, Request, Time, Statuses, PCs
<1>24. CASE UpdateStatus
  BY <1>24, SessionsAssumption DEF UpdateStatus, Start, Goto, Finish, At, NewRequest, Idle, Works, Fails, Act, WithStatus, pairs, redis, Past, TypeOK, Request, Time, Statuses, PCs
<1>25. CASE Tick
  BY <1>25, SessionsAssumption DEF Tick, Start, Goto, Finish, At, NewRequest, Idle, Works, Fails, Act, pairs, redis, Past, TypeOK, Request, Time, Statuses, PCs
<1>26. CASE UNCHANGED vars
  BY <1>26 DEF vars, pairs, redis, Past, TypeOK, Request, Time, Statuses, PCs, At
<1>27. QED
  BY <1>1, <1>2, <1>3, <1>4, <1>5, <1>6, <1>7, <1>8, <1>9, <1>10, <1>11, <1>12, <1>13, <1>14, <1>15, <1>16, <1>17, <1>18, <1>19, <1>20, <1>21, <1>22, <1>23, <1>24, <1>25, <1>26 DEF Next, Issue, Refresh, Revoke, End, Auth

\* The row moves at the present, after every request in progress began.
LEMMA OvertakenStep ==
    ASSUME TypeOK, TypeOK', Past, InTime, Overtaken, [Next]_vars
    PROVE  Overtaken'
<1>1. ASSUME NEW r \in Req, Login(r) PROVE Overtaken'
  BY <1>1, SessionsAssumption DEF Login, Start, Goto, Finish, At, NewRequest, Idle, Works, Fails, Act, Room, CanLogin, LoginRowFound, pairs, redis, Overtaken, Past, InTime, TypeOK, Request, Time, Statuses, PCs
<1>2. ASSUME NEW r \in Req, Mint(r) PROVE Overtaken'
  BY <1>2, SessionsAssumption DEF Mint, Start, Goto, Finish, At, NewRequest, Idle, Works, Fails, Act, pairs, redis, Overtaken, Past, InTime, TypeOK, Request, Time, Statuses, PCs
<1>3. ASSUME NEW r \in Req, StoreRefresh(r) PROVE Overtaken'
  BY <1>3, SessionsAssumption DEF StoreRefresh, Start, Goto, Finish, At, NewRequest, Idle, Works, Fails, Act, pairs, redis, Overtaken, Past, InTime, TypeOK, Request, Time, Statuses, PCs
<1>4. ASSUME NEW r \in Req, IndexRefresh(r) PROVE Overtaken'
  BY <1>4, SessionsAssumption DEF IndexRefresh, Start, Goto, Finish, At, NewRequest, Idle, Works, Fails, Act, pairs, redis, Overtaken, Past, InTime, TypeOK, Request, Time, Statuses, PCs
<1>5. ASSUME NEW r \in Req, RefreshDel(r) PROVE Overtaken'
  BY <1>5, SessionsAssumption DEF RefreshDel, Start, Goto, Finish, At, NewRequest, Idle, Works, Fails, Act, pairs, redis, Overtaken, Past, InTime, TypeOK, Request, Time, Statuses, PCs
<1>6. ASSUME NEW r \in Req, RefreshUnindex(r) PROVE Overtaken'
  BY <1>6, SessionsAssumption DEF RefreshUnindex, Start, Goto, Finish, At, NewRequest, Idle, Works, Fails, Act, pairs, redis, Overtaken, Past, InTime, TypeOK, Request, Time, Statuses, PCs
<1>7. ASSUME NEW r \in Req, RefreshUser(r) PROVE Overtaken'
  BY <1>7, SessionsAssumption DEF RefreshUser, Start, Goto, Finish, At, NewRequest, Idle, Works, Fails, Act, CanRefresh, pairs, redis, Overtaken, Past, InTime, TypeOK, Request, Time, Statuses, PCs
<1>8. ASSUME NEW r \in Req, RevokeList(r) PROVE Overtaken'
  BY <1>8, SessionsAssumption DEF RevokeList, Start, Goto, Finish, At, NewRequest, Idle, Works, Fails, Act, pairs, redis, Overtaken, Past, InTime, TypeOK, Request, Time, Statuses, PCs
<1>9. ASSUME NEW r \in Req, RevokeKeys(r) PROVE Overtaken'
  BY <1>9, SessionsAssumption DEF RevokeKeys, Start, Goto, Finish, At, NewRequest, Idle, Works, Fails, Act, pairs, redis, Overtaken, Past, InTime, TypeOK, Request, Time, Statuses, PCs
<1>10. ASSUME NEW r \in Req, RevokeIndex(r) PROVE Overtaken'
  BY <1>10, SessionsAssumption DEF RevokeIndex, Start, Goto, Finish, At, NewRequest, Idle, Works, Fails, Act, pairs, redis, Overtaken, Past, InTime, TypeOK, Request, Time, Statuses, PCs
<1>11. ASSUME NEW r \in Req, PasswordRead(r) PROVE Overtaken'
  BY <1>11, SessionsAssumption DEF PasswordRead, Start, Goto, Finish, At, NewRequest, Idle, Works, Fails, Act, pairs, redis, Overtaken, Past, InTime, TypeOK, Request, Time, Statuses, PCs
<1>12. ASSUME NEW r \in Req, PasswordWrite(r) PROVE Overtaken'
  BY <1>12, SessionsAssumption DEF PasswordWrite, Start, Goto, Finish, At, NewRequest, Idle, Works, Fails, Act, pairs, redis, Overtaken, Past, InTime, TypeOK, Request, Time, Statuses, PCs
<1>13. ASSUME NEW r \in Req, PasswordBust(r) PROVE Overtaken'
  BY <1>13, SessionsAssumption DEF PasswordBust, Start, Goto, Finish, At, NewRequest, Idle, Works, Fails, Act, NoEntry, pairs, redis, Overtaken, Past, InTime, TypeOK, Request, Time, Statuses, PCs
<1>14. ASSUME NEW r \in Req, Deactivate(r) PROVE Overtaken'
  BY <1>14, SessionsAssumption DEF Deactivate, Start, Goto, Finish, At, NewRequest, Idle, Works, Fails, Act, Deactivated, pairs, redis, Overtaken, Past, InTime, TypeOK, Request, Time, Statuses, PCs
<1>15. ASSUME NEW r \in Req, AdmitBlacklist(r) PROVE Overtaken'
  BY <1>15, SessionsAssumption DEF AdmitBlacklist, Start, Goto, Finish, At, NewRequest, Idle, Works, Fails, Act, IsRevoked, pairs, redis, Overtaken, Past, InTime, TypeOK, Request, Time, Statuses, PCs
<1>16. ASSUME NEW r \in Req, CutoffHit(r) PROVE Overtaken'
  BY <1>16, SessionsAssumption DEF CutoffHit, Start, Goto, Finish, At, NewRequest, Idle, Works, Fails, Act, Visible, pairs, redis, Overtaken, Past, InTime, TypeOK, Request, Time, Statuses, PCs
<1>17. ASSUME NEW r \in Req, CutoffMiss(r) PROVE Overtaken'
  BY <1>17, SessionsAssumption DEF CutoffMiss, Start, Goto, Finish, At, NewRequest, Idle, Works, Fails, Act, pairs, redis, Overtaken, Past, InTime, TypeOK, Request, Time, Statuses, PCs
<1>18. ASSUME NEW r \in Req, CutoffRead(r) PROVE Overtaken'
  BY <1>18, SessionsAssumption DEF CutoffRead, Start, Goto, Finish, At, NewRequest, Idle, Works, Fails, Act, pairs, redis, Overtaken, Past, InTime, TypeOK, Request, Time, Statuses, PCs
<1>19. ASSUME NEW r \in Req, CutoffFill(r) PROVE Overtaken'
  BY <1>19, SessionsAssumption DEF CutoffFill, Start, Goto, Finish, At, NewRequest, Idle, Works, Fails, Act, pairs, redis, Overtaken, Past, InTime, TypeOK, Request, Time, Statuses, PCs
<1>20. ASSUME NEW r \in Req, Abandon(r) PROVE Overtaken'
  BY <1>20, SessionsAssumption DEF Abandon, Start, Goto, Finish, At, NewRequest, Idle, Works, Fails, Act, pairs, redis, Overtaken, Past, InTime, TypeOK, Request, Time, Statuses, PCs
<1>21. ASSUME NEW r \in Req, NEW t \in Token, RefreshGet(r, t) PROVE Overtaken'
  BY <1>21, SessionsAssumption DEF RefreshGet, Start, Goto, Finish, At, NewRequest, Idle, Works, Fails, Act, Room, pairs, redis, Overtaken, Past, InTime, TypeOK, Request, Time, Statuses, PCs
<1>22. ASSUME NEW r \in Req, NEW t \in Token, Logout(r, t) PROVE Overtaken'
  BY <1>22, SessionsAssumption DEF Logout, Start, Goto, Finish, At, NewRequest, Idle, Works, Fails, Act, WithRevoked, IsRevoked, pairs, redis, Overtaken, Past, InTime, TypeOK, Request, Time, Statuses, PCs
<1>23. ASSUME NEW r \in Req, NEW t \in Token, Admit(r, t) PROVE Overtaken'
  BY <1>23, SessionsAssumption DEF Admit, Start, Goto, Finish, At, NewRequest, Idle, Works, Fails, Act, pairs, redis, Overtaken, Past, InTime, TypeOK, Request, Time, Statuses, PCs
<1>24. CASE UpdateStatus
  BY <1>24, SessionsAssumption DEF UpdateStatus, Start, Goto, Finish, At, NewRequest, Idle, Works, Fails, Act, WithStatus, pairs, redis, Overtaken, Past, InTime, TypeOK, Request, Time, Statuses, PCs
<1>25. CASE Tick
  BY <1>25, SessionsAssumption DEF Tick, Start, Goto, Finish, At, NewRequest, Idle, Works, Fails, Act, pairs, redis, Overtaken, Past, InTime, TypeOK, Request, Time, Statuses, PCs
<1>26. CASE UNCHANGED vars
  BY <1>26 DEF vars, pairs, redis, Overtaken, Past, InTime, TypeOK, Request, Time, Statuses, PCs, At
<1>27. QED
  BY <1>1, <1>2, <1>3, <1>4, <1>5, <1>6, <1>7, <1>8, <1>9, <1>10, <1>11, <1>12, <1>13, <1>14, <1>15, <1>16, <1>17, <1>18, <1>19, <1>20, <1>21, <1>22, <1>23, <1>24, <1>25, <1>26 DEF Next, Issue, Refresh, Revoke, End, Auth

\* What an overtaken request writes, it writes within its own duration.
LEMMA WrittenStep ==
    ASSUME TypeOK, TypeOK', Past, InTime, Overtaken, Written, [Next]_vars
    PROVE  Written'
<1>1. ASSUME NEW r \in Req, Login(r) PROVE Written'
  BY <1>1, SessionsAssumption DEF Login, Start, Goto, Finish, At, NewRequest, Idle, Works, Fails, Act, Room, CanLogin, LoginRowFound, pairs, redis, Written, Overtaken, Past, InTime, TypeOK, Request, Time, Statuses, PCs
<1>2. ASSUME NEW r \in Req, Mint(r) PROVE Written'
  BY <1>2, SessionsAssumption DEF Mint, Start, Goto, Finish, At, NewRequest, Idle, Works, Fails, Act, pairs, redis, Written, Overtaken, Past, InTime, TypeOK, Request, Time, Statuses, PCs
<1>3. ASSUME NEW r \in Req, StoreRefresh(r) PROVE Written'
  BY <1>3, SessionsAssumption DEF StoreRefresh, Start, Goto, Finish, At, NewRequest, Idle, Works, Fails, Act, pairs, redis, Written, Overtaken, Past, InTime, TypeOK, Request, Time, Statuses, PCs
<1>4. ASSUME NEW r \in Req, IndexRefresh(r) PROVE Written'
  BY <1>4, SessionsAssumption DEF IndexRefresh, Start, Goto, Finish, At, NewRequest, Idle, Works, Fails, Act, pairs, redis, Written, Overtaken, Past, InTime, TypeOK, Request, Time, Statuses, PCs
<1>5. ASSUME NEW r \in Req, RefreshDel(r) PROVE Written'
  BY <1>5, SessionsAssumption DEF RefreshDel, Start, Goto, Finish, At, NewRequest, Idle, Works, Fails, Act, pairs, redis, Written, Overtaken, Past, InTime, TypeOK, Request, Time, Statuses, PCs
<1>6. ASSUME NEW r \in Req, RefreshUnindex(r) PROVE Written'
  BY <1>6, SessionsAssumption DEF RefreshUnindex, Start, Goto, Finish, At, NewRequest, Idle, Works, Fails, Act, pairs, redis, Written, Overtaken, Past, InTime, TypeOK, Request, Time, Statuses, PCs
<1>7. ASSUME NEW r \in Req, RefreshUser(r) PROVE Written'
  BY <1>7, SessionsAssumption DEF RefreshUser, Start, Goto, Finish, At, NewRequest, Idle, Works, Fails, Act, CanRefresh, pairs, redis, Written, Overtaken, Past, InTime, TypeOK, Request, Time, Statuses, PCs
<1>8. ASSUME NEW r \in Req, RevokeList(r) PROVE Written'
  BY <1>8, SessionsAssumption DEF RevokeList, Start, Goto, Finish, At, NewRequest, Idle, Works, Fails, Act, pairs, redis, Written, Overtaken, Past, InTime, TypeOK, Request, Time, Statuses, PCs
<1>9. ASSUME NEW r \in Req, RevokeKeys(r) PROVE Written'
  BY <1>9, SessionsAssumption DEF RevokeKeys, Start, Goto, Finish, At, NewRequest, Idle, Works, Fails, Act, pairs, redis, Written, Overtaken, Past, InTime, TypeOK, Request, Time, Statuses, PCs
<1>10. ASSUME NEW r \in Req, RevokeIndex(r) PROVE Written'
  BY <1>10, SessionsAssumption DEF RevokeIndex, Start, Goto, Finish, At, NewRequest, Idle, Works, Fails, Act, pairs, redis, Written, Overtaken, Past, InTime, TypeOK, Request, Time, Statuses, PCs
<1>11. ASSUME NEW r \in Req, PasswordRead(r) PROVE Written'
  BY <1>11, SessionsAssumption DEF PasswordRead, Start, Goto, Finish, At, NewRequest, Idle, Works, Fails, Act, pairs, redis, Written, Overtaken, Past, InTime, TypeOK, Request, Time, Statuses, PCs
<1>12. ASSUME NEW r \in Req, PasswordWrite(r) PROVE Written'
  BY <1>12, SessionsAssumption DEF PasswordWrite, Start, Goto, Finish, At, NewRequest, Idle, Works, Fails, Act, pairs, redis, Written, Overtaken, Past, InTime, TypeOK, Request, Time, Statuses, PCs
<1>13. ASSUME NEW r \in Req, PasswordBust(r) PROVE Written'
  BY <1>13, SessionsAssumption DEF PasswordBust, Start, Goto, Finish, At, NewRequest, Idle, Works, Fails, Act, NoEntry, pairs, redis, Written, Overtaken, Past, InTime, TypeOK, Request, Time, Statuses, PCs
<1>14. ASSUME NEW r \in Req, Deactivate(r) PROVE Written'
  BY <1>14, SessionsAssumption DEF Deactivate, Start, Goto, Finish, At, NewRequest, Idle, Works, Fails, Act, Deactivated, pairs, redis, Written, Overtaken, Past, InTime, TypeOK, Request, Time, Statuses, PCs
<1>15. ASSUME NEW r \in Req, AdmitBlacklist(r) PROVE Written'
  BY <1>15, SessionsAssumption DEF AdmitBlacklist, Start, Goto, Finish, At, NewRequest, Idle, Works, Fails, Act, IsRevoked, pairs, redis, Written, Overtaken, Past, InTime, TypeOK, Request, Time, Statuses, PCs
<1>16. ASSUME NEW r \in Req, CutoffHit(r) PROVE Written'
  BY <1>16, SessionsAssumption DEF CutoffHit, Start, Goto, Finish, At, NewRequest, Idle, Works, Fails, Act, Visible, pairs, redis, Written, Overtaken, Past, InTime, TypeOK, Request, Time, Statuses, PCs
<1>17. ASSUME NEW r \in Req, CutoffMiss(r) PROVE Written'
  BY <1>17, SessionsAssumption DEF CutoffMiss, Start, Goto, Finish, At, NewRequest, Idle, Works, Fails, Act, pairs, redis, Written, Overtaken, Past, InTime, TypeOK, Request, Time, Statuses, PCs
<1>18. ASSUME NEW r \in Req, CutoffRead(r) PROVE Written'
  BY <1>18, SessionsAssumption DEF CutoffRead, Start, Goto, Finish, At, NewRequest, Idle, Works, Fails, Act, pairs, redis, Written, Overtaken, Past, InTime, TypeOK, Request, Time, Statuses, PCs
<1>19. ASSUME NEW r \in Req, CutoffFill(r) PROVE Written'
  BY <1>19, SessionsAssumption DEF CutoffFill, Start, Goto, Finish, At, NewRequest, Idle, Works, Fails, Act, pairs, redis, Written, Overtaken, Past, InTime, TypeOK, Request, Time, Statuses, PCs
<1>20. ASSUME NEW r \in Req, Abandon(r) PROVE Written'
  BY <1>20, SessionsAssumption DEF Abandon, Start, Goto, Finish, At, NewRequest, Idle, Works, Fails, Act, pairs, redis, Written, Overtaken, Past, InTime, TypeOK, Request, Time, Statuses, PCs
<1>21. ASSUME NEW r \in Req, NEW t \in Token, RefreshGet(r, t) PROVE Written'
  BY <1>21, SessionsAssumption DEF RefreshGet, Start, Goto, Finish, At, NewRequest, Idle, Works, Fails, Act, Room, pairs, redis, Written, Overtaken, Past, InTime, TypeOK, Request, Time, Statuses, PCs
<1>22. ASSUME NEW r \in Req, NEW t \in Token, Logout(r, t) PROVE Written'
  BY <1>22, SessionsAssumption DEF Logout, Start, Goto, Finish, At, NewRequest, Idle, Works, Fails, Act, WithRevoked, IsRevoked, pairs, redis, Written, Overtaken, Past, InTime, TypeOK, Request, Time, Statuses, PCs
<1>23. ASSUME NEW r \in Req, NEW t \in Token, Admit(r, t) PROVE Written'
  BY <1>23, SessionsAssumption DEF Admit, Start, Goto, Finish, At, NewRequest, Idle, Works, Fails, Act, pairs, redis, Written, Overtaken, Past, InTime, TypeOK, Request, Time, Statuses, PCs
<1>24. CASE UpdateStatus
  BY <1>24, SessionsAssumption DEF UpdateStatus, Start, Goto, Finish, At, NewRequest, Idle, Works, Fails, Act, WithStatus, pairs, redis, Written, Overtaken, Past, InTime, TypeOK, Request, Time, Statuses, PCs
<1>25. CASE Tick
  BY <1>25, SessionsAssumption DEF Tick, Start, Goto, Finish, At, NewRequest, Idle, Works, Fails, Act, pairs, redis, Written, Overtaken, Past, InTime, TypeOK, Request, Time, Statuses, PCs
<1>26. CASE UNCHANGED vars
  BY <1>26 DEF vars, pairs, redis, Written, Overtaken, Past, InTime, TypeOK, Request, Time, Statuses, PCs, At
<1>27. QED
  BY <1>1, <1>2, <1>3, <1>4, <1>5, <1>6, <1>7, <1>8, <1>9, <1>10, <1>11, <1>12, <1>13, <1>14, <1>15, <1>16, <1>17, <1>18, <1>19, <1>20, <1>21, <1>22, <1>23, <1>24, <1>25, <1>26 DEF Next, Issue, Refresh, Revoke, End, Auth

\* A pair is minted with an unused token, which no request holds.
LEMMA KeysStep ==
    ASSUME TypeOK, TypeOK', Past, Keys, [Next]_vars
    PROVE  Keys'
<1>1. ASSUME NEW r \in Req, Login(r) PROVE Keys'
  BY <1>1, SessionsAssumption DEF Login, Start, Goto, Finish, At, NewRequest, Idle, Works, Fails, Act, Room, CanLogin, LoginRowFound, pairs, redis, Keys, NewKeys, OwnKeys, OldKeys, Past, TypeOK, Request, Time, Statuses, PCs
<1>2. ASSUME NEW r \in Req, Mint(r) PROVE Keys'
  BY <1>2, SessionsAssumption DEF Mint, Start, Goto, Finish, At, NewRequest, Idle, Works, Fails, Act, pairs, redis, Keys, NewKeys, OwnKeys, OldKeys, Past, TypeOK, Request, Time, Statuses, PCs
<1>3. ASSUME NEW r \in Req, StoreRefresh(r) PROVE Keys'
  <2>1. NewKeys'
    BY <1>3, SessionsAssumption DEF StoreRefresh, Start, Goto, Finish, At, NewRequest, Idle, Works, Fails, Act, pairs, redis, Keys, NewKeys, OwnKeys, OldKeys, Past, TypeOK, Request, Time, PCs
  <2>2. OwnKeys'
    BY <1>3, SessionsAssumption DEF StoreRefresh, Start, Goto, Finish, At, NewRequest, Idle, Works, Fails, Act, pairs, redis, Keys, NewKeys, OwnKeys, OldKeys, Past, TypeOK, Request, Time, PCs
  <2>3. OldKeys'
    BY <1>3, SessionsAssumption DEF StoreRefresh, Start, Goto, Finish, At, NewRequest, Idle, Works, Fails, Act, pairs, redis, Keys, NewKeys, OwnKeys, OldKeys, Past, TypeOK, Request, Time, PCs
  <2>4. QED
    BY <2>1, <2>2, <2>3 DEF Keys
<1>4. ASSUME NEW r \in Req, IndexRefresh(r) PROVE Keys'
  BY <1>4, SessionsAssumption DEF IndexRefresh, Start, Goto, Finish, At, NewRequest, Idle, Works, Fails, Act, pairs, redis, Keys, NewKeys, OwnKeys, OldKeys, Past, TypeOK, Request, Time, Statuses, PCs
<1>5. ASSUME NEW r \in Req, RefreshDel(r) PROVE Keys'
  <2>1. NewKeys'
    BY <1>5, SessionsAssumption DEF RefreshDel, Start, Goto, Finish, At, NewRequest, Idle, Works, Fails, Act, pairs, redis, Keys, NewKeys, OwnKeys, OldKeys, Past, TypeOK, Request, Time, PCs
  <2>2. OwnKeys'
    BY <1>5, SessionsAssumption DEF RefreshDel, Start, Goto, Finish, At, NewRequest, Idle, Works, Fails, Act, pairs, redis, Keys, NewKeys, OwnKeys, OldKeys, Past, TypeOK, Request, Time, PCs
  <2>3. OldKeys'
    BY <1>5, SessionsAssumption DEF RefreshDel, Start, Goto, Finish, At, NewRequest, Idle, Works, Fails, Act, pairs, redis, Keys, NewKeys, OwnKeys, OldKeys, Past, TypeOK, Request, Time, PCs
  <2>4. QED
    BY <2>1, <2>2, <2>3 DEF Keys
<1>6. ASSUME NEW r \in Req, RefreshUnindex(r) PROVE Keys'
  BY <1>6, SessionsAssumption DEF RefreshUnindex, Start, Goto, Finish, At, NewRequest, Idle, Works, Fails, Act, pairs, redis, Keys, NewKeys, OwnKeys, OldKeys, Past, TypeOK, Request, Time, Statuses, PCs
<1>7. ASSUME NEW r \in Req, RefreshUser(r) PROVE Keys'
  <2>1. NewKeys'
    BY <1>7, SessionsAssumption DEF RefreshUser, Start, Goto, Finish, At, NewRequest, Idle, Works, Fails, Act, CanRefresh, pairs, redis, Keys, NewKeys, OwnKeys, OldKeys, Past, TypeOK, Request, Time, PCs
  <2>2. OwnKeys'
    BY <1>7, SessionsAssumption DEF RefreshUser, Start, Goto, Finish, At, NewRequest, Idle, Works, Fails, Act, CanRefresh, pairs, redis, Keys, NewKeys, OwnKeys, OldKeys, Past, TypeOK, Request, Time, PCs
  <2>3. OldKeys'
    BY <1>7, SessionsAssumption DEF RefreshUser, Start, Goto, Finish, At, NewRequest, Idle, Works, Fails, Act, CanRefresh, pairs, redis, Keys, NewKeys, OwnKeys, OldKeys, Past, TypeOK, Request, Time, PCs
  <2>4. QED
    BY <2>1, <2>2, <2>3 DEF Keys
<1>8. ASSUME NEW r \in Req, RevokeList(r) PROVE Keys'
  <2>1. NewKeys'
    BY <1>8, SessionsAssumption DEF RevokeList, Start, Goto, Finish, At, NewRequest, Idle, Works, Fails, Act, pairs, redis, Keys, NewKeys, OwnKeys, OldKeys, Past, TypeOK, Request, Time, PCs
  <2>2. OwnKeys'
    BY <1>8, SessionsAssumption DEF RevokeList, Start, Goto, Finish, At, NewRequest, Idle, Works, Fails, Act, pairs, redis, Keys, NewKeys, OwnKeys, OldKeys, Past, TypeOK, Request, Time, PCs
  <2>3. OldKeys'
    BY <1>8, SessionsAssumption DEF RevokeList, Start, Goto, Finish, At, NewRequest, Idle, Works, Fails, Act, pairs, redis, Keys, NewKeys, OwnKeys, OldKeys, Past, TypeOK, Request, Time, PCs
  <2>4. QED
    BY <2>1, <2>2, <2>3 DEF Keys
<1>9. ASSUME NEW r \in Req, RevokeKeys(r) PROVE Keys'
  BY <1>9, SessionsAssumption DEF RevokeKeys, Start, Goto, Finish, At, NewRequest, Idle, Works, Fails, Act, pairs, redis, Keys, NewKeys, OwnKeys, OldKeys, Past, TypeOK, Request, Time, Statuses, PCs
<1>10. ASSUME NEW r \in Req, RevokeIndex(r) PROVE Keys'
  <2>1. NewKeys'
    BY <1>10, SessionsAssumption DEF RevokeIndex, Start, Goto, Finish, At, NewRequest, Idle, Works, Fails, Act, pairs, redis, Keys, NewKeys, OwnKeys, OldKeys, Past, TypeOK, Request, Time, PCs
  <2>2. OwnKeys'
    BY <1>10, SessionsAssumption DEF RevokeIndex, Start, Goto, Finish, At, NewRequest, Idle, Works, Fails, Act, pairs, redis, Keys, NewKeys, OwnKeys, OldKeys, Past, TypeOK, Request, Time, PCs
  <2>3. OldKeys'
    BY <1>10, SessionsAssumption DEF RevokeIndex, Start, Goto, Finish, At, NewRequest, Idle, Works, Fails, Act, pairs, redis, Keys, NewKeys, OwnKeys, OldKeys, Past, TypeOK, Request, Time, PCs
  <2>4. QED
    BY <2>1, <2>2, <2>3 DEF Keys
<1>11. ASSUME NEW r \in Req, PasswordRead(r) PROVE Keys'
  BY <1>11, SessionsAssumption DEF PasswordRead, Start, Goto, Finish, At, NewRequest, Idle, Works, Fails, Act, pairs, redis, Keys, NewKeys, OwnKeys, OldKeys, Past, TypeOK, Request, Time, Statuses, PCs
<1>12. ASSUME NEW r \in Req, PasswordWrite(r) PROVE Keys'
  BY <1>12, SessionsAssumption DEF PasswordWrite, Start, Goto, Finish, At, NewRequest, Idle, Works, Fails, Act, pairs, redis, Keys, NewKeys, OwnKeys, OldKeys, Past, TypeOK, Request, Time, Statuses, PCs
<1>13. ASSUME NEW r \in Req, PasswordBust(r) PROVE Keys'
  BY <1>13, SessionsAssumption DEF PasswordBust, Start, Goto, Finish, At, NewRequest, Idle, Works, Fails, Act, NoEntry, pairs, redis, Keys, NewKeys, OwnKeys, OldKeys, Past, TypeOK, Request, Time, Statuses, PCs
<1>14. ASSUME NEW r \in Req, Deactivate(r) PROVE Keys'
  BY <1>14, SessionsAssumption DEF Deactivate, Start, Goto, Finish, At, NewRequest, Idle, Works, Fails, Act, Deactivated, pairs, redis, Keys, NewKeys, OwnKeys, OldKeys, Past, TypeOK, Request, Time, Statuses, PCs
<1>15. ASSUME NEW r \in Req, AdmitBlacklist(r) PROVE Keys'
  <2>1. NewKeys'
    BY <1>15, SessionsAssumption DEF AdmitBlacklist, Start, Goto, Finish, At, NewRequest, Idle, Works, Fails, Act, IsRevoked, pairs, redis, Keys, NewKeys, OwnKeys, OldKeys, Past, TypeOK, Request, Time, PCs
  <2>2. OwnKeys'
    BY <1>15, SessionsAssumption DEF AdmitBlacklist, Start, Goto, Finish, At, NewRequest, Idle, Works, Fails, Act, IsRevoked, pairs, redis, Keys, NewKeys, OwnKeys, OldKeys, Past, TypeOK, Request, Time, PCs
  <2>3. OldKeys'
    BY <1>15, SessionsAssumption DEF AdmitBlacklist, Start, Goto, Finish, At, NewRequest, Idle, Works, Fails, Act, IsRevoked, pairs, redis, Keys, NewKeys, OwnKeys, OldKeys, Past, TypeOK, Request, Time, PCs
  <2>4. QED
    BY <2>1, <2>2, <2>3 DEF Keys
<1>16. ASSUME NEW r \in Req, CutoffHit(r) PROVE Keys'
  BY <1>16, SessionsAssumption DEF CutoffHit, Start, Goto, Finish, At, NewRequest, Idle, Works, Fails, Act, Visible, pairs, redis, Keys, NewKeys, OwnKeys, OldKeys, Past, TypeOK, Request, Time, Statuses, PCs
<1>17. ASSUME NEW r \in Req, CutoffMiss(r) PROVE Keys'
  BY <1>17, SessionsAssumption DEF CutoffMiss, Start, Goto, Finish, At, NewRequest, Idle, Works, Fails, Act, pairs, redis, Keys, NewKeys, OwnKeys, OldKeys, Past, TypeOK, Request, Time, Statuses, PCs
<1>18. ASSUME NEW r \in Req, CutoffRead(r) PROVE Keys'
  BY <1>18, SessionsAssumption DEF CutoffRead, Start, Goto, Finish, At, NewRequest, Idle, Works, Fails, Act, pairs, redis, Keys, NewKeys, OwnKeys, OldKeys, Past, TypeOK, Request, Time, Statuses, PCs
<1>19. ASSUME NEW r \in Req, CutoffFill(r) PROVE Keys'
  BY <1>19, SessionsAssumption DEF CutoffFill, Start, Goto, Finish, At, NewRequest, Idle, Works, Fails, Act, pairs, redis, Keys, NewKeys, OwnKeys, OldKeys, Past, TypeOK, Request, Time, Statuses, PCs
<1>20. ASSUME NEW r \in Req, Abandon(r) PROVE Keys'
  BY <1>20, SessionsAssumption DEF Abandon, Start, Goto, Finish, At, NewRequest, Idle, Works, Fails, Act, pairs, redis, Keys, NewKeys, OwnKeys, OldKeys, Past, TypeOK, Request, Time, Statuses, PCs
<1>21. ASSUME NEW r \in Req, NEW t \in Token, RefreshGet(r, t) PROVE Keys'
  BY <1>21, SessionsAssumption DEF RefreshGet, Start, Goto, Finish, At, NewRequest, Idle, Works, Fails, Act, Room, pairs, redis, Keys, NewKeys, OwnKeys, OldKeys, Past, TypeOK, Request, Time, Statuses, PCs
<1>22. ASSUME NEW r \in Req, NEW t \in Token, Logout(r, t) PROVE Keys'
  <2>1. NewKeys'
    BY <1>22, SessionsAssumption DEF Logout, Start, Goto, Finish, At, NewRequest, Idle, Works, Fails, Act, WithRevoked, IsRevoked, pairs, redis, Keys, NewKeys, OwnKeys, OldKeys, Past, TypeOK, Request, Time, PCs
  <2>2. OwnKeys'
    BY <1>22, SessionsAssumption DEF Logout, Start, Goto, Finish, At, NewRequest, Idle, Works, Fails, Act, WithRevoked, IsRevoked, pairs, redis, Keys, NewKeys, OwnKeys, OldKeys, Past, TypeOK, Request, Time, PCs
  <2>3. OldKeys'
    BY <1>22, SessionsAssumption DEF Logout, Start, Goto, Finish, At, NewRequest, Idle, Works, Fails, Act, WithRevoked, IsRevoked, pairs, redis, Keys, NewKeys, OwnKeys, OldKeys, Past, TypeOK, Request, Time, PCs
  <2>4. QED
    BY <2>1, <2>2, <2>3 DEF Keys
<1>23. ASSUME NEW r \in Req, NEW t \in Token, Admit(r, t) PROVE Keys'
  BY <1>23, SessionsAssumption DEF Admit, Start, Goto, Finish, At, NewRequest, Idle, Works, Fails, Act, pairs, redis, Keys, NewKeys, OwnKeys, OldKeys, Past, TypeOK, Request, Time, Statuses, PCs
<1>24. CASE UpdateStatus
  BY <1>24, SessionsAssumption DEF UpdateStatus, Start, Goto, Finish, At, NewRequest, Idle, Works, Fails, Act, WithStatus, pairs, redis, Keys, NewKeys, OwnKeys, OldKeys, Past, TypeOK, Request, Time, Statuses, PCs
<1>25. CASE Tick
  BY <1>25, SessionsAssumption DEF Tick, Start, Goto, Finish, At, NewRequest, Idle, Works, Fails, Act, pairs, redis, Keys, NewKeys, OwnKeys, OldKeys, Past, TypeOK, Request, Time, Statuses, PCs
<1>26. CASE UNCHANGED vars
  BY <1>26 DEF vars, pairs, redis, Keys, NewKeys, OwnKeys, OldKeys, Past, TypeOK, Request, Time, Statuses, PCs, At
<1>27. QED
  BY <1>1, <1>2, <1>3, <1>4, <1>5, <1>6, <1>7, <1>8, <1>9, <1>10, <1>11, <1>12, <1>13, <1>14, <1>15, <1>16, <1>17, <1>18, <1>19, <1>20, <1>21, <1>22, <1>23, <1>24, <1>25, <1>26 DEF Next, Issue, Refresh, Revoke, End, Auth

\* A key becomes live only where its pair is stored, when it has no child.
LEMMA RotatedStep ==
    ASSUME TypeOK, TypeOK', Past, Keys, Rotated, [Next]_vars
    PROVE  Rotated'
<1>1. ASSUME NEW r \in Req, Login(r) PROVE Rotated'
  BY <1>1, SessionsAssumption DEF Login, Start, Goto, Finish, At, NewRequest, Idle, Works, Fails, Act, Room, CanLogin, LoginRowFound, pairs, redis, Rotated, ExchangedKeyIsGone, Keys, NewKeys, OwnKeys, OldKeys, Past, TypeOK, Request, Time, Statuses, PCs
<1>2. ASSUME NEW r \in Req, Mint(r) PROVE Rotated'
  BY <1>2, SessionsAssumption DEF Mint, Start, Goto, Finish, At, NewRequest, Idle, Works, Fails, Act, pairs, redis, Rotated, ExchangedKeyIsGone, Keys, NewKeys, OwnKeys, OldKeys, Past, TypeOK, Request, Time, Statuses, PCs
<1>3. ASSUME NEW r \in Req, StoreRefresh(r) PROVE Rotated'
  BY <1>3, SessionsAssumption DEF StoreRefresh, Start, Goto, Finish, At, NewRequest, Idle, Works, Fails, Act, pairs, redis, Rotated, ExchangedKeyIsGone, Keys, NewKeys, OwnKeys, OldKeys, Past, TypeOK, Request, Time, Statuses, PCs
<1>4. ASSUME NEW r \in Req, IndexRefresh(r) PROVE Rotated'
  BY <1>4, SessionsAssumption DEF IndexRefresh, Start, Goto, Finish, At, NewRequest, Idle, Works, Fails, Act, pairs, redis, Rotated, ExchangedKeyIsGone, Keys, NewKeys, OwnKeys, OldKeys, Past, TypeOK, Request, Time, Statuses, PCs
<1>5. ASSUME NEW r \in Req, RefreshDel(r) PROVE Rotated'
  BY <1>5, SessionsAssumption DEF RefreshDel, Start, Goto, Finish, At, NewRequest, Idle, Works, Fails, Act, pairs, redis, Rotated, ExchangedKeyIsGone, Keys, NewKeys, OwnKeys, OldKeys, Past, TypeOK, Request, Time, Statuses, PCs
<1>6. ASSUME NEW r \in Req, RefreshUnindex(r) PROVE Rotated'
  BY <1>6, SessionsAssumption DEF RefreshUnindex, Start, Goto, Finish, At, NewRequest, Idle, Works, Fails, Act, pairs, redis, Rotated, ExchangedKeyIsGone, Keys, NewKeys, OwnKeys, OldKeys, Past, TypeOK, Request, Time, Statuses, PCs
<1>7. ASSUME NEW r \in Req, RefreshUser(r) PROVE Rotated'
  BY <1>7, SessionsAssumption DEF RefreshUser, Start, Goto, Finish, At, NewRequest, Idle, Works, Fails, Act, CanRefresh, pairs, redis, Rotated, ExchangedKeyIsGone, Keys, NewKeys, OwnKeys, OldKeys, Past, TypeOK, Request, Time, Statuses, PCs
<1>8. ASSUME NEW r \in Req, RevokeList(r) PROVE Rotated'
  BY <1>8, SessionsAssumption DEF RevokeList, Start, Goto, Finish, At, NewRequest, Idle, Works, Fails, Act, pairs, redis, Rotated, ExchangedKeyIsGone, Keys, NewKeys, OwnKeys, OldKeys, Past, TypeOK, Request, Time, Statuses, PCs
<1>9. ASSUME NEW r \in Req, RevokeKeys(r) PROVE Rotated'
  BY <1>9, SessionsAssumption DEF RevokeKeys, Start, Goto, Finish, At, NewRequest, Idle, Works, Fails, Act, pairs, redis, Rotated, ExchangedKeyIsGone, Keys, NewKeys, OwnKeys, OldKeys, Past, TypeOK, Request, Time, Statuses, PCs
<1>10. ASSUME NEW r \in Req, RevokeIndex(r) PROVE Rotated'
  BY <1>10, SessionsAssumption DEF RevokeIndex, Start, Goto, Finish, At, NewRequest, Idle, Works, Fails, Act, pairs, redis, Rotated, ExchangedKeyIsGone, Keys, NewKeys, OwnKeys, OldKeys, Past, TypeOK, Request, Time, Statuses, PCs
<1>11. ASSUME NEW r \in Req, PasswordRead(r) PROVE Rotated'
  BY <1>11, SessionsAssumption DEF PasswordRead, Start, Goto, Finish, At, NewRequest, Idle, Works, Fails, Act, pairs, redis, Rotated, ExchangedKeyIsGone, Keys, NewKeys, OwnKeys, OldKeys, Past, TypeOK, Request, Time, Statuses, PCs
<1>12. ASSUME NEW r \in Req, PasswordWrite(r) PROVE Rotated'
  BY <1>12, SessionsAssumption DEF PasswordWrite, Start, Goto, Finish, At, NewRequest, Idle, Works, Fails, Act, pairs, redis, Rotated, ExchangedKeyIsGone, Keys, NewKeys, OwnKeys, OldKeys, Past, TypeOK, Request, Time, Statuses, PCs
<1>13. ASSUME NEW r \in Req, PasswordBust(r) PROVE Rotated'
  BY <1>13, SessionsAssumption DEF PasswordBust, Start, Goto, Finish, At, NewRequest, Idle, Works, Fails, Act, NoEntry, pairs, redis, Rotated, ExchangedKeyIsGone, Keys, NewKeys, OwnKeys, OldKeys, Past, TypeOK, Request, Time, Statuses, PCs
<1>14. ASSUME NEW r \in Req, Deactivate(r) PROVE Rotated'
  BY <1>14, SessionsAssumption DEF Deactivate, Start, Goto, Finish, At, NewRequest, Idle, Works, Fails, Act, Deactivated, pairs, redis, Rotated, ExchangedKeyIsGone, Keys, NewKeys, OwnKeys, OldKeys, Past, TypeOK, Request, Time, Statuses, PCs
<1>15. ASSUME NEW r \in Req, AdmitBlacklist(r) PROVE Rotated'
  BY <1>15, SessionsAssumption DEF AdmitBlacklist, Start, Goto, Finish, At, NewRequest, Idle, Works, Fails, Act, IsRevoked, pairs, redis, Rotated, ExchangedKeyIsGone, Keys, NewKeys, OwnKeys, OldKeys, Past, TypeOK, Request, Time, Statuses, PCs
<1>16. ASSUME NEW r \in Req, CutoffHit(r) PROVE Rotated'
  BY <1>16, SessionsAssumption DEF CutoffHit, Start, Goto, Finish, At, NewRequest, Idle, Works, Fails, Act, Visible, pairs, redis, Rotated, ExchangedKeyIsGone, Keys, NewKeys, OwnKeys, OldKeys, Past, TypeOK, Request, Time, Statuses, PCs
<1>17. ASSUME NEW r \in Req, CutoffMiss(r) PROVE Rotated'
  BY <1>17, SessionsAssumption DEF CutoffMiss, Start, Goto, Finish, At, NewRequest, Idle, Works, Fails, Act, pairs, redis, Rotated, ExchangedKeyIsGone, Keys, NewKeys, OwnKeys, OldKeys, Past, TypeOK, Request, Time, Statuses, PCs
<1>18. ASSUME NEW r \in Req, CutoffRead(r) PROVE Rotated'
  BY <1>18, SessionsAssumption DEF CutoffRead, Start, Goto, Finish, At, NewRequest, Idle, Works, Fails, Act, pairs, redis, Rotated, ExchangedKeyIsGone, Keys, NewKeys, OwnKeys, OldKeys, Past, TypeOK, Request, Time, Statuses, PCs
<1>19. ASSUME NEW r \in Req, CutoffFill(r) PROVE Rotated'
  BY <1>19, SessionsAssumption DEF CutoffFill, Start, Goto, Finish, At, NewRequest, Idle, Works, Fails, Act, pairs, redis, Rotated, ExchangedKeyIsGone, Keys, NewKeys, OwnKeys, OldKeys, Past, TypeOK, Request, Time, Statuses, PCs
<1>20. ASSUME NEW r \in Req, Abandon(r) PROVE Rotated'
  BY <1>20, SessionsAssumption DEF Abandon, Start, Goto, Finish, At, NewRequest, Idle, Works, Fails, Act, pairs, redis, Rotated, ExchangedKeyIsGone, Keys, NewKeys, OwnKeys, OldKeys, Past, TypeOK, Request, Time, Statuses, PCs
<1>21. ASSUME NEW r \in Req, NEW t \in Token, RefreshGet(r, t) PROVE Rotated'
  BY <1>21, SessionsAssumption DEF RefreshGet, Start, Goto, Finish, At, NewRequest, Idle, Works, Fails, Act, Room, pairs, redis, Rotated, ExchangedKeyIsGone, Keys, NewKeys, OwnKeys, OldKeys, Past, TypeOK, Request, Time, Statuses, PCs
<1>22. ASSUME NEW r \in Req, NEW t \in Token, Logout(r, t) PROVE Rotated'
  BY <1>22, SessionsAssumption DEF Logout, Start, Goto, Finish, At, NewRequest, Idle, Works, Fails, Act, WithRevoked, IsRevoked, pairs, redis, Rotated, ExchangedKeyIsGone, Keys, NewKeys, OwnKeys, OldKeys, Past, TypeOK, Request, Time, Statuses, PCs
<1>23. ASSUME NEW r \in Req, NEW t \in Token, Admit(r, t) PROVE Rotated'
  BY <1>23, SessionsAssumption DEF Admit, Start, Goto, Finish, At, NewRequest, Idle, Works, Fails, Act, pairs, redis, Rotated, ExchangedKeyIsGone, Keys, NewKeys, OwnKeys, OldKeys, Past, TypeOK, Request, Time, Statuses, PCs
<1>24. CASE UpdateStatus
  BY <1>24, SessionsAssumption DEF UpdateStatus, Start, Goto, Finish, At, NewRequest, Idle, Works, Fails, Act, WithStatus, pairs, redis, Rotated, ExchangedKeyIsGone, Keys, NewKeys, OwnKeys, OldKeys, Past, TypeOK, Request, Time, Statuses, PCs
<1>25. CASE Tick
  BY <1>25, SessionsAssumption DEF Tick, Start, Goto, Finish, At, NewRequest, Idle, Works, Fails, Act, pairs, redis, Rotated, ExchangedKeyIsGone, Keys, NewKeys, OwnKeys, OldKeys, Past, TypeOK, Request, Time, Statuses, PCs
<1>26. CASE UNCHANGED vars
  BY <1>26 DEF vars, pairs, redis, Rotated, ExchangedKeyIsGone, Keys, NewKeys, OwnKeys, OldKeys, Past, TypeOK, Request, Time, Statuses, PCs, At
<1>27. QED
  BY <1>1, <1>2, <1>3, <1>4, <1>5, <1>6, <1>7, <1>8, <1>9, <1>10, <1>11, <1>12, <1>13, <1>14, <1>15, <1>16, <1>17, <1>18, <1>19, <1>20, <1>21, <1>22, <1>23, <1>24, <1>25, <1>26 DEF Next, Issue, Refresh, Revoke, End, Auth

\* The request that moved the cut-off, or whoever failed, accounts for a stale entry.
LEMMA BustStep ==
    ASSUME TypeOK, TypeOK', Past, BustComes, [Next]_vars
    PROVE  BustComes'
<1>1. ASSUME NEW r \in Req, Login(r) PROVE BustComes'
  BY <1>1, SessionsAssumption DEF Login, Start, Goto, Finish, At, NewRequest, Idle, Works, Fails, Act, Room, CanLogin, LoginRowFound, pairs, redis, BustComes, BustFlow, StaleCutoffIsARace, Visible, NoEntry, Past, TypeOK, Request, Time, Statuses, PCs
<1>2. ASSUME NEW r \in Req, Mint(r) PROVE BustComes'
  BY <1>2, SessionsAssumption DEF Mint, Start, Goto, Finish, At, NewRequest, Idle, Works, Fails, Act, pairs, redis, BustComes, BustFlow, StaleCutoffIsARace, Visible, NoEntry, Past, TypeOK, Request, Time, Statuses, PCs
<1>3. ASSUME NEW r \in Req, StoreRefresh(r) PROVE BustComes'
  <2>1. BustFlow'
    BY <1>3, SessionsAssumption DEF StoreRefresh, Start, Goto, Finish, At, NewRequest, Idle, Works, Fails, Act, pairs, redis, BustComes, BustFlow, StaleCutoffIsARace, Visible, NoEntry, TypeOK, Request
  <2>2. StaleCutoffIsARace'
    BY <1>3, SessionsAssumption DEF StoreRefresh, Start, Goto, Finish, At, NewRequest, Idle, Works, Fails, Act, pairs, redis, BustComes, BustFlow, StaleCutoffIsARace, Visible, NoEntry, TypeOK, Request
  <2>3. QED
    BY <2>1, <2>2 DEF BustComes
<1>4. ASSUME NEW r \in Req, IndexRefresh(r) PROVE BustComes'
  BY <1>4, SessionsAssumption DEF IndexRefresh, Start, Goto, Finish, At, NewRequest, Idle, Works, Fails, Act, pairs, redis, BustComes, BustFlow, StaleCutoffIsARace, Visible, NoEntry, Past, TypeOK, Request, Time, Statuses, PCs
<1>5. ASSUME NEW r \in Req, RefreshDel(r) PROVE BustComes'
  BY <1>5, SessionsAssumption DEF RefreshDel, Start, Goto, Finish, At, NewRequest, Idle, Works, Fails, Act, pairs, redis, BustComes, BustFlow, StaleCutoffIsARace, Visible, NoEntry, Past, TypeOK, Request, Time, Statuses, PCs
<1>6. ASSUME NEW r \in Req, RefreshUnindex(r) PROVE BustComes'
  BY <1>6, SessionsAssumption DEF RefreshUnindex, Start, Goto, Finish, At, NewRequest, Idle, Works, Fails, Act, pairs, redis, BustComes, BustFlow, StaleCutoffIsARace, Visible, NoEntry, Past, TypeOK, Request, Time, Statuses, PCs
<1>7. ASSUME NEW r \in Req, RefreshUser(r) PROVE BustComes'
  BY <1>7, SessionsAssumption DEF RefreshUser, Start, Goto, Finish, At, NewRequest, Idle, Works, Fails, Act, CanRefresh, pairs, redis, BustComes, BustFlow, StaleCutoffIsARace, Visible, NoEntry, Past, TypeOK, Request, Time, Statuses, PCs
<1>8. ASSUME NEW r \in Req, RevokeList(r) PROVE BustComes'
  BY <1>8, SessionsAssumption DEF RevokeList, Start, Goto, Finish, At, NewRequest, Idle, Works, Fails, Act, pairs, redis, BustComes, BustFlow, StaleCutoffIsARace, Visible, NoEntry, Past, TypeOK, Request, Time, Statuses, PCs
<1>9. ASSUME NEW r \in Req, RevokeKeys(r) PROVE BustComes'
  BY <1>9, SessionsAssumption DEF RevokeKeys, Start, Goto, Finish, At, NewRequest, Idle, Works, Fails, Act, pairs, redis, BustComes, BustFlow, StaleCutoffIsARace, Visible, NoEntry, Past, TypeOK, Request, Time, Statuses, PCs
<1>10. ASSUME NEW r \in Req, RevokeIndex(r) PROVE BustComes'
  BY <1>10, SessionsAssumption DEF RevokeIndex, Start, Goto, Finish, At, NewRequest, Idle, Works, Fails, Act, pairs, redis, BustComes, BustFlow, StaleCutoffIsARace, Visible, NoEntry, Past, TypeOK, Request, Time, Statuses, PCs
<1>11. ASSUME NEW r \in Req, PasswordRead(r) PROVE BustComes'
  BY <1>11, SessionsAssumption DEF PasswordRead, Start, Goto, Finish, At, NewRequest, Idle, Works, Fails, Act, pairs, redis, BustComes, BustFlow, StaleCutoffIsARace, Visible, NoEntry, Past, TypeOK, Request, Time, Statuses, PCs
<1>12. ASSUME NEW r \in Req, PasswordWrite(r) PROVE BustComes'
  BY <1>12, SessionsAssumption DEF PasswordWrite, Start, Goto, Finish, At, NewRequest, Idle, Works, Fails, Act, pairs, redis, BustComes, BustFlow, StaleCutoffIsARace, Visible, NoEntry, Past, TypeOK, Request, Time, Statuses, PCs
<1>13. ASSUME NEW r \in Req, PasswordBust(r) PROVE BustComes'
  BY <1>13, SessionsAssumption DEF PasswordBust, Start, Goto, Finish, At, NewRequest, Idle, Works, Fails, Act, NoEntry, pairs, redis, BustComes, BustFlow, StaleCutoffIsARace, Visible, NoEntry, Past, TypeOK, Request, Time, Statuses, PCs
<1>14. ASSUME NEW r \in Req, Deactivate(r) PROVE BustComes'
  BY <1>14, SessionsAssumption DEF Deactivate, Start, Goto, Finish, At, NewRequest, Idle, Works, Fails, Act, Deactivated, pairs, redis, BustComes, BustFlow, StaleCutoffIsARace, Visible, NoEntry, Past, TypeOK, Request, Time, Statuses, PCs
<1>15. ASSUME NEW r \in Req, AdmitBlacklist(r) PROVE BustComes'
  BY <1>15, SessionsAssumption DEF AdmitBlacklist, Start, Goto, Finish, At, NewRequest, Idle, Works, Fails, Act, IsRevoked, pairs, redis, BustComes, BustFlow, StaleCutoffIsARace, Visible, NoEntry, Past, TypeOK, Request, Time, Statuses, PCs
<1>16. ASSUME NEW r \in Req, CutoffHit(r) PROVE BustComes'
  BY <1>16, SessionsAssumption DEF CutoffHit, Start, Goto, Finish, At, NewRequest, Idle, Works, Fails, Act, Visible, pairs, redis, BustComes, BustFlow, StaleCutoffIsARace, Visible, NoEntry, Past, TypeOK, Request, Time, Statuses, PCs
<1>17. ASSUME NEW r \in Req, CutoffMiss(r) PROVE BustComes'
  BY <1>17, SessionsAssumption DEF CutoffMiss, Start, Goto, Finish, At, NewRequest, Idle, Works, Fails, Act, pairs, redis, BustComes, BustFlow, StaleCutoffIsARace, Visible, NoEntry, Past, TypeOK, Request, Time, Statuses, PCs
<1>18. ASSUME NEW r \in Req, CutoffRead(r) PROVE BustComes'
  BY <1>18, SessionsAssumption DEF CutoffRead, Start, Goto, Finish, At, NewRequest, Idle, Works, Fails, Act, pairs, redis, BustComes, BustFlow, StaleCutoffIsARace, Visible, NoEntry, Past, TypeOK, Request, Time, Statuses, PCs
<1>19. ASSUME NEW r \in Req, CutoffFill(r) PROVE BustComes'
  BY <1>19, SessionsAssumption DEF CutoffFill, Start, Goto, Finish, At, NewRequest, Idle, Works, Fails, Act, pairs, redis, BustComes, BustFlow, StaleCutoffIsARace, Visible, NoEntry, Past, TypeOK, Request, Time, Statuses, PCs
<1>20. ASSUME NEW r \in Req, Abandon(r) PROVE BustComes'
  BY <1>20, SessionsAssumption DEF Abandon, Start, Goto, Finish, At, NewRequest, Idle, Works, Fails, Act, pairs, redis, BustComes, BustFlow, StaleCutoffIsARace, Visible, NoEntry, Past, TypeOK, Request, Time, Statuses, PCs
<1>21. ASSUME NEW r \in Req, NEW t \in Token, RefreshGet(r, t) PROVE BustComes'
  BY <1>21, SessionsAssumption DEF RefreshGet, Start, Goto, Finish, At, NewRequest, Idle, Works, Fails, Act, Room, pairs, redis, BustComes, BustFlow, StaleCutoffIsARace, Visible, NoEntry, Past, TypeOK, Request, Time, Statuses, PCs
<1>22. ASSUME NEW r \in Req, NEW t \in Token, Logout(r, t) PROVE BustComes'
  <2>1. BustFlow'
    BY <1>22, SessionsAssumption DEF Logout, Start, Goto, Finish, At, NewRequest, Idle, Works, Fails, Act, pairs, redis, BustComes, BustFlow, StaleCutoffIsARace, Visible, NoEntry, TypeOK, Request
  <2>2. StaleCutoffIsARace'
    BY <1>22, SessionsAssumption DEF Logout, Start, Goto, Finish, At, NewRequest, Idle, Works, Fails, Act, pairs, redis, BustComes, BustFlow, StaleCutoffIsARace, Visible, NoEntry, TypeOK, Request
  <2>3. QED
    BY <2>1, <2>2 DEF BustComes
<1>23. ASSUME NEW r \in Req, NEW t \in Token, Admit(r, t) PROVE BustComes'
  BY <1>23, SessionsAssumption DEF Admit, Start, Goto, Finish, At, NewRequest, Idle, Works, Fails, Act, pairs, redis, BustComes, BustFlow, StaleCutoffIsARace, Visible, NoEntry, Past, TypeOK, Request, Time, Statuses, PCs
<1>24. CASE UpdateStatus
  BY <1>24, SessionsAssumption DEF UpdateStatus, Start, Goto, Finish, At, NewRequest, Idle, Works, Fails, Act, WithStatus, pairs, redis, BustComes, BustFlow, StaleCutoffIsARace, Visible, NoEntry, Past, TypeOK, Request, Time, Statuses, PCs
<1>25. CASE Tick
  BY <1>25, SessionsAssumption DEF Tick, Start, Goto, Finish, At, NewRequest, Idle, Works, Fails, Act, pairs, redis, BustComes, BustFlow, StaleCutoffIsARace, Visible, NoEntry, Past, TypeOK, Request, Time, Statuses, PCs
<1>26. CASE UNCHANGED vars
  BY <1>26 DEF vars, pairs, redis, BustComes, BustFlow, StaleCutoffIsARace, Visible, NoEntry, Past, TypeOK, Request, Time, Statuses, PCs, At
<1>27. QED
  BY <1>1, <1>2, <1>3, <1>4, <1>5, <1>6, <1>7, <1>8, <1>9, <1>10, <1>11, <1>12, <1>13, <1>14, <1>15, <1>16, <1>17, <1>18, <1>19, <1>20, <1>21, <1>22, <1>23, <1>24, <1>25, <1>26 DEF Next, Issue, Refresh, Revoke, End, Auth

-----------------------------------------------------------------------------
\* The strengthened invariant of the specification.
THEOREM Safety == Spec => []IInv
<1>1. ASSUME IInv, [Next]_vars PROVE IInv'
  BY <1>1, TypeStep, InTimeStep, PastStep, OvertakenStep, WrittenStep, KeysStep,
     RotatedStep, BustStep DEF IInv
<1>2. QED
  BY <1>1, InitIInv, PTL DEF Spec

\* Type correctness of the rows, the keys and the requests.
THEOREM TypeCorrect == Spec => []TypeOK
<1>1. IInv => TypeOK
  BY DEF IInv
<1>2. QED
  BY <1>1, Safety, PTL

\* No pair exists beside the refresh key it was exchanged for, whichever Redis
\* commands fail and however many requests present the key.
THEOREM Rotation == Spec => []ExchangedKeyIsGone
<1>1. IInv => ExchangedKeyIsGone
  BY DEF IInv, Rotated
<1>2. QED
  BY <1>1, Safety, PTL

\* A deleted user is admitted for at most AccessTTL + 2 * MaxRequest.
THEOREM LockOut == Spec => []DeletedUserLockedOut
<1>1. IInv => DeletedUserLockedOut
  <2> SUFFICES ASSUME IInv, NEW r \in Req, Admitted(r), user.deletedAt # 0
               PROVE  now <= user.deletedAt + AccessTTL + 2 * MaxRequest
    BY DEF DeletedUserLockedOut
  <2> USE DEF IInv
  <2>1. req[r].pc \in {"cached", "fill"}
    BY DEF Admitted, AdmittedByCache, AdmittedByRow, At
  <2>2. /\ now <= req[r].since + MaxRequest
        /\ req[r].since <= iat[req[r].tok] + AccessTTL
    BY <2>1 DEF InTime, At
  <2>3. req[r].tok \in Token /\ iat[req[r].tok] # 0
    BY <2>1 DEF Past
  <2>4. iat[req[r].tok] <= user.deletedAt + MaxRequest
    BY <2>3 DEF Written
  <2>5. /\ now \in Nat /\ req[r].since \in Nat /\ iat[req[r].tok] \in Nat
        /\ user.deletedAt \in Nat
    BY <2>3, SessionsAssumption DEF TypeOK, Request, Time
  <2>6. QED
    BY <2>2, <2>4, <2>5, SessionsAssumption
<1>2. QED
  BY <1>1, Safety, PTL

\* A token older than the last password change is admitted for at most
\* CacheTTL + MaxRequest after it.
THEOREM CutOff == Spec => []OldTokensEnd
<1>1. IInv => OldTokensEnd
  <2> SUFFICES ASSUME IInv, NEW r \in Req, Admitted(r), iat[req[r].tok] < user.changed
               PROVE  now <= user.changed + CacheTTL + MaxRequest
    BY DEF OldTokensEnd
  <2> USE DEF IInv
  <2>1. req[r].pc \in {"cached", "fill"}
    BY DEF Admitted, AdmittedByCache, AdmittedByRow, At
  <2>2. req[r].tok \in Token
    BY <2>1 DEF Past
  <2>3. /\ now \in Nat /\ req[r].since \in Nat /\ iat[req[r].tok] \in Nat
        /\ user.changed \in Nat /\ cutoff.exp \in Nat /\ cutoff.val \in Nat
        /\ req[r].val \in Nat
    BY <2>2, SessionsAssumption DEF TypeOK, Request, Time
  <2>4. CASE AdmittedByCache(r)
    <3>1. cutoff.exp # 0 /\ now <= cutoff.exp /\ cutoff.val < user.changed
      BY <2>3, <2>4 DEF AdmittedByCache, Visible, Passes
    <3>2. QED
      BY <2>3, <3>1, SessionsAssumption DEF Written
  <2>5. CASE AdmittedByRow(r)
    <3>1. At(r, "fill") /\ req[r].val < user.changed
      BY <2>3, <2>5 DEF AdmittedByRow, Passes
    <3>2. req[r].since <= user.changed /\ now <= req[r].since + MaxRequest
      BY <3>1 DEF Overtaken, InTime, At
    <3>3. QED
      BY <2>3, <3>2, SessionsAssumption
  <2>6. QED
    BY <2>4, <2>5 DEF Admitted
<1>2. QED
  BY <1>1, Safety, PTL

\* Without a failure the cached cut-off is stale only until its bust, or by a
\* reader the change overtook.
THEOREM StaleOnlyByRace == Spec => []StaleCutoffIsARace
<1>1. IInv => StaleCutoffIsARace
  BY DEF IInv, BustComes
<1>2. QED
  BY <1>1, Safety, PTL

\* A deleted user and the tokens older than a password change are refused in time.
THEOREM EndsInTime == Spec => []SessionsEndInTime
<1>1. DeletedUserLockedOut /\ OldTokensEnd => SessionsEndInTime
  BY DEF SessionsEndInTime
<1>2. QED
  BY <1>1, LockOut, CutOff, PTL

------------------------------------------------------------------------------
(***************************************************************************)
(* The decisions of the RBAC middleware, for any users, roles, requests,   *)
(* edits, lifetimes and durations.                                         *)
(*                                                                         *)
(* The window of a stale decision is the sum of two: the request that      *)
(* fills the cache may have read the roles MaxDuration before it stores    *)
(* them (ReadsAreRecent), and the entry may answer until its lifetime      *)
(* ends (EntriesAreRecent). AccessInv says, of every read and of every     *)
(* entry, until when the grants it holds were in force.                    *)
(***************************************************************************)

AccessTypeOK ==
    /\ permsCache = [u \in Members |-> permsCache[u]]
    /\ \A u \in Members : permsCache[u].exp \in Nat
    /\ call = [q \in Calls |-> call[q]]
    /\ \A x \in past : x.until \in Nat
    /\ minute \in Nat

\* perms are what the roles of u grant, or granted until t or later.
GrantedSince(u, perms, t) ==
    \/ perms = Granted(u)
    \/ \E x \in past : x.user = u /\ x.perms = perms /\ x.until >= t

\* A request under way has lasted its time at most, and what it has read it has read since
\* it began.
ReadsAreRecent ==
    \A q \in Calls : call[q].at \in {"get", "set"} =>
        /\ call[q].user \in Members /\ call[q].since \in Nat
        /\ call[q].since <= minute /\ minute <= call[q].since + MaxDuration
        /\ call[q].at = "set" => GrantedSince(call[q].user, call[q].perms, call[q].since)

\* An entry that answers was read by a request that stored it within its time.
EntriesAreRecent ==
    \A u \in Members : permsCache[u].exp > minute =>
        /\ permsCache[u].exp <= minute + permsCacheTTL
        /\ \E t \in Nat : /\ permsCache[u].exp <= t + MaxDuration + permsCacheTTL
                         /\ t <= minute
                         /\ GrantedSince(u, permsCache[u].perms, t)

AccessInv == AccessTypeOK /\ ReadsAreRecent /\ EntriesAreRecent /\ DecisionsAreRecent

\* While roles stand, what each user is granted stands.
LEMMA GrantsStay ==
    ASSUME UNCHANGED <<role, userRoles>>
    PROVE  \A u : Granted(u)' = Granted(u)
  BY DEF Granted, mergePermissions, ListUserRoles

\* And with the past, since when.
LEMMA SinceStays ==
    ASSUME UNCHANGED <<role, userRoles, past>>, NEW u, NEW perms, NEW t
    PROVE  GrantedSince(u, perms, t)' <=> GrantedSince(u, perms, t)
  BY GrantsStay DEF GrantedSince

\* What an edit takes away it files as granted until now.
LEMMA SinceSurvivesEdits ==
    ASSUME Edit, AccessTypeOK, NEW u \in Members, NEW perms, NEW t \in Nat, t <= minute, GrantedSince(u, perms, t)
    PROVE  GrantedSince(u, perms, t)'
<1>1. past \subseteq past'
  BY DEF Edit
<1>2. CASE perms = Granted(u) /\ Granted(u)' # Granted(u)
  <2> DEFINE x == [user |-> u, perms |-> Granted(u), until |-> minute]
  <2>1. x \in past'
    BY <1>2 DEF Edit
  <2>2. x.user = u /\ x.perms = perms /\ x.until >= t
    BY <1>2 DEF AccessTypeOK
  <2>3. QED
    BY <2>1, <2>2 DEF GrantedSince
<1>3. CASE perms = Granted(u) /\ Granted(u)' = Granted(u)
  BY <1>3 DEF GrantedSince
<1>4. CASE perms # Granted(u)
  BY <1>1, <1>4 DEF GrantedSince
<1>5. QED
  BY <1>2, <1>3, <1>4

\* Edits of roles, and of who has them, keep the invariant.
LEMMA EditKeepsAccess ==
    ASSUME AccessInv, Edit
    PROVE  AccessInv'
<1>1. UNCHANGED <<permsCache, call, minute>>
  BY DEF Edit
<1>2. AccessTypeOK'
  BY <1>1 DEF AccessInv, AccessTypeOK, Edit
<1>3. ReadsAreRecent'
  BY <1>1, SinceSurvivesEdits DEF AccessInv, ReadsAreRecent
<1>4. EntriesAreRecent'
  BY <1>1, SinceSurvivesEdits DEF AccessInv, EntriesAreRecent
<1>5. DecisionsAreRecent'
  BY <1>1 DEF AccessInv, DecisionsAreRecent, Holds
<1>6. QED
  BY <1>2, <1>3, <1>4, <1>5 DEF AccessInv

\* What was granted within the lifetime of an entry and of a request is in lately.
LEMMA LatelyHas ==
    ASSUME AccessTypeOK, NEW u, NEW perms, NEW t \in Nat, GrantedSince(u, perms, t),
           minute < t + (permsCacheTTL + MaxDuration)
    PROVE  perms \in Lately(u, permsCacheTTL + MaxDuration)
  BY AccessControlAssumption DEF AccessTypeOK, GrantedSince, Lately

\* A decision on permissions that were granted within the lifetime of an entry and of a request is recent.
LEMMA DecideIsRecent ==
    ASSUME AccessInv, NEW q \in Calls, NEW perms, Decide(q, perms),
           perms \in Lately(call[q].user, permsCacheTTL + MaxDuration)
    PROVE  /\ DecisionsAreRecent'
           /\ call' = [r \in Calls |-> call'[r]]
           /\ call'[q].at \in {"next", "forbidden"}
           /\ \A r \in Calls \ {q} : call'[r] = call[r]
<1> DEFINE x == call[q]
           y == [at |-> IF checkPermission(perms, x.resource, x.action) THEN "next" ELSE "forbidden",
                 resource |-> x.resource, action |-> x.action,
                 lately |-> Lately(x.user, permsCacheTTL + MaxDuration)]
<1>1. call' = [call EXCEPT ![q] = y]
  BY DEF Decide
<1>2. call'[q] = y /\ \A r \in Calls \ {q} : call'[r] = call[r]
  BY <1>1 DEF AccessInv, AccessTypeOK
<1>3. call' = [r \in Calls |-> call'[r]]
  BY <1>1 DEF AccessInv, AccessTypeOK
<1>4. /\ y.at = "next" => checkPermission(perms, y.resource, y.action)
      /\ y.at = "forbidden" => ~checkPermission(perms, y.resource, y.action)
      /\ y.at \in {"next", "forbidden"}
      /\ perms \in y.lately
  OBVIOUS
<1> HIDE DEF y
<1>5. ASSUME NEW r \in Calls
      PROVE  /\ call'[r].at = "next" => \E p \in call'[r].lately : checkPermission(p, call'[r].resource, call'[r].action)
             /\ call'[r].at = "forbidden" => \E p \in call'[r].lately : ~checkPermission(p, call'[r].resource, call'[r].action)
  <2>1. CASE r = q
    BY <1>2, <1>4, <2>1
  <2>2. CASE r # q
    BY <1>2, <2>2 DEF AccessInv, DecisionsAreRecent, Holds
  <2>3. QED
    BY <2>1, <2>2
<1>6. DecisionsAreRecent'
  BY <1>5 DEF DecisionsAreRecent, Holds
<1>7. QED
  BY <1>2, <1>3, <1>4, <1>6

\* Every step keeps the invariant.
LEMMA AccessStep ==
    ASSUME AccessInv, [AccessNext]_accessVars
    PROVE  AccessInv'
<1>1. ASSUME NEW r \in Roles, NEW perms \in Grants, CreateRole(r, perms)
      PROVE  AccessInv'
  BY <1>1, EditKeepsAccess DEF CreateRole
<1>2. ASSUME NEW r \in Roles, NEW perms \in Grants, UpdateRole(r, perms)
      PROVE  AccessInv'
  BY <1>2, EditKeepsAccess DEF UpdateRole
<1>3. ASSUME NEW r \in Roles, DeleteRole(r)
      PROVE  AccessInv'
  BY <1>3, EditKeepsAccess DEF DeleteRole
<1>4. ASSUME NEW q \in Assigners, NEW u \in Members, NEW r \in Roles, GetUserAndRole(q, u, r)
      PROVE  AccessInv'
  <2>1. AccessTypeOK'
    BY <1>4 DEF AccessInv, AccessTypeOK, GetUserAndRole
  <2>2. ReadsAreRecent'
    BY <1>4, SinceStays DEF AccessInv, AccessTypeOK, ReadsAreRecent, GetUserAndRole
  <2>3. EntriesAreRecent'
    BY <1>4, SinceStays DEF AccessInv, EntriesAreRecent, GetUserAndRole
  <2>4. DecisionsAreRecent'
    BY <1>4 DEF AccessInv, AccessTypeOK, DecisionsAreRecent, Holds, GetUserAndRole
  <2>5. QED
    BY <2>1, <2>2, <2>3, <2>4 DEF AccessInv
<1>5. ASSUME NEW q \in Assigners, AssignRole(q)
      PROVE  AccessInv'
  BY <1>5, EditKeepsAccess DEF AssignRole
<1>6. ASSUME NEW u \in Members, NEW r \in Roles, RemoveRole(u, r)
      PROVE  AccessInv'
  BY <1>6, EditKeepsAccess DEF RemoveRole
<1>7. ASSUME NEW u \in Members, DeactivateUser(u)
      PROVE  AccessInv'
  BY <1>7, EditKeepsAccess DEF DeactivateUser
<1>8. ASSUME NEW q \in Calls, NEW u \in Members, NEW path \in Paths, NEW method \in Methods, RBAC(q, u, path, method)
      PROVE  AccessInv'
  <2>1. AccessTypeOK'
    BY <1>8 DEF AccessInv, AccessTypeOK, RBAC, Fine, RequestOnly
  <2>2. ReadsAreRecent'
    BY <1>8, SinceStays, AccessControlAssumption DEF AccessInv, AccessTypeOK, ReadsAreRecent, NoCall, RBAC, Fine, RequestOnly
  <2>3. EntriesAreRecent'
    BY <1>8, SinceStays DEF AccessInv, EntriesAreRecent, RBAC, Fine, RequestOnly
  <2>4. DecisionsAreRecent'
    BY <1>8 DEF AccessInv, AccessTypeOK, DecisionsAreRecent, Holds, RBAC, Fine, RequestOnly
  <2>5. QED
    BY <2>1, <2>2, <2>3, <2>4 DEF AccessInv
<1>9. ASSUME NEW q \in Calls, CacheHit(q)
      PROVE  AccessInv'
  <2>0. UNCHANGED <<role, userRoles, past, minute, permsCache>>
    BY <1>9 DEF CacheHit, RequestOnly
  <2>1. /\ call[q].at = "get" /\ call[q].user \in Members
        /\ permsCache[call[q].user].exp > minute
        /\ Decide(q, permsCache[call[q].user].perms)
    BY <1>9 DEF CacheHit, Holds, AccessInv, ReadsAreRecent
  <2>2. PICK t \in Nat : /\ permsCache[call[q].user].exp <= t + MaxDuration + permsCacheTTL
                        /\ GrantedSince(call[q].user, permsCache[call[q].user].perms, t)
    BY <2>1 DEF AccessInv, EntriesAreRecent
  <2>3. minute < t + (permsCacheTTL + MaxDuration)
    BY <2>1, <2>2, AccessControlAssumption DEF AccessInv, AccessTypeOK
  <2>4. permsCache[call[q].user].perms \in Lately(call[q].user, permsCacheTTL + MaxDuration)
    BY <2>2, <2>3, LatelyHas DEF AccessInv
  <2>5. /\ DecisionsAreRecent' /\ call' = [r \in Calls |-> call'[r]]
        /\ call'[q].at \in {"next", "forbidden"} /\ \A r \in Calls \ {q} : call'[r] = call[r]
    BY <2>1, <2>4, DecideIsRecent
  <2>6. AccessTypeOK'
    BY <2>0, <2>5 DEF AccessInv, AccessTypeOK
  <2>7. ReadsAreRecent'
    BY <2>0, <2>5, SinceStays DEF AccessInv, ReadsAreRecent
  <2>8. EntriesAreRecent'
    BY <2>0, SinceStays DEF AccessInv, EntriesAreRecent
  <2>9. QED
    BY <2>5, <2>6, <2>7, <2>8 DEF AccessInv
<1>10. ASSUME NEW q \in Calls, QueryRoles(q)
       PROVE  AccessInv'
  <2>1. AccessTypeOK'
    BY <1>10 DEF AccessInv, AccessTypeOK, QueryRoles, RequestOnly
  <2>2. ReadsAreRecent'
    <3>1. /\ call'[q].user = call[q].user /\ call'[q].since = call[q].since
          /\ call'[q].perms = Granted(call[q].user) /\ call'[q].at = "set"
      BY <1>10 DEF QueryRoles, AccessInv, AccessTypeOK
    <3>2. call[q].at = "get" /\ \A r \in Calls \ {q} : call'[r] = call[r]
      BY <1>10 DEF QueryRoles, Holds, AccessInv, AccessTypeOK
    <3>3. UNCHANGED <<role, userRoles, past>> /\ minute' = minute
      BY <1>10 DEF QueryRoles, RequestOnly, Fine, Outage, AccessInv
    <3>4. GrantedSince(call[q].user, Granted(call[q].user), call[q].since)
      BY DEF GrantedSince
    <3>5. QED
      BY <3>1, <3>2, <3>3, <3>4, SinceStays DEF AccessInv, ReadsAreRecent
  <2>3. EntriesAreRecent'
    BY <1>10, SinceStays DEF AccessInv, EntriesAreRecent, QueryRoles, RequestOnly
  <2>4. DecisionsAreRecent'
    BY <1>10 DEF AccessInv, AccessTypeOK, DecisionsAreRecent, Holds, QueryRoles, RequestOnly
  <2>5. QED
    BY <2>1, <2>2, <2>3, <2>4 DEF AccessInv
<1>11. ASSUME NEW q \in Calls, NEW stored \in BOOLEAN, CachePermissions(q, stored)
       PROVE  AccessInv'
  <2>0. UNCHANGED <<role, userRoles, past, minute>>
    BY <1>11 DEF CachePermissions, RequestOnly
  <2>1. /\ call[q].at = "set" /\ call[q].user \in Members /\ call[q].since \in Nat
        /\ call[q].since <= minute /\ minute <= call[q].since + MaxDuration
        /\ GrantedSince(call[q].user, call[q].perms, call[q].since)
        /\ Decide(q, call[q].perms)
    BY <1>11 DEF CachePermissions, Holds, AccessInv, ReadsAreRecent
  <2>2. minute < call[q].since + (permsCacheTTL + MaxDuration)
    BY <2>1, AccessControlAssumption DEF AccessInv, AccessTypeOK
  <2>3. call[q].perms \in Lately(call[q].user, permsCacheTTL + MaxDuration)
    BY <2>1, <2>2, LatelyHas DEF AccessInv
  <2>4. /\ DecisionsAreRecent' /\ call' = [r \in Calls |-> call'[r]]
        /\ call'[q].at \in {"next", "forbidden"} /\ \A r \in Calls \ {q} : call'[r] = call[r]
    BY <2>1, <2>3, DecideIsRecent
  <2>5. ReadsAreRecent'
    BY <2>0, <2>4, SinceStays DEF AccessInv, ReadsAreRecent
  <2>6. AccessTypeOK' /\ EntriesAreRecent'
    <3>1. CASE permsCache' = permsCache
      <4>1. AccessTypeOK'
        BY <2>0, <2>4, <3>1 DEF AccessInv, AccessTypeOK
      <4>2. EntriesAreRecent'
        BY <2>0, <3>1, SinceStays DEF AccessInv, EntriesAreRecent
      <4>3. QED
        BY <4>1, <4>2
    <3>2. CASE permsCache' = [permsCache EXCEPT ![call[q].user] = [exp |-> minute + permsCacheTTL, perms |-> call[q].perms]]
      <4>1. /\ permsCache'[call[q].user].exp = minute + permsCacheTTL
            /\ permsCache'[call[q].user].perms = call[q].perms
            /\ \A u \in Members \ {call[q].user} : permsCache'[u] = permsCache[u]
            /\ permsCache' = [u \in Members |-> permsCache'[u]]
        BY <3>2, <2>1 DEF AccessInv, AccessTypeOK
      <4>2. AccessTypeOK'
        BY <2>0, <2>4, <4>1, AccessControlAssumption DEF AccessInv, AccessTypeOK
      <4>3. minute + permsCacheTTL <= call[q].since + MaxDuration + permsCacheTTL
        BY <2>1, AccessControlAssumption DEF AccessInv, AccessTypeOK
      <4>4. EntriesAreRecent'
        <5> SUFFICES ASSUME NEW u \in Members, permsCache'[u].exp > minute
                     PROVE  /\ permsCache'[u].exp <= minute + permsCacheTTL
                            /\ \E t \in Nat : /\ permsCache'[u].exp <= t + MaxDuration + permsCacheTTL
                                             /\ t <= minute
                                             /\ GrantedSince(u, permsCache'[u].perms, t)
          BY <2>0, SinceStays DEF EntriesAreRecent
        <5>1. CASE u = call[q].user
          BY <5>1, <2>1, <4>1, <4>3, AccessControlAssumption DEF AccessInv, AccessTypeOK
        <5>2. CASE u # call[q].user
          BY <5>2, <4>1 DEF AccessInv, EntriesAreRecent
        <5>3. QED
          BY <5>1, <5>2
      <4>5. QED
        BY <4>2, <4>4
    <3>3. QED
      BY <1>11, <3>1, <3>2 DEF CachePermissions
  <2>7. QED
    BY <2>4, <2>5, <2>6 DEF AccessInv
<1>12. ASSUME NEW q \in Calls, Answered(q)
       PROVE  AccessInv'
  <2>1. AccessTypeOK'
    BY <1>12 DEF AccessInv, AccessTypeOK, Answered, Fine, RequestOnly, NoCall
  <2>2. ReadsAreRecent'
    BY <1>12, SinceStays DEF AccessInv, AccessTypeOK, ReadsAreRecent, Answered, Fine, RequestOnly, NoCall
  <2>3. EntriesAreRecent'
    BY <1>12, SinceStays DEF AccessInv, EntriesAreRecent, Answered, Fine, RequestOnly, NoCall
  <2>4. DecisionsAreRecent'
    BY <1>12 DEF AccessInv, AccessTypeOK, DecisionsAreRecent, Holds, Answered, Fine, RequestOnly, NoCall
  <2>5. QED
    BY <2>1, <2>2, <2>3, <2>4 DEF AccessInv
<1>13. CASE MinutePasses
  <2>0. /\ UNCHANGED <<role, userRoles, permsCache, call>>
        /\ minute \in Nat /\ minute' = minute + 1
        /\ past' = {x \in past : x.until + permsCacheTTL + MaxDuration > minute'}
    BY <1>13 DEF MinutePasses, AccessInv, AccessTypeOK
  <2>1. AccessTypeOK'
    BY <2>0 DEF AccessInv, AccessTypeOK
  <2>2. ASSUME NEW u, NEW perms, NEW t \in Nat, GrantedSince(u, perms, t), t + permsCacheTTL + MaxDuration > minute + 1
        PROVE  GrantedSince(u, perms, t)'
    <3>1. Granted(u)' = Granted(u)
      BY <2>0, GrantsStay
    <3>2. ASSUME NEW x \in past, x.until >= t PROVE x \in past'
      BY <2>0, <2>2, <3>2, AccessControlAssumption DEF AccessInv, AccessTypeOK
    <3>3. QED
      BY <2>2, <3>1, <3>2 DEF GrantedSince
  <2>3. ReadsAreRecent'
    <3> SUFFICES ASSUME NEW q \in Calls, call[q].at \in {"get", "set"}
                 PROVE  /\ call[q].user \in Members /\ call[q].since \in Nat
                        /\ call[q].since <= minute' /\ minute' <= call[q].since + MaxDuration
                        /\ call[q].at = "set" => GrantedSince(call[q].user, call[q].perms, call[q].since)'
      BY <2>0 DEF ReadsAreRecent
    <3>1. call[q] # NoCall
      BY DEF NoCall
    <3>2. /\ call[q].user \in Members /\ call[q].since \in Nat /\ call[q].since <= minute
          /\ call[q].at = "set" => GrantedSince(call[q].user, call[q].perms, call[q].since)
      BY DEF AccessInv, ReadsAreRecent
    <3>3. call[q].since + MaxDuration > minute
      <4>1. \A r \in Calls : call[r] # NoCall => call[r].since + MaxDuration > minute
        BY <1>13 DEF MinutePasses
      <4>2. QED
        BY <3>1, <4>1
    <3>4. call[q].since <= minute' /\ minute' <= call[q].since + MaxDuration
      BY <2>0, <3>2, <3>3, AccessControlAssumption
    <3>5. call[q].since + permsCacheTTL + MaxDuration > minute + 1
      BY <2>0, <3>2, <3>3, AccessControlAssumption
    <3>6. QED
      BY <2>0, <2>2, <3>2, <3>4, <3>5
  <2>4. EntriesAreRecent'
    <3> SUFFICES ASSUME NEW u \in Members, permsCache[u].exp > minute'
                 PROVE  /\ permsCache[u].exp <= minute' + permsCacheTTL
                        /\ \E t \in Nat : /\ permsCache[u].exp <= t + MaxDuration + permsCacheTTL
                                         /\ t <= minute'
                                         /\ GrantedSince(u, permsCache[u].perms, t)'
      BY <2>0 DEF EntriesAreRecent
    <3>1. permsCache[u].exp \in Nat /\ permsCache[u].exp > minute
      BY <2>0 DEF AccessInv, AccessTypeOK
    <3>2. permsCache[u].exp <= minute + permsCacheTTL
      BY <3>1 DEF AccessInv, EntriesAreRecent
    <3>3. PICK t \in Nat : /\ permsCache[u].exp <= t + MaxDuration + permsCacheTTL
                          /\ t <= minute
                          /\ GrantedSince(u, permsCache[u].perms, t)
      BY <3>1 DEF AccessInv, EntriesAreRecent
    <3>4. t + permsCacheTTL + MaxDuration > minute + 1
      BY <2>0, <3>1, <3>3, AccessControlAssumption
    <3>5. GrantedSince(u, permsCache[u].perms, t)'
      BY <2>0, <2>2, <3>3, <3>4
    <3>6. QED
      BY <2>0, <3>1, <3>2, <3>3, <3>5, AccessControlAssumption
  <2>5. DecisionsAreRecent'
    BY <2>0 DEF AccessInv, DecisionsAreRecent, Holds
  <2>6. QED
    BY <2>1, <2>3, <2>4, <2>5 DEF AccessInv
<1>14. CASE UNCHANGED accessVars
  <2>1. AccessTypeOK'
    BY <1>14 DEF AccessInv, AccessTypeOK, accessVars
  <2>2. ReadsAreRecent'
    BY <1>14, SinceStays DEF AccessInv, AccessTypeOK, ReadsAreRecent, accessVars
  <2>3. EntriesAreRecent'
    BY <1>14, SinceStays DEF AccessInv, EntriesAreRecent, accessVars
  <2>4. DecisionsAreRecent'
    BY <1>14 DEF AccessInv, AccessTypeOK, DecisionsAreRecent, Holds, accessVars
  <2>5. QED
    BY <2>1, <2>2, <2>3, <2>4 DEF AccessInv
<1>15. QED
  BY <1>1, <1>2, <1>3, <1>4, <1>5, <1>6, <1>7, <1>8, <1>9, <1>10, <1>11, <1>12, <1>13, <1>14
     DEF AccessNext

\* The invariant that the bound on stale decisions rests on.
LEMMA AccessInvariant == AccessSpec => []AccessInv
<1>1. AccessInit => AccessInv
  BY DEF AccessInit, AccessInv, AccessTypeOK, ReadsAreRecent, EntriesAreRecent, DecisionsAreRecent, Holds, NoCall, NotCached
<1>2. AccessInv /\ [AccessNext]_accessVars => AccessInv'
  BY AccessStep
<1>3. QED
  BY <1>1, <1>2, PTL DEF AccessSpec

\* Every decision of the RBAC middleware follows grants that were in force within the cache's lifetime and the
\* time a request takes, however loads, stores, expiries and edits of roles interleave (middleware/rbac.go).
THEOREM RecentDecisions == AccessSpec => []DecisionsAreRecent
<1>1. AccessInv => DecisionsAreRecent
  BY DEF AccessInv
<1>2. QED
  BY <1>1, AccessInvariant, PTL
==============================================================================
