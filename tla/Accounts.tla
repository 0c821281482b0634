------------------------------ MODULE Accounts ------------------------------
(***************************************************************************)
(* The registered accounts: the pool of their states, the three maps that  *)
(* remember lookups, the online count, and the conflict between two        *)
(* connections that register the same uid.                                 *)
(*                                                                         *)
(*   src/src/lobby/SimpleAccountManager.*   Register, Unregister           *)
(*   src/src/lobby/AccountStateList.*       lookups, online, release       *)
(*   src/src/base/ObjectPool.hpp            the pool                       *)
(*                                                                         *)
(* Everything runs on the main thread.  Times are left out: which accounts *)
(* are over a tolerance is a choice.  Nick, password and conn_impl are     *)
(* never read, and a uid and its hash are one.                             *)
(***************************************************************************)
EXTENDS Integers, Sequences, FiniteSets

CONSTANTS
    Uid, Conn, Uuid,   \* user ids, connection ids, inner uuids
    NoUid,             \* the empty string
    Size,              \* of the pool (16384)
    BaseId             \* of the pool (600000)

ASSUME ConstantsAssumption ==
    /\ NoUid \notin Uid
    /\ 0 \notin Conn /\ Uuid \subseteq Nat
    /\ Size \in Nat /\ BaseId \in Nat

VARIABLES
    unused,        \* _unused_ids, up to _unused_size
    used,          \* the slots whose _used is set
    acc,           \* _data of every slot: an ACCOUNT_STATE
    onlineCount,   \* _szOnlineCount
    byUid,         \* _mapUidHash2ConnState, 0 where it has no entry
    byConn,        \* _mapConnId2ConnState
    byUuid,        \* _mapInnerUuid2ConnState
    walk           \* the walk over the pool in progress

maps == <<byUid, byConn, byUuid>>
vars == <<unused, used, acc, onlineCount, maps, walk>>

Slot == 1..Size

\* From an id to its position and back.
ConvertId(id) == 1 + BaseId + Size - id

Keyid == {ConvertId(s) : s \in Slot}

Account == [ready : BOOLEAN, uid : Uid \cup {NoUid}, connid : Conn \cup {0},
            uuid : Uuid \cup {0}, onoff : {"init", "online", "offline"},
            ext : BOOLEAN, conflict : Keyid \cup {0}]

\* What Alloc's memset leaves.
Blank == [ready |-> FALSE, uid |-> NoUid, connid |-> 0, uuid |-> 0,
          onoff |-> "init", ext |-> FALSE, conflict |-> 0]

Idle == [op |-> "idle", at |-> 1, conn |-> 0]

Init ==
    /\ unused = [n \in Slot |-> n]
    /\ used = {}
    /\ acc = [s \in Slot |-> Blank]
    /\ onlineCount = 0
    /\ byUid = [u \in Uid |-> 0]
    /\ byConn = [c \in Conn |-> 0]
    /\ byUuid = [i \in Uuid |-> 0]
    /\ walk = Idle

-----------------------------------------------------------------------------
(* Lookups: the map first, then the pool in the order of its slots.        *)

First(S) == IF S = {} THEN 0 ELSE CHOOSE s \in S : \A t \in S : s <= t

\* Mutant: only accounts online are looked at.
GetOnlineByUid(u) ==
    First({s \in used : acc[s].uid = u /\ acc[s].onoff = "online"})

GetByUid(u) ==
    IF byUid[u] # 0 THEN byUid[u] ELSE First({s \in used : acc[s].uid = u})

GetByConnId(c) ==
    IF byConn[c] # 0 THEN byConn[c]
    ELSE First({s \in used : acc[s].connid = c})

GetByInnerUuid(i) ==
    IF byUuid[i] # 0 THEN byUuid[i]
    ELSE First({s \in used : acc[s].uuid = i})

CalcOnlineCount(us, ac) == Cardinality({s \in us : ac[s].onoff = "online"})

\* A call by the application, outside of a walk.
Call == walk = Idle /\ UNCHANGED walk

\* A lookup and what it leaves in the map; KeepAliveByUid does no more.
LookupUid(u) ==
    /\ Call
    /\ byUid' = [byUid EXCEPT ![u] = GetByUid(u)]
    /\ UNCHANGED <<unused, used, acc, onlineCount, byConn, byUuid>>

LookupConnId(c) ==
    /\ Call
    /\ byConn' = [byConn EXCEPT ![c] = GetByConnId(c)]
    /\ UNCHANGED <<unused, used, acc, onlineCount, byUid, byUuid>>

LookupAccountByInnerUuid(i) ==
    /\ Call
    /\ byUuid' = [byUuid EXCEPT ![i] = GetByInnerUuid(i)]
    /\ UNCHANGED <<unused, used, acc, onlineCount, byUid, byConn>>

-----------------------------------------------------------------------------
(* Register, for a uid and a nick that fit.                                *)

\* The account bound and confirmed.
Ready(a, u, c, i) ==
    [a EXCEPT !.ready = TRUE, !.uid = u, !.connid = c, !.uuid = i,
              !.onoff = "online"]

\* SafeAlloc takes the last unused id.
SafeAlloc == unused[Len(unused)]

Alloc ==
    /\ unused # <<>>
    /\ unused' = SubSeq(unused, 1, Len(unused) - 1)
    /\ used' = used \cup {SafeAlloc}

\* What every Register does first and last.
RegisterCall(u) ==
    /\ Call
    /\ byUid' = [byUid EXCEPT ![u] = GetByUid(u)]
    /\ UNCHANGED <<byConn, byUuid>>

\* ACC_REG_RESULT_OK
RegisterNew(u, c, i) ==
    /\ RegisterCall(u)
    /\ GetByUid(u) = 0
    /\ Alloc
    /\ acc' = [acc EXCEPT ![SafeAlloc] = Ready(Blank, u, c, i)]
    /\ onlineCount' = CalcOnlineCount(used', acc')

\* ACC_REG_RESULT_CONFLICT: the two accounts name each other.
RegisterConflict(u, c, i) ==
    /\ RegisterCall(u)
    /\ GetByUid(u) # 0
    /\ LET a == acc[GetByUid(u)]
       IN  a.conflict = 0 /\ a.ext /\ a.connid # c
    /\ Alloc
    /\ acc' = [acc EXCEPT
          ![SafeAlloc] = [Ready(Blank, u, c, i) EXCEPT
                             !.conflict = ConvertId(GetByUid(u))],
          ![GetByUid(u)].conflict = ConvertId(SafeAlloc)]
    /\ onlineCount' = CalcOnlineCount(used', acc')

\* ACC_REG_RESULT_DUPLICATE_REGISTRATION
RegisterAgain(u, c, i) ==
    /\ RegisterCall(u)
    /\ GetByUid(u) # 0
    /\ LET a == acc[GetByUid(u)]
       IN  /\ a.conflict = 0 /\ a.ext /\ a.connid = c
           /\ acc' = [acc EXCEPT ![GetByUid(u)] = Ready(a, u, c, i)]
    /\ onlineCount' = CalcOnlineCount(used, acc')
    /\ UNCHANGED <<unused, used>>

\* In conflict already, not ready yet, or the list is full.
RegisterRefused(u, c) ==
    /\ RegisterCall(u)
    /\ IF GetByUid(u) = 0 THEN unused = <<>>
       ELSE LET a == acc[GetByUid(u)]
            IN  \/ a.conflict > 0 \/ ~a.ext
                \/ a.connid # c /\ unused = <<>>
    /\ UNCHANGED <<unused, used, acc, onlineCount>>

\* The application attaches its data to an account it was given.
SetExtData(s) ==
    /\ Call
    /\ s \in used /\ ~acc[s].ext
    /\ acc' = [acc EXCEPT ![s].ext = TRUE]
    /\ UNCHANGED <<unused, used, onlineCount, maps>>

-----------------------------------------------------------------------------
(* Release.                                                                *)

\* Mutant: an account that is offline already is counted off again.
OfflineCountAlways(s) == onlineCount - 1

\* Mutant: the count is left to the next registration.
OfflineCountLater(s) == onlineCount

\* The online count after Offline.
OfflineCount(s) ==
    IF acc[s].onoff = "online" THEN onlineCount - 1 ELSE onlineCount

\* Mutant: the uid map is kept.
ForgetAllButUid(a) ==
    /\ byConn' = [byConn EXCEPT ![a.connid] = 0]
    /\ byUuid' = IF a.uuid > 0 THEN [byUuid EXCEPT ![a.uuid] = 0] ELSE byUuid
    /\ UNCHANGED byUid

\* ReleaseInternal's part for the maps.
Forget(a) ==
    /\ byUid' = [byUid EXCEPT ![a.uid] = 0]
    /\ byConn' = [byConn EXCEPT ![a.connid] = 0]
    /\ byUuid' = IF a.uuid > 0 THEN [byUuid EXCEPT ![a.uuid] = 0] ELSE byUuid

\* ReleaseInternal of a ready account, whose states are then ac.
ReleaseInternal(s, ac) ==
    /\ Forget(acc[s])
    /\ onlineCount' = OfflineCount(s)
    /\ acc' = [ac EXCEPT ![s].ready = FALSE, ![s].onoff = "offline"]
    /\ used' = used \ {s}
    /\ unused' = Append(unused, s)

\* Mutant: only the account's own side is cleared.
ClearOwnConflict(s) == [acc EXCEPT ![s].conflict = 0]

\* Unregister's part before the release.
ClearConflict(s) ==
    IF acc[s].conflict > 0
    THEN [acc EXCEPT ![s].conflict = 0,
                     ![ConvertId(acc[s].conflict)].conflict = 0]
    ELSE acc

\* Mutant: neither Unregister nor ReleaseInternal looks at is_ready.
UnregisterTwice(s) ==
    /\ Call
    /\ acc[s].uid # NoUid
    /\ ReleaseInternal(s, ClearConflict(s))

\* Unregister; a second one of the same account only prints.
Unregister(s) ==
    /\ Call
    /\ acc[s].ready
    /\ ReleaseInternal(s, ClearConflict(s))

\* Kick and KickByUid, which release an account in conflict like any other and
\* leave the conflict_keyid of its partner as it is.
Kick(s) ==
    /\ Call
    /\ acc[s].ready
    /\ ReleaseInternal(s, acc)

GoOffline(s) ==
    /\ onlineCount' = OfflineCount(s)
    /\ acc' = [acc EXCEPT ![s].onoff = "offline"]
    /\ UNCHANGED <<unused, used, maps>>

\* Offline and OfflineByUid.
Offline(s) ==
    /\ Call
    /\ s \in used
    /\ GoOffline(s)

-----------------------------------------------------------------------------
(* Walks over the pool that release or change several accounts.            *)

StartWalk(op, c) ==
    /\ walk = Idle
    /\ walk' = [op |-> op, at |-> 1, conn |-> c]
    /\ UNCHANGED <<unused, used, acc, onlineCount, maps>>

Step(op, s) ==
    /\ walk.op = op
    /\ s \in used /\ s >= walk.at
    /\ walk' = [walk EXCEPT !.at = s + 1]

\* What UnregisterByConnId still has to find.
Left == {s \in used : s >= walk.at /\ acc[s].connid = walk.conn}

UnregisterByConnId ==
    /\ Left # {}
    /\ Step("unregister", First(Left))
    /\ ReleaseInternal(First(Left), ClearConflict(First(Left)))

\* CheckKeepAlive: any online account may be over the tolerance.
CheckKeepAlive(s) ==
    /\ Step("keepalive", s)
    /\ acc[s].onoff = "online"
    /\ GoOffline(s)

\* KickOfflineMoreThan: any offline account may be, in conflict or not.
KickOfflineMoreThan(s) ==
    /\ Step("kick", s)
    /\ acc[s].onoff = "offline"
    /\ ReleaseInternal(s, acc)

\* Mutant: the walk looks at the first match only.
EndWalkEarly ==
    /\ walk # Idle
    /\ walk.op = "unregister" => Left = {} \/ walk.at > 1
    /\ walk' = Idle
    /\ UNCHANGED <<unused, used, acc, onlineCount, maps>>

\* The end of the pool, or nKickNumMax.
EndWalk ==
    /\ walk # Idle
    /\ walk.op = "unregister" => Left = {}
    /\ walk' = Idle
    /\ UNCHANGED <<unused, used, acc, onlineCount, maps>>

-----------------------------------------------------------------------------

Register(u, c, i) ==
    RegisterNew(u, c, i) \/ RegisterConflict(u, c, i) \/ RegisterAgain(u, c, i)

Next ==
    \/ \E u \in Uid : LookupUid(u)
    \/ \E c \in Conn : LookupConnId(c)
    \/ \E i \in Uuid : LookupAccountByInnerUuid(i)
    \/ \E u \in Uid, c \in Conn, i \in Uuid : Register(u, c, i)
    \/ \E u \in Uid, c \in Conn : RegisterRefused(u, c)
    \/ \E s \in Slot : SetExtData(s)
    \/ \E s \in Slot : Unregister(s)
    \/ \E s \in Slot : Kick(s)
    \/ \E s \in Slot : Offline(s)
    \/ \E c \in Conn : StartWalk("unregister", c)
    \/ StartWalk("keepalive", 0)
    \/ StartWalk("kick", 0)
    \/ UnregisterByConnId
    \/ \E s \in Slot : CheckKeepAlive(s)
    \/ \E s \in Slot : KickOfflineMoreThan(s)
    \/ EndWalk

Spec == Init /\ [][Next]_vars

-----------------------------------------------------------------------------
(* Properties.                                                             *)

\* Every variable keeps its type, and so the online count never wraps.
TypeOK ==
    /\ unused \in Seq(Slot) /\ used \subseteq Slot
    /\ acc \in [Slot -> Account]
    /\ onlineCount \in Nat
    /\ byUid \in [Uid -> Slot \cup {0}]
    /\ byConn \in [Conn -> Slot \cup {0}]
    /\ byUuid \in [Uuid -> Slot \cup {0}]
    /\ walk \in [op : {"idle", "unregister", "keepalive", "kick"},
                 at : 1..(Size + 1), conn : Conn \cup {0}]

\* A slot of the pool is used or once in the unused ids, never both, and an
\* account is ready as long as its slot is used (ReleaseInternal: "don't free
\* one id two times").
PoolConsistent ==
    /\ \A m, n \in DOMAIN unused : unused[m] = unused[n] => m = n
    /\ \A s \in Slot : s \in used <=> \A n \in DOMAIN unused : unused[n] # s
    /\ \A s \in Slot : s \in used <=> acc[s].ready

\* What the uid and the connection maps remember is a registered account with
\* that key: a lookup finds an account if and only if the walk over the pool
\* would, if not always the same of two accounts of a uid.
CachesSound ==
    /\ \A u \in Uid : byUid[u] # 0 =>
          byUid[u] \in used /\ acc[byUid[u]].uid = u
    /\ \A c \in Conn : byConn[c] # 0 =>
          byConn[c] \in used /\ acc[byConn[c]].connid = c

\* The count that Offline adjusts is the number of accounts online.
OnlineCountMatches == onlineCount = CalcOnlineCount(used, acc)

\* The account of s is in conflict with that of t.
Linked(s, t) ==
    /\ t \in used /\ t # s
    /\ acc[t].conflict = ConvertId(s)
    /\ acc[t].uid = acc[s].uid /\ acc[t].connid # acc[s].connid

\* "clear conflict keyid before release" (Unregister): two accounts linked by a
\* conflict are both registered, for one uid, from two connections, and name
\* each other, so that Unregister of either finds the other.
ConflictMutual ==
    \A s \in used : acc[s].conflict > 0 => Linked(s, ConvertId(acc[s].conflict))

\* A uid is registered once, or as the two sides of one conflict.
OneConflictPerUid ==
    \A s, t \in used :
        s # t /\ acc[s].uid = acc[t].uid => acc[s].conflict = ConvertId(t)

\* The conflicts are as Register made them.
Sound == ConflictMutual /\ OneConflictPerUid

\* An account in conflict is kicked.
Tears ==
    \E s \in Slot : acc[s].conflict > 0 /\ (Kick(s) \/ KickOfflineMoreThan(s))

\* Conflicts are sound and torn by such a kick, by nothing else: whatever is
\* registered, unregistered, looked up and walked over, in whatever slots, the
\* sides of a conflict stay linked and no uid gets a third account or a second
\* one without a conflict.
TornByKickOnly == Sound /\ [][Sound => Sound' \/ Tears]_vars

\* UnregisterByConnId leaves no account of the connection, although it
\* releases slots of the pool it walks.
ConnectionEmptied ==
    [][walk.op = "unregister" /\ walk' = Idle
         => \A s \in used' : acc'[s].connid # walk.conn]_vars

\* The pool as the lobby sees it: who is registered, from where, and online.
Login(s) == <<acc[s].uid, acc[s].connid>>
Logins == {Login(s) : s \in used}
Online == {Login(s) : s \in {t \in used : acc[t].onoff = "online"}}

Lobby == INSTANCE Registry WITH logins <- Logins, online <- Online

\* While the conflicts are sound, the manager does what the registry does:
\* whatever slots are reused and maps remember, a registration adds one login
\* of a uid that had at most one other, a release (a kick included) takes
\* exactly one away, and nothing else changes who is there.
ActsAsRegistry == Lobby!Init /\ [][Sound => Lobby!Next]_<<Logins, Online>>

\* "assert(it->second->is_ready)" (GetByInnerUuid): the uuid map remembers
\* only ready accounts.
UuidCacheReady == \A i \in Uuid : byUuid[i] # 0 => acc[byUuid[i]].ready

=============================================================================
