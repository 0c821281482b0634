--------------------------- MODULE AccountsProofs ---------------------------
(***************************************************************************)
(* Proofs about Accounts, for every pool and every set of ids.             *)
(***************************************************************************)
EXTENDS Accounts, FiniteSetTheorems, TLAPS

\* The types of all but the walk.
ListTypes ==
    /\ unused \in Seq(Slot) /\ used \subseteq Slot
    /\ acc \in [Slot -> Account]
    /\ onlineCount \in Nat
    /\ byUid \in [Uid -> Slot \cup {0}]
    /\ byConn \in [Conn -> Slot \cup {0}]
    /\ byUuid \in [Uuid -> Slot \cup {0}]

WalkTypes == walk \in [op : {"idle", "unregister", "keepalive", "kick"},
                       at : 1..(Size + 1), conn : Conn \cup {0}]

\* A used slot holds the account of somebody.
Bound == \A s \in used : acc[s].uid \in Uid /\ acc[s].connid \in Conn
                           /\ acc[s].uuid \in Uuid

\* What UnregisterByConnId has passed.
Walked == walk.op = "unregister" =>
            \A s \in used : s < walk.at => acc[s].connid # walk.conn

\* What holds of the list whatever is kicked.
ListInv == ListTypes /\ PoolConsistent /\ Bound /\ CachesSound
             /\ OnlineCountMatches

IInv == ListInv /\ WalkTypes /\ Walked

-----------------------------------------------------------------------------
(* Ids, searches, counts.                                                  *)

\* ConvertId is its own inverse between the slots and their ids.
LEMMA Keys ==
    /\ \A s \in Slot : ConvertId(s) \in Keyid /\ ConvertId(ConvertId(s)) = s
    /\ \A k \in Keyid : k > 0 /\ k \in Nat /\ ConvertId(k) \in Slot
                          /\ ConvertId(ConvertId(k)) = k
BY ConstantsAssumption DEF ConvertId, Keyid, Slot

\* The walks find a match when there is one.
LEMMA FirstFound ==
    ASSUME NEW S \in SUBSET Slot
    PROVE  /\ S # {} => First(S) \in S /\ \A t \in S : First(S) <= t
           /\ S = {} => First(S) = 0
<1>1. ASSUME S # {} PROVE \E s \in S : \A t \in S : s <= t
  <2>1. S \subseteq Nat
    BY ConstantsAssumption DEF Slot
  <2>2. PICK s \in S : \A t \in S : ~ (<<t, s>> \in OpToRel(<, Nat))
    BY ONLY <1>1, <2>1, NatLessThanWellFounded, WFMin, Zenon
  <2>3. \A t \in S : ~ (t < s)
    BY <2>1, <2>2 DEF OpToRel
  <2> QED BY <2>1, <2>3
<1> QED BY <1>1 DEF First

\* The sets that CalcOnlineCount counts are finite.
LEMMA CountType ==
    ASSUME NEW us \in SUBSET Slot, NEW ac
    PROVE  /\ IsFiniteSet({s \in us : ac[s].onoff = "online"})
           /\ CalcOnlineCount(us, ac) \in Nat
<1>1. IsFiniteSet(Slot)
  BY ConstantsAssumption, FS_Interval DEF Slot
<1>2. {s \in us : ac[s].onoff = "online"} \in SUBSET Slot
  OBVIOUS
<1>3. IsFiniteSet({s \in us : ac[s].onoff = "online"})
  BY ONLY <1>1, <1>2, FS_Subset
<1> QED BY <1>3, FS_CardinalityType DEF CalcOnlineCount

\* One account fewer online, when it was.
LEMMA CountDrops ==
    ASSUME NEW us \in SUBSET Slot, NEW vs \in SUBSET Slot, NEW ac, NEW bc,
           NEW s,
           {t \in vs : bc[t].onoff = "online"} =
              {t \in us : ac[t].onoff = "online"} \ {s}
    PROVE  CalcOnlineCount(vs, bc) =
             IF s \in us /\ ac[s].onoff = "online"
             THEN CalcOnlineCount(us, ac) - 1 ELSE CalcOnlineCount(us, ac)
<1> DEFINE S == {t \in us : ac[t].onoff = "online"}
<1>1. IsFiniteSet(S)
  BY CountType
<1>2. Cardinality(S \ {s}) = IF s \in S THEN Cardinality(S) - 1
                             ELSE Cardinality(S)
  BY <1>1, FS_RemoveElement
<1> QED BY <1>2 DEF CalcOnlineCount

-----------------------------------------------------------------------------
(* Lookups.                                                                *)

\* A lookup by uid finds a registered account of that uid if there is one.
LEMMA UidFound ==
    ASSUME ListInv, NEW u \in Uid
    PROVE  /\ GetByUid(u) \in Slot \cup {0}
           /\ GetByUid(u) # 0 => GetByUid(u) \in used /\ acc[GetByUid(u)].uid = u
           /\ GetByUid(u) = 0 => \A s \in used : acc[s].uid # u
<1> DEFINE S == {s \in used : acc[s].uid = u}
<1>1. /\ S \in SUBSET Slot
      /\ byUid[u] \in Slot \cup {0}
      /\ byUid[u] # 0 => byUid[u] \in used /\ acc[byUid[u]].uid = u
  BY DEF ListInv, ListTypes, CachesSound
<1>2. 0 \notin Slot
  BY DEF Slot
<1>3. /\ S # {} => First(S) \in S
      /\ S = {} => First(S) = 0
  BY <1>1, FirstFound
<1>4. GetByUid(u) = IF byUid[u] # 0 THEN byUid[u] ELSE First(S)
  BY DEF GetByUid
<1> HIDE DEF S
<1>5. CASE byUid[u] # 0
  BY <1>1, <1>4, <1>5
<1>6. CASE byUid[u] = 0
  BY <1>1, <1>2, <1>3, <1>4, <1>6 DEF S
<1> QED BY <1>5, <1>6

\* The same by connection.
LEMMA ConnFound ==
    ASSUME ListInv, NEW c \in Conn
    PROVE  /\ GetByConnId(c) \in Slot \cup {0}
           /\ GetByConnId(c) # 0 =>
                GetByConnId(c) \in used /\ acc[GetByConnId(c)].connid = c
<1> DEFINE S == {s \in used : acc[s].connid = c}
<1>1. /\ S \in SUBSET Slot
      /\ byConn[c] \in Slot \cup {0}
      /\ byConn[c] # 0 => byConn[c] \in used /\ acc[byConn[c]].connid = c
  BY DEF ListInv, ListTypes, CachesSound
<1>2. /\ S # {} => First(S) \in S
      /\ S = {} => First(S) = 0
  BY <1>1, FirstFound
<1>3. GetByConnId(c) = IF byConn[c] # 0 THEN byConn[c] ELSE First(S)
  BY DEF GetByConnId
<1> QED BY <1>1, <1>2, <1>3

\* By uuid, a slot or none.
LEMMA UuidFound ==
    ASSUME ListInv, NEW i \in Uuid
    PROVE  GetByInnerUuid(i) \in Slot \cup {0}
<1> DEFINE S == {s \in used : acc[s].uuid = i}
<1>1. S \in SUBSET Slot /\ byUuid[i] \in Slot \cup {0}
  BY DEF ListInv, ListTypes
<1>2. /\ S # {} => First(S) \in S
      /\ S = {} => First(S) = 0
  BY <1>1, FirstFound
<1> QED BY <1>1, <1>2 DEF GetByInnerUuid

\* Remembering what a lookup found keeps the uid map sound.
LEMMA UidRemembered ==
    ASSUME ListInv, NEW u \in Uid, NEW m,
           m = [byUid EXCEPT ![u] = GetByUid(u)]
    PROVE  /\ m \in [Uid -> Slot \cup {0}]
           /\ \A v \in Uid : m[v] # 0 => m[v] \in used /\ acc[m[v]].uid = v
<1>1. /\ byUid \in [Uid -> Slot \cup {0}]
      /\ \A v \in Uid : byUid[v] # 0 =>
            byUid[v] \in used /\ acc[byUid[v]].uid = v
  BY DEF ListInv, ListTypes, CachesSound
<1>2. /\ GetByUid(u) \in Slot \cup {0}
      /\ GetByUid(u) # 0 => GetByUid(u) \in used /\ acc[GetByUid(u)].uid = u
  BY UidFound
<1>3. ASSUME NEW v \in Uid, m[v] # 0
      PROVE  m[v] \in used /\ acc[m[v]].uid = v
  <2>1. CASE v = u
    BY <1>1, <1>2, <1>3, <2>1
  <2>2. CASE v # u
    BY <1>1, <1>3, <2>2
  <2> QED BY <2>1, <2>2
<1> QED BY <1>1, <1>2, <1>3

\* What no assignment to the maps can disturb.
LEMMA SameList ==
    ASSUME ListInv, UNCHANGED <<unused, used, acc, onlineCount>>,
           byUid' \in [Uid -> Slot \cup {0}],
           byConn' \in [Conn -> Slot \cup {0}],
           byUuid' \in [Uuid -> Slot \cup {0}],
           CachesSound'
    PROVE  ListInv'
BY DEF ListInv, ListTypes, PoolConsistent, Bound, OnlineCountMatches,
       CalcOnlineCount

\* The steps that only look up.
LEMMA LookupStep ==
    ASSUME ListInv,
           \/ \E u \in Uid : LookupUid(u)
           \/ \E c \in Conn : LookupConnId(c)
           \/ \E i \in Uuid : LookupAccountByInnerUuid(i)
           \/ \E u \in Uid, c \in Conn : RegisterRefused(u, c)
    PROVE  ListInv'
<1>1. ASSUME NEW u \in Uid, byUid' = [byUid EXCEPT ![u] = GetByUid(u)],
             UNCHANGED <<unused, used, acc, onlineCount, byConn, byUuid>>
      PROVE  ListInv'
  <2>1. /\ byUid' \in [Uid -> Slot \cup {0}]
        /\ \A v \in Uid : byUid'[v] # 0 =>
              byUid'[v] \in used /\ acc[byUid'[v]].uid = v
    BY ONLY ListInv, u \in Uid, <1>1, UidRemembered
  <2>2. CachesSound'
    BY <1>1, <2>1 DEF CachesSound, ListInv
  <2> QED BY <1>1, <2>1, <2>2, SameList DEF ListInv, ListTypes
<1>2. ASSUME NEW c \in Conn, LookupConnId(c) PROVE ListInv'
  <2>1. byConn' = [byConn EXCEPT ![c] = GetByConnId(c)]
    BY <1>2 DEF LookupConnId
  <2>2. /\ byConn \in [Conn -> Slot \cup {0}]
        /\ \A d \in Conn : byConn[d] # 0 =>
              byConn[d] \in used /\ acc[byConn[d]].connid = d
    BY DEF ListInv, ListTypes, CachesSound
  <2>3. \A d \in Conn : byConn'[d] # 0 =>
              byConn'[d] \in used /\ acc[byConn'[d]].connid = d
    BY <2>1, <2>2, ConnFound
  <2>4. byConn' \in [Conn -> Slot \cup {0}]
    BY <2>1, <2>2, ConnFound
  <2>5. CachesSound'
    BY <1>2, <2>3 DEF CachesSound, ListInv, LookupConnId
  <2> QED BY <1>2, <2>4, <2>5, SameList
          DEF ListInv, ListTypes, LookupConnId
<1>3. ASSUME NEW i \in Uuid, LookupAccountByInnerUuid(i) PROVE ListInv'
  <2>1. byUuid' \in [Uuid -> Slot \cup {0}]
    BY <1>3, UuidFound DEF LookupAccountByInnerUuid, ListInv, ListTypes
  <2>2. CachesSound'
    BY <1>3 DEF CachesSound, ListInv, LookupAccountByInnerUuid
  <2> QED BY <1>3, <2>1, <2>2, SameList
          DEF ListInv, ListTypes, LookupAccountByInnerUuid
<1>4. ASSUME NEW u \in Uid, LookupUid(u) PROVE ListInv'
  BY <1>1, <1>4 DEF LookupUid
<1>5. ASSUME NEW u \in Uid, NEW c \in Conn, RegisterRefused(u, c)
      PROVE  ListInv'
  BY <1>1, <1>5 DEF RegisterRefused, RegisterCall
<1> QED BY <1>2, <1>3, <1>4, <1>5

-----------------------------------------------------------------------------
(* Registration.                                                           *)

\* Alloc takes a slot that nobody uses, and keeps the pool consistent.
LEMMA AllocFresh ==
    ASSUME ListInv, Alloc
    PROVE  /\ SafeAlloc \in Slot \ used
           /\ unused' \in Seq(Slot) /\ used' \subseteq Slot
           /\ \A m, n \in DOMAIN unused' : unused'[m] = unused'[n] => m = n
           /\ \A s \in Slot : s \in used' <=>
                 \A n \in DOMAIN unused' : unused'[n] # s
<1> DEFINE L == Len(unused)
<1>1. /\ unused \in Seq(Slot) /\ used \subseteq Slot
      /\ \A m, n \in DOMAIN unused : unused[m] = unused[n] => m = n
      /\ \A s \in Slot : s \in used <=> \A n \in DOMAIN unused : unused[n] # s
  BY DEF ListInv, ListTypes, PoolConsistent
<1>2. L \in Nat \ {0} /\ DOMAIN unused = 1..L
  BY <1>1 DEF Alloc
<1>3. unused[L] \in Slot \ used
  BY <1>1, <1>2
<1> HIDE DEF L
<1>4. unused' = SubSeq(unused, 1, L - 1) /\ used' = used \cup {unused[L]}
  BY DEF Alloc, SafeAlloc, L
<1>5. /\ unused' \in Seq(Slot) /\ DOMAIN unused' = 1..(L - 1)
      /\ \A n \in 1..(L - 1) : unused'[n] = unused[n]
  BY <1>1, <1>2, <1>4
<1>6. \A m, n \in DOMAIN unused' : unused'[m] = unused'[n] => m = n
  BY <1>1, <1>2, <1>5
<1>7. ASSUME NEW s \in Slot
      PROVE  s \in used' <=> \A n \in DOMAIN unused' : unused'[n] # s
  <2>1. CASE s = unused[L]
    BY <1>1, <1>2, <1>4, <1>5, <2>1
  <2>2. CASE s # unused[L]
    <3>1. 1..L = 1..(L - 1) \cup {L}
      BY <1>2
    <3>2. s \in used' <=> s \in used
      BY <1>4, <2>2
    <3>3. (\A n \in 1..L : unused[n] # s)
             <=> \A n \in 1..(L - 1) : unused[n] # s
      BY <2>2, <3>1
    <3>4. s \in used <=> \A n \in 1..L : unused[n] # s
      BY <1>1, <1>2
    <3> QED BY <1>5, <3>2, <3>3, <3>4
  <2> QED BY <2>1, <2>2
<1>8. used' \subseteq Slot
  BY <1>1, <1>3, <1>4
<1> QED BY <1>3, <1>5, <1>6, <1>7, <1>8 DEF SafeAlloc, L

\* The fields of a freshly registered account.
LEMMA ReadyFields ==
    ASSUME NEW a \in Account, NEW u \in Uid, NEW c \in Conn, NEW i \in Uuid
    PROVE  /\ Ready(a, u, c, i) \in Account
           /\ Ready(a, u, c, i).ready /\ Ready(a, u, c, i).uid = u
           /\ Ready(a, u, c, i).connid = c /\ Ready(a, u, c, i).uuid = i
           /\ Ready(a, u, c, i).conflict = a.conflict
BY DEF Ready, Account

LEMMA BlankType == Blank \in Account /\ Blank.conflict = 0
BY DEF Blank, Account

\* The accounts that stay are the same but for their conflict, and new ones
\* are bound and ready.
Grown(us) ==
    /\ acc' \in [Slot -> Account]
    /\ \A t \in used : /\ acc'[t].uid = acc[t].uid /\ acc'[t].ready
                       /\ acc'[t].connid = acc[t].connid
                       /\ acc'[t].uuid \in Uuid
    /\ \A t \in us \ used : /\ acc'[t].uid \in Uid /\ acc'[t].ready
                            /\ acc'[t].connid \in Conn /\ acc'[t].uuid \in Uuid
    /\ \A t \in Slot \ us : acc'[t] = acc[t]

\* A registration that grows the pool, or not, keeps the list's invariant.
LEMMA GrownStep ==
    ASSUME ListInv, NEW u \in Uid, RegisterCall(u),
           unused' \in Seq(Slot), used' \subseteq Slot, used \subseteq used',
           \A m, n \in DOMAIN unused' : unused'[m] = unused'[n] => m = n,
           \A s \in Slot : s \in used' <=> \A n \in DOMAIN unused' : unused'[n] # s,
           Grown(used'),
           onlineCount' = CalcOnlineCount(used', acc')
    PROVE  ListInv'
<1>1. /\ byUid' \in [Uid -> Slot \cup {0}]
      /\ \A v \in Uid : byUid'[v] # 0 =>
            byUid'[v] \in used /\ acc[byUid'[v]].uid = v
      /\ UNCHANGED <<byConn, byUuid>>
  <2>1. byUid' = [byUid EXCEPT ![u] = GetByUid(u)]
    BY DEF RegisterCall
  <2>2. UNCHANGED <<byConn, byUuid>>
    BY DEF RegisterCall
  <2> QED BY ONLY ListInv, <2>1, <2>2, UidRemembered
<1>2. CachesSound'
  BY <1>1 DEF CachesSound, Grown, ListInv, ListTypes
<1>3. OnlineCountMatches' /\ onlineCount' \in Nat
  BY CountType, ZenonT(30) DEF OnlineCountMatches, CalcOnlineCount
<1>4. Bound'
  BY DEF Bound, Grown, ListInv
<1>5. \A s \in Slot : s \in used' <=> acc'[s].ready
  BY DEF ListInv, ListTypes, PoolConsistent, Grown
<1>6. PoolConsistent'
  BY <1>5 DEF PoolConsistent
<1>7. ListTypes'
  BY <1>1, <1>3 DEF ListInv, ListTypes, Grown
<1> QED BY <1>2, <1>3, <1>4, <1>6, <1>7 DEF ListInv

LEMMA RegisterNewStep ==
    ASSUME ListInv, NEW u \in Uid, NEW c \in Conn, NEW i \in Uuid,
           RegisterNew(u, c, i)
    PROVE  ListInv'
<1> DEFINE s == SafeAlloc
           a == Ready(Blank, u, c, i)
<1>1. /\ RegisterCall(u) /\ Alloc
      /\ acc' = [acc EXCEPT ![s] = a]
      /\ onlineCount' = CalcOnlineCount(used', acc')
      /\ used' = used \cup {s}
  BY DEF RegisterNew, Alloc
<1>2. s \in Slot \ used
  BY <1>1, AllocFresh
<1>3. /\ a \in Account /\ a.ready /\ a.uid = u /\ a.connid = c /\ a.uuid = i
  BY ReadyFields, BlankType
<1> HIDE DEF s, a
<1>4. /\ acc \in [Slot -> Account]
      /\ used \subseteq Slot
      /\ \A t \in used : acc[t].ready /\ acc[t].uuid \in Uuid
  BY DEF ListInv, ListTypes, PoolConsistent, Bound
<1>5. Grown(used')
  BY <1>1, <1>2, <1>3, <1>4 DEF Grown
<1> QED BY <1>1, <1>5, AllocFresh, GrownStep

LEMMA RegisterConflictStep ==
    ASSUME ListInv, NEW u \in Uid, NEW c \in Conn, NEW i \in Uuid,
           RegisterConflict(u, c, i)
    PROVE  ListInv'
<1> DEFINE s == SafeAlloc
           g == GetByUid(u)
           r == Ready(Blank, u, c, i)
           a == [r EXCEPT !.conflict = ConvertId(g)]
<1>1. /\ RegisterCall(u) /\ Alloc /\ g # 0
      /\ acc' = [acc EXCEPT ![s] = a, ![g].conflict = ConvertId(s)]
      /\ onlineCount' = CalcOnlineCount(used', acc')
      /\ used' = used \cup {s}
  BY DEF RegisterConflict, Alloc
<1>2. s \in Slot \ used
  BY <1>1, AllocFresh
<1>3. g \in used
  BY <1>1, UidFound
<1>4. /\ acc \in [Slot -> Account]
      /\ used \subseteq Slot
      /\ \A t \in used : acc[t].ready /\ acc[t].uuid \in Uuid
  BY DEF ListInv, ListTypes, PoolConsistent, Bound
<1>5. ConvertId(g) \in Keyid /\ ConvertId(s) \in Keyid
  BY <1>2, <1>3, <1>4, Keys
<1>6. r \in Account /\ r.ready /\ r.uid = u /\ r.connid = c /\ r.uuid = i
  BY ReadyFields, BlankType
<1> HIDE DEF s, g, r
<1>7. a \in Account /\ a.ready /\ a.uid = u /\ a.connid = c /\ a.uuid = i
  BY <1>5, <1>6 DEF Account
<1> HIDE DEF a
<1>8. /\ acc' \in [Slot -> Account]
      /\ acc'[s] = a
      /\ acc'[g] = [acc[g] EXCEPT !.conflict = ConvertId(s)]
      /\ \A t \in Slot \ {s, g} : acc'[t] = acc[t]
  BY <1>1, <1>2, <1>3, <1>4, <1>5, <1>7 DEF Account
<1>9. /\ acc'[g].uid = acc[g].uid /\ acc'[g].connid = acc[g].connid
      /\ acc'[g].uuid = acc[g].uuid /\ acc'[g].ready = acc[g].ready
  BY <1>3, <1>4, <1>8 DEF Account
<1>10. Grown(used')
  BY <1>1, <1>2, <1>3, <1>4, <1>7, <1>8, <1>9 DEF Grown
<1> QED BY <1>1, <1>10, AllocFresh, GrownStep

LEMMA RegisterAgainStep ==
    ASSUME ListInv, NEW u \in Uid, NEW c \in Conn, NEW i \in Uuid,
           RegisterAgain(u, c, i)
    PROVE  ListInv'
<1> DEFINE g == GetByUid(u)
           a == Ready(acc[g], u, c, i)
<1>1. /\ RegisterCall(u) /\ g # 0 /\ acc[g].connid = c
      /\ acc' = [acc EXCEPT ![g] = a]
      /\ onlineCount' = CalcOnlineCount(used', acc')
      /\ UNCHANGED <<unused, used>>
  BY DEF RegisterAgain, CalcOnlineCount
<1>2. g \in used /\ acc[g].uid = u
  BY <1>1, UidFound
<1>3. /\ acc \in [Slot -> Account]
      /\ used \subseteq Slot
      /\ \A t \in used : acc[t].ready /\ acc[t].uuid \in Uuid
  BY DEF ListInv, ListTypes, PoolConsistent, Bound
<1>4. /\ a \in Account /\ a.ready /\ a.uid = u /\ a.connid = c /\ a.uuid = i
  BY <1>2, <1>3, ReadyFields
<1> HIDE DEF g, a
<1>5. Grown(used')
  BY <1>1, <1>2, <1>3, <1>4 DEF Grown
<1>6. /\ unused' \in Seq(Slot) /\ used' \subseteq Slot /\ used \subseteq used'
      /\ \A m, n \in DOMAIN unused' : unused'[m] = unused'[n] => m = n
      /\ \A s \in Slot : s \in used' <=>
            \A n \in DOMAIN unused' : unused'[n] # s
  BY <1>1 DEF ListInv, ListTypes, PoolConsistent
<1> QED BY <1>1, <1>5, <1>6, GrownStep

-----------------------------------------------------------------------------
(* Release and offline.                                                    *)

\* ac is acc but for conflicts.
Kept(ac) ==
    /\ ac \in [Slot -> Account]
    /\ \A t \in Slot : /\ ac[t].uid = acc[t].uid /\ ac[t].ready = acc[t].ready
                       /\ ac[t].connid = acc[t].connid
                       /\ ac[t].uuid = acc[t].uuid
                       /\ ac[t].onoff = acc[t].onoff

\* Unregister's first part changes conflicts only.
LEMMA ConflictCleared ==
    ASSUME ListInv, NEW s \in Slot
    PROVE  Kept(acc) /\ Kept(ClearConflict(s))
<1>1. acc \in [Slot -> Account]
  BY DEF ListInv, ListTypes
<1>2. acc[s].conflict \in Keyid \cup {0} /\ 0 \in Keyid \cup {0}
  BY <1>1 DEF Account
<1>3. Kept(acc)
  BY <1>1 DEF Kept
<1>4. CASE acc[s].conflict > 0
  <2> DEFINE p == ConvertId(acc[s].conflict)
             ac == [acc EXCEPT ![s].conflict = 0, ![p].conflict = 0]
  <2>1. p \in Slot
    BY <1>2, <1>4, Keys
  <2> HIDE DEF p
  <2>2. Kept(ac)
    BY <1>1, <1>2, <2>1 DEF Kept, Account
  <2> QED BY <1>3, <1>4, <2>2 DEF ClearConflict, p
<1>5. CASE ~(acc[s].conflict > 0)
  BY <1>3, <1>5 DEF ClearConflict
<1> QED BY <1>4, <1>5

\* The slot goes back to the pool once.
LEMMA PoolReleased ==
    ASSUME ListInv, NEW s \in used,
           used' = used \ {s}, unused' = Append(unused, s)
    PROVE  /\ unused' \in Seq(Slot) /\ used' \subseteq Slot
           /\ \A m, n \in DOMAIN unused' : unused'[m] = unused'[n] => m = n
           /\ \A t \in Slot : t \in used' <=>
                 \A n \in DOMAIN unused' : unused'[n] # t
<1> DEFINE L == Len(unused)
<1>1. /\ unused \in Seq(Slot) /\ used \subseteq Slot
      /\ \A m, n \in DOMAIN unused : unused[m] = unused[n] => m = n
      /\ \A t \in Slot : t \in used <=> \A n \in DOMAIN unused : unused[n] # t
  BY DEF ListInv, ListTypes, PoolConsistent
<1>2. L \in Nat /\ DOMAIN unused = 1..L
  BY <1>1
<1>3. /\ unused' \in Seq(Slot) /\ DOMAIN unused' = 1..(L + 1)
      /\ unused'[L + 1] = s
      /\ \A n \in 1..L : unused'[n] = unused[n]
  BY <1>1
<1> HIDE DEF L
<1>4. 1..(L + 1) = 1..L \cup {L + 1}
  BY <1>2
<1>5. \A n \in 1..L : unused[n] # s
  BY <1>1, <1>2
<1>6. ASSUME NEW m \in 1..(L + 1), NEW n \in 1..(L + 1),
             unused'[m] = unused'[n]
      PROVE  m = n
  <2>1. CASE m \in 1..L /\ n \in 1..L
    BY <1>1, <1>2, <1>3, <1>6, <2>1
  <2>2. CASE m = L + 1 \/ n = L + 1
    BY <1>3, <1>4, <1>5, <1>6, <2>2
  <2> QED BY <1>4, <2>1, <2>2
<1>7. ASSUME NEW t \in Slot
      PROVE  t \in used' <=> \A n \in 1..(L + 1) : unused'[n] # t
  <2>1. CASE t = s
    BY <1>3, <1>4, <2>1
  <2>2. CASE t # s
    <3>1. (\A n \in 1..(L + 1) : unused'[n] # t)
             <=> \A n \in 1..L : unused[n] # t
      BY <1>3, <1>4, <2>2
    <3>2. t \in used' <=> t \in used
      BY <2>2
    <3> QED BY <1>1, <1>2, <3>1, <3>2
  <2> QED BY <2>1, <2>2
<1>8. used' \subseteq Slot /\ unused' \in Seq(Slot)
  BY <1>1, <1>3
<1>9. /\ \A m, n \in DOMAIN unused' : unused'[m] = unused'[n] => m = n
      /\ \A t \in Slot : t \in used' <=>
            \A n \in DOMAIN unused' : unused'[n] # t
  <2>1. DOMAIN unused' = 1..(L + 1)
    BY <1>3
  <2> QED BY ONLY <1>6, <1>7, <2>1
<1> QED BY ONLY <1>8, <1>9

\* A release keeps the list's invariant.
LEMMA ReleaseStep ==
    ASSUME ListInv, NEW s \in used, NEW ac, Kept(ac), ReleaseInternal(s, ac)
    PROVE  ListInv'
<1>1. /\ acc \in [Slot -> Account] /\ used \subseteq Slot
      /\ byUid \in [Uid -> Slot \cup {0}]
      /\ byConn \in [Conn -> Slot \cup {0}]
      /\ byUuid \in [Uuid -> Slot \cup {0}]
      /\ acc[s].uid \in Uid /\ acc[s].connid \in Conn
  BY DEF ListInv, ListTypes, Bound
<1>2. /\ used' = used \ {s} /\ unused' = Append(unused, s)
      /\ acc' = [ac EXCEPT ![s].ready = FALSE, ![s].onoff = "offline"]
      /\ byUid' = [byUid EXCEPT ![acc[s].uid] = 0]
      /\ byConn' = [byConn EXCEPT ![acc[s].connid] = 0]
      /\ byUuid' = IF acc[s].uuid > 0
                   THEN [byUuid EXCEPT ![acc[s].uuid] = 0] ELSE byUuid
      /\ onlineCount' = OfflineCount(s)
  BY DEF ReleaseInternal, Forget
<1>3. /\ acc' \in [Slot -> Account]
      /\ ~acc'[s].ready /\ acc'[s].onoff = "offline"
      /\ \A t \in Slot \ {s} : acc'[t] = ac[t]
  <2> DEFINE b == [ac[s] EXCEPT !.ready = FALSE, !.onoff = "offline"]
  <2>1. ac \in [Slot -> Account] /\ s \in Slot
    BY <1>1 DEF Kept
  <2>2. b \in Account /\ ~b.ready /\ b.onoff = "offline"
    BY <2>1 DEF Account
  <2>3. acc' = [ac EXCEPT ![s] = b]
    BY <1>2, <2>1 DEF Account
  <2> HIDE DEF b
  <2> QED BY <2>1, <2>2, <2>3
<1>4. \A t \in Slot \ {s} :
         /\ acc'[t].uid = acc[t].uid /\ acc'[t].ready = acc[t].ready
         /\ acc'[t].connid = acc[t].connid /\ acc'[t].uuid = acc[t].uuid
         /\ acc'[t].onoff = acc[t].onoff
  BY <1>3 DEF Kept
<1>pool. /\ unused' \in Seq(Slot) /\ used' \subseteq Slot
         /\ \A m, n \in DOMAIN unused' : unused'[m] = unused'[n] => m = n
         /\ \A t \in Slot : t \in used' <=>
               \A n \in DOMAIN unused' : unused'[n] # t
  <2>1. used' = used \ {s}
    BY <1>2
  <2>2. unused' = Append(unused, s)
    BY <1>2
  <2> QED BY ONLY ListInv, s \in used, <2>1, <2>2, PoolReleased
<1>5. PoolConsistent'
  <2>1. \A t \in Slot : t \in used <=> acc[t].ready
    BY DEF ListInv, PoolConsistent
  <2>2. \A t \in Slot : t \in used' <=> acc'[t].ready
    BY <1>2, <1>3, <1>4, <2>1
  <2> QED BY <1>pool, <2>2 DEF PoolConsistent
<1>6. Bound'
  BY <1>1, <1>2, <1>4 DEF Bound, ListInv
<1>7. CachesSound'
  <2>1. ASSUME NEW v \in Uid, byUid'[v] # 0
        PROVE  byUid'[v] \in used' /\ acc'[byUid'[v]].uid = v
    <3>1. v # acc[s].uid /\ byUid'[v] = byUid[v]
      BY <1>1, <1>2, <2>1
    <3>2. byUid[v] \in used /\ acc[byUid[v]].uid = v
      BY <2>1, <3>1 DEF ListInv, CachesSound
    <3>3. byUid[v] \in used' /\ byUid[v] \in Slot \ {s}
      BY <1>1, <1>2, <3>1, <3>2
    <3>4. acc'[byUid[v]].uid = acc[byUid[v]].uid
      BY <1>4, <3>3
    <3> QED BY <3>1, <3>2, <3>3, <3>4
  <2>2. ASSUME NEW c \in Conn, byConn'[c] # 0
        PROVE  byConn'[c] \in used' /\ acc'[byConn'[c]].connid = c
    <3>1. c # acc[s].connid /\ byConn'[c] = byConn[c]
      BY <1>1, <1>2, <2>2
    <3>2. byConn[c] \in used /\ acc[byConn[c]].connid = c
      BY <2>2, <3>1 DEF ListInv, CachesSound
    <3>3. byConn[c] \in used' /\ byConn[c] \in Slot \ {s}
      BY <1>1, <1>2, <3>1, <3>2
    <3>4. acc'[byConn[c]].connid = acc[byConn[c]].connid
      BY <1>4, <3>3
    <3> QED BY <3>1, <3>2, <3>3, <3>4
  <2> QED BY <2>1, <2>2 DEF CachesSound
<1>8. OnlineCountMatches' /\ onlineCount' \in Nat
  <2>1. {t \in used' : acc'[t].onoff = "online"} =
           {t \in used : acc[t].onoff = "online"} \ {s}
    BY <1>1, <1>2, <1>4
  <2>2. used' \in SUBSET Slot /\ used \in SUBSET Slot
    BY <1>1, <1>2
  <2>3. CalcOnlineCount(used', acc') =
           IF s \in used /\ acc[s].onoff = "online"
           THEN CalcOnlineCount(used, acc) - 1 ELSE CalcOnlineCount(used, acc)
    BY ONLY <2>1, <2>2, CountDrops
  <2>4. onlineCount' = CalcOnlineCount(used', acc')
    BY <1>2, <2>3 DEF OfflineCount, ListInv, OnlineCountMatches
  <2> QED BY <2>2, <2>4, CountType DEF OnlineCountMatches, CalcOnlineCount
<1>9. ListTypes'
  <2>1. /\ byUid' \in [Uid -> Slot \cup {0}]
        /\ byConn' \in [Conn -> Slot \cup {0}]
        /\ byUuid' \in [Uuid -> Slot \cup {0}]
    BY <1>1, <1>2
  <2> QED BY <1>pool, <1>3, <1>8, <2>1 DEF ListTypes
<1> QED BY <1>5, <1>6, <1>7, <1>8, <1>9 DEF ListInv

\* Going offline too.
LEMMA OfflineStep ==
    ASSUME ListInv, NEW s \in used, GoOffline(s)
    PROVE  ListInv' /\ acc' \in [Slot -> Account]
           /\ \A t \in Slot : /\ acc'[t].uid = acc[t].uid
                              /\ acc'[t].connid = acc[t].connid
                              /\ acc'[t].conflict = acc[t].conflict
<1>1. /\ acc \in [Slot -> Account] /\ used \subseteq Slot
  BY DEF ListInv, ListTypes
<1>2. /\ UNCHANGED <<unused, used, byUid, byConn, byUuid>>
      /\ acc' = [acc EXCEPT ![s].onoff = "offline"]
      /\ onlineCount' = OfflineCount(s)
  BY DEF GoOffline, maps
<1>3. /\ acc' \in [Slot -> Account] /\ acc'[s].onoff = "offline"
      /\ \A t \in Slot : /\ acc'[t].uid = acc[t].uid
                         /\ acc'[t].ready = acc[t].ready
                         /\ acc'[t].connid = acc[t].connid
                         /\ acc'[t].uuid = acc[t].uuid
                         /\ acc'[t].conflict = acc[t].conflict
                         /\ t # s => acc'[t].onoff = acc[t].onoff
  BY <1>1, <1>2 DEF Account
<1>4. PoolConsistent' /\ Bound' /\ CachesSound'
  BY <1>1, <1>2, <1>3 DEF ListInv, ListTypes, PoolConsistent, Bound, CachesSound
<1>5. OnlineCountMatches' /\ onlineCount' \in Nat
  <2>1. {t \in used' : acc'[t].onoff = "online"} =
           {t \in used : acc[t].onoff = "online"} \ {s}
    BY <1>1, <1>2, <1>3
  <2>2. used' \in SUBSET Slot /\ used \in SUBSET Slot
    BY <1>1, <1>2
  <2>3. CalcOnlineCount(used', acc') =
           IF s \in used /\ acc[s].onoff = "online"
           THEN CalcOnlineCount(used, acc) - 1 ELSE CalcOnlineCount(used, acc)
    BY ONLY <2>1, <2>2, CountDrops
  <2>4. onlineCount' = CalcOnlineCount(used', acc')
    BY <1>2, <2>3 DEF OfflineCount, ListInv, OnlineCountMatches
  <2> QED BY <2>2, <2>4, CountType DEF OnlineCountMatches, CalcOnlineCount
<1>6. ListTypes'
  BY <1>2, <1>3, <1>5 DEF ListInv, ListTypes
<1> QED BY <1>3, <1>4, <1>5, <1>6 DEF ListInv

-----------------------------------------------------------------------------
(* The invariant.                                                          *)

\* Attaching data changes nothing that the invariants speak of.
LEMMA ExtStep ==
    ASSUME ListInv, NEW s \in Slot, SetExtData(s)
    PROVE  ListInv' /\ used' = used
           /\ \A t \in Slot : /\ acc'[t].uid = acc[t].uid
                              /\ acc'[t].connid = acc[t].connid
                              /\ acc'[t].conflict = acc[t].conflict
<1>1. acc \in [Slot -> Account] /\ used \subseteq Slot
  BY DEF ListInv, ListTypes
<1>2. /\ UNCHANGED <<unused, used, onlineCount, byUid, byConn, byUuid>>
      /\ acc' = [acc EXCEPT ![s].ext = TRUE]
  BY DEF SetExtData, maps
<1>3. /\ acc' \in [Slot -> Account]
      /\ \A t \in Slot : /\ acc'[t].uid = acc[t].uid
                         /\ acc'[t].ready = acc[t].ready
                         /\ acc'[t].connid = acc[t].connid
                         /\ acc'[t].uuid = acc[t].uuid
                         /\ acc'[t].conflict = acc[t].conflict
                         /\ acc'[t].onoff = acc[t].onoff
  <2> DEFINE b == [acc[s] EXCEPT !.ext = TRUE]
  <2>1. /\ b \in Account /\ b.uid = acc[s].uid /\ b.ready = acc[s].ready
        /\ b.connid = acc[s].connid /\ b.uuid = acc[s].uuid
        /\ b.conflict = acc[s].conflict /\ b.onoff = acc[s].onoff
    BY <1>1 DEF Account
  <2>2. acc' = [acc EXCEPT ![s] = b]
    BY <1>1, <1>2 DEF Account
  <2> HIDE DEF b
  <2> QED BY <1>1, <2>1, <2>2
<1>4. PoolConsistent' /\ Bound' /\ CachesSound'
  BY <1>1, <1>2, <1>3 DEF ListInv, ListTypes, PoolConsistent, Bound, CachesSound
<1>5. {t \in used' : acc'[t].onoff = "online"} =
         {t \in used : acc[t].onoff = "online"}
  BY <1>1, <1>2, <1>3
<1>6. OnlineCountMatches'
  BY <1>2, <1>5 DEF ListInv, OnlineCountMatches, CalcOnlineCount
<1>7. ListTypes'
  BY <1>2, <1>3 DEF ListInv, ListTypes
<1> QED BY <1>2, <1>3, <1>4, <1>6, <1>7 DEF ListInv

LEMMA InitHolds == Init => IInv
<1> SUFFICES ASSUME Init PROVE IInv
  OBVIOUS
<1>1. /\ unused \in Seq(Slot) /\ DOMAIN unused = Slot
      /\ \A n \in Slot : unused[n] = n
  BY ConstantsAssumption DEF Init, Slot
<1>2. acc \in [Slot -> Account]
  BY BlankType DEF Init
<1>3. \A s \in Slot : ~acc[s].ready
  BY DEF Init, Blank
<1>4. {s \in used : acc[s].onoff = "online"} = {}
  BY DEF Init
<1>5. OnlineCountMatches
  BY <1>4, FS_EmptySet DEF Init, OnlineCountMatches, CalcOnlineCount
<1>6. ListTypes
  BY <1>1, <1>2 DEF Init, ListTypes
<1>7. PoolConsistent
  BY <1>1, <1>3 DEF Init, PoolConsistent
<1>8. Bound /\ CachesSound
  BY DEF Init, Bound, CachesSound
<1>9. WalkTypes /\ Walked
  BY ConstantsAssumption DEF Init, WalkTypes, Walked, Idle
<1> QED BY <1>5, <1>6, <1>7, <1>8, <1>9 DEF IInv, ListInv

\* Every step that releases an account, with the account states it starts
\* from.
Releases(s, ac) == s \in used /\ Kept(ac) /\ ReleaseInternal(s, ac)

LEMMA ReleaseSteps ==
    ASSUME ListInv, NEW s \in Slot
    PROVE  /\ Unregister(s) => Releases(s, ClearConflict(s))
           /\ Kick(s) => Releases(s, acc)
           /\ KickOfflineMoreThan(s) => Releases(s, acc)
<1>1. acc[s].ready => s \in used
  BY DEF ListInv, PoolConsistent
<1>2. Kept(acc) /\ Kept(ClearConflict(s))
  BY ConflictCleared
<1> QED BY <1>1, <1>2 DEF Unregister, Kick, KickOfflineMoreThan, Step, Releases

\* UnregisterByConnId's next match.
LEMMA NextLeft ==
    ASSUME ListInv, UnregisterByConnId
    PROVE  /\ First(Left) \in Left /\ \A t \in Left : First(Left) <= t
           /\ Releases(First(Left), ClearConflict(First(Left)))
<1>1. Left \in SUBSET Slot /\ Left # {} /\ Left \subseteq used
  BY DEF Left, ListInv, ListTypes, UnregisterByConnId
<1>2. First(Left) \in Left /\ \A t \in Left : First(Left) <= t
  BY <1>1, FirstFound
<1>3. Kept(ClearConflict(First(Left)))
  BY <1>1, <1>2, ConflictCleared
<1> QED BY <1>1, <1>2, <1>3 DEF Releases, UnregisterByConnId

LEMMA ListPreserved == ListInv /\ [Next]_vars => ListInv'
<1> SUFFICES ASSUME ListInv, [Next]_vars PROVE ListInv'
  OBVIOUS
<1>1. CASE \/ \E u \in Uid : LookupUid(u)
           \/ \E c \in Conn : LookupConnId(c)
           \/ \E i \in Uuid : LookupAccountByInnerUuid(i)
           \/ \E u \in Uid, c \in Conn : RegisterRefused(u, c)
  BY <1>1, LookupStep
<1>2. CASE \E u \in Uid, c \in Conn, i \in Uuid : Register(u, c, i)
  BY <1>2, RegisterNewStep, RegisterConflictStep, RegisterAgainStep
  DEF Register
<1>3. CASE \E s \in Slot : SetExtData(s)
  BY <1>3, ExtStep
<1>4. ASSUME NEW s \in Slot, NEW ac, Releases(s, ac) PROVE ListInv'
  BY <1>4, ReleaseStep DEF Releases
<1>5. CASE \E s \in Slot : Unregister(s) \/ Kick(s) \/ KickOfflineMoreThan(s)
  BY <1>4, <1>5, ReleaseSteps
<1>6. CASE UnregisterByConnId
  <2>1. First(Left) \in Slot
    BY <1>6, NextLeft DEF Left, ListInv, ListTypes
  <2> QED BY <1>4, <1>6, <2>1, NextLeft
<1>7. CASE \E s \in Slot : Offline(s) \/ CheckKeepAlive(s)
  BY <1>7, OfflineStep DEF Offline, CheckKeepAlive, Step
<1>8. ASSUME UNCHANGED <<unused, used, acc, onlineCount, byUid, byConn, byUuid>>
      PROVE  ListInv'
  BY <1>8, SameList DEF ListInv, ListTypes, CachesSound
<1>9. CASE \/ \E c \in Conn : StartWalk("unregister", c)
           \/ StartWalk("keepalive", 0) \/ StartWalk("kick", 0)
           \/ EndWalk \/ UNCHANGED vars
  BY <1>8, <1>9 DEF StartWalk, EndWalk, vars, maps
<1> QED BY <1>1, <1>2, <1>3, <1>5, <1>6, <1>7, <1>9 DEF Next

\* The walk's own state.
LEMMA WalkPreserved == IInv /\ [Next]_vars => WalkTypes' /\ Walked'
<1> SUFFICES ASSUME IInv, [Next]_vars PROVE WalkTypes' /\ Walked'
  OBVIOUS
<1>0. used \subseteq Slot /\ WalkTypes /\ Walked
  BY DEF IInv, ListInv, ListTypes
<1>1. Idle.op = "idle" /\ (walk = Idle => walk.op = "idle")
  BY DEF Idle
<1>2. ASSUME Call PROVE WalkTypes' /\ Walked'
  BY <1>0, <1>1, <1>2 DEF Call, WalkTypes, Walked
<1>3. CASE \/ \E u \in Uid : LookupUid(u)
           \/ \E c \in Conn : LookupConnId(c)
           \/ \E i \in Uuid : LookupAccountByInnerUuid(i)
           \/ \E u \in Uid, c \in Conn : RegisterRefused(u, c)
           \/ \E u \in Uid, c \in Conn, i \in Uuid : Register(u, c, i)
           \/ \E s \in Slot : SetExtData(s) \/ Unregister(s) \/ Kick(s)
                                \/ Offline(s)
  BY <1>2, <1>3 DEF LookupUid, LookupConnId, LookupAccountByInnerUuid,
     RegisterRefused, Register, RegisterNew, RegisterConflict, RegisterAgain,
     RegisterCall, SetExtData, Unregister, Kick, Offline
<1>4. ASSUME NEW op \in {"unregister", "keepalive", "kick"},
             NEW c \in Conn \cup {0}, StartWalk(op, c)
      PROVE  WalkTypes' /\ Walked'
  <2>1. walk' = [op |-> op, at |-> 1, conn |-> c] /\ used' = used
    BY <1>4 DEF StartWalk
  <2>2. WalkTypes'
    BY <2>1, ConstantsAssumption DEF WalkTypes
  <2>3. \A s \in used' : ~(s < walk'.at)
    BY <1>0, <2>1 DEF Slot
  <2> QED BY <2>2, <2>3 DEF Walked
<1>5. CASE \/ \E c \in Conn : StartWalk("unregister", c)
           \/ StartWalk("keepalive", 0) \/ StartWalk("kick", 0)
  BY <1>4, <1>5
<1>6. ASSUME NEW op \in {"keepalive", "kick"}, NEW s \in Slot, Step(op, s)
      PROVE  WalkTypes' /\ Walked'
  <2>1. walk' = [walk EXCEPT !.at = s + 1] /\ walk.op = op
    BY <1>6 DEF Step
  <2>2. s + 1 \in 1..(Size + 1)
    BY ConstantsAssumption DEF Slot
  <2>3. WalkTypes' /\ walk'.op = op
    BY <1>0, <2>1, <2>2 DEF WalkTypes
  <2> QED BY <2>3 DEF Walked
<1>7. CASE \E s \in Slot : CheckKeepAlive(s) \/ KickOfflineMoreThan(s)
  BY <1>6, <1>7 DEF CheckKeepAlive, KickOfflineMoreThan
<1>8. CASE UnregisterByConnId
  <2> DEFINE f == First(Left)
  <2>1. /\ f \in Left /\ \A t \in Left : f <= t
        /\ Releases(f, ClearConflict(f))
    BY <1>8, NextLeft DEF IInv
  <2>2. f \in used /\ f \in Slot
    BY <1>0, <2>1 DEF Left
  <2>3. /\ walk.op = "unregister" /\ walk' = [walk EXCEPT !.at = f + 1]
        /\ used' = used \ {f}
    BY <1>8 DEF UnregisterByConnId, Step, ReleaseInternal
  <2> HIDE DEF f
  <2>4. f + 1 \in 1..(Size + 1)
    BY <2>2, ConstantsAssumption DEF Slot
  <2>5. /\ WalkTypes' /\ walk'.at = f + 1 /\ walk'.conn = walk.conn
    BY <1>0, <2>3, <2>4 DEF WalkTypes
  <2>6. \A t \in Slot \ {f} : acc'[t].connid = acc[t].connid
    <3>1. \A t \in Slot : ClearConflict(f)[t].connid = acc[t].connid
      BY <2>1 DEF Releases, Kept
    <3>2. acc' = [ClearConflict(f) EXCEPT ![f].ready = FALSE,
                                          ![f].onoff = "offline"]
      BY <2>1 DEF Releases, ReleaseInternal
    <3>3. ClearConflict(f) \in [Slot -> Account]
      BY <2>1 DEF Releases, Kept
    <3> HIDE DEF ClearConflict
    <3> QED BY <2>2, <3>1, <3>2, <3>3
  <2>7. ASSUME NEW t \in used', t < f + 1
        PROVE  acc'[t].connid # walk.conn
    <3>1. t \in used /\ t # f /\ t \in Slot /\ t < f
      BY <1>0, <2>2, <2>3, <2>7 DEF Slot
    <3>2. t \notin Left
      BY <2>1, <2>2, <3>1 DEF Slot
    <3>3. acc[t].connid # walk.conn
      <4>1. CASE t >= walk.at
        BY <3>1, <3>2, <4>1 DEF Left
      <4>2. CASE ~(t >= walk.at)
        <5>1. walk.at \in Int /\ t \in Int
          BY <1>0, <3>1 DEF WalkTypes, Slot
        <5> QED BY <1>0, <2>3, <3>1, <4>2, <5>1 DEF Walked
      <4> QED BY <4>1, <4>2
    <3> QED BY <2>6, <3>1, <3>3
  <2> QED BY <2>5, <2>7 DEF Walked
<1>9. CASE EndWalk
  BY <1>9, ConstantsAssumption DEF EndWalk, Idle, WalkTypes, Walked
<1>10. CASE UNCHANGED vars
  BY <1>0, <1>10 DEF vars, WalkTypes, Walked
<1> QED BY <1>3, <1>5, <1>7, <1>8, <1>9, <1>10 DEF Next

\* The pool, the uid and connection maps and the online count are right in
\* every reachable state, whatever is kicked.
THEOREM Inductive == Spec => []IInv
<1>1. IInv /\ [Next]_vars => IInv'
  BY ListPreserved, WalkPreserved DEF IInv
<1> QED BY <1>1, InitHolds, PTL DEF Spec

\* Every variable keeps its type: ids, slots and walks stay inside the pool.
THEOREM TypesKept == Spec => []TypeOK
<1>1. IInv => TypeOK
  BY DEF IInv, ListInv, ListTypes, WalkTypes, TypeOK
<1> QED BY <1>1, Inductive, PTL

\* No slot is used twice or lost: Alloc and ReleaseInternal of the pool.
THEOREM PoolKept == Spec => []PoolConsistent
<1>1. IInv => PoolConsistent
  BY DEF IInv, ListInv
<1> QED BY <1>1, Inductive, PTL

\* GetByUid and GetByConnId never answer with an account that was released
\* or has another key.
THEOREM LookupsSound == Spec => []CachesSound
<1>1. IInv => CachesSound
  BY DEF IInv, ListInv
<1> QED BY <1>1, Inductive, PTL

\* GetOnlineCount returns the number of accounts online.
THEOREM CountsOnline == Spec => []OnlineCountMatches
<1>1. IInv => OnlineCountMatches
  BY DEF IInv, ListInv
<1> QED BY <1>1, Inductive, PTL

\* UnregisterByConnId leaves no account of the connection.
THEOREM EmptiesConnection == Spec => ConnectionEmptied
<1>1. ASSUME IInv, [Next]_vars, walk.op = "unregister", walk' = Idle
      PROVE  \A s \in used' : acc'[s].connid # walk.conn
  <2>1. Idle.op = "idle" /\ walk # Idle /\ walk' # walk
    BY <1>1 DEF Idle
  <2>2. CASE EndWalk
    <3>1. Left = {} /\ UNCHANGED <<used, acc>>
      BY <1>1, <2>2 DEF EndWalk
    <3>2. used \subseteq Slot /\ WalkTypes /\ Walked
      BY <1>1 DEF IInv, ListInv, ListTypes
    <3>3. \A s \in used : s \in Int /\ walk.at \in Int
      BY <3>2 DEF WalkTypes, Slot
    <3> QED BY <1>1, <3>1, <3>2, <3>3 DEF Left, Walked
  <2>3. CASE UnregisterByConnId
    <3>1. walk'.op = "unregister"
      BY <1>1, <2>3 DEF UnregisterByConnId, Step, IInv, WalkTypes
    <3> QED BY <1>1, <2>1, <3>1
  <2>4. ~Call /\ \A op, c : ~StartWalk(op, c)
    BY <2>1 DEF Call, StartWalk
  <2>5. \A s : ~CheckKeepAlive(s) /\ ~KickOfflineMoreThan(s)
    BY <1>1 DEF CheckKeepAlive, KickOfflineMoreThan, Step
  <2>6. /\ \A u : ~LookupUid(u) /\ \A c : ~LookupConnId(c)
        /\ \A i : ~LookupAccountByInnerUuid(i)
        /\ \A u, c : ~RegisterRefused(u, c) /\ \A i : ~Register(u, c, i)
        /\ \A s : ~SetExtData(s) /\ ~Unregister(s) /\ ~Kick(s) /\ ~Offline(s)
    BY <2>4 DEF LookupUid, LookupConnId, LookupAccountByInnerUuid,
       RegisterRefused, Register, RegisterNew, RegisterConflict,
       RegisterAgain, RegisterCall, SetExtData, Unregister, Kick, Offline
  <2> QED BY <1>1, <2>1, <2>2, <2>3, <2>4, <2>5, <2>6 DEF Next, vars
<1>2. IInv /\ [Next]_vars =>
        [walk.op = "unregister" /\ walk' = Idle
           => \A s \in used' : acc'[s].connid # walk.conn]_vars
  BY <1>1
<1> QED BY <1>2, Inductive, PTL DEF Spec, ConnectionEmptied

-----------------------------------------------------------------------------
(* Conflicts.                                                              *)

\* Steps that touch no conflict, uid or connection.
LEMMA ConflictSame ==
    ASSUME ListInv, Sound, used' = used,
           \A t \in used : /\ acc'[t].uid = acc[t].uid
                           /\ acc'[t].connid = acc[t].connid
                           /\ acc'[t].conflict = acc[t].conflict
    PROVE  Sound'
BY DEF Sound, ConflictMutual, OneConflictPerUid, Linked, ConvertId

\* A release that clears the partner's side.
LEMMA ConflictReleased ==
    ASSUME ListInv, Sound, NEW s \in used, used' = used \ {s},
           \A t \in used' :
              /\ acc'[t].uid = acc[t].uid /\ acc'[t].connid = acc[t].connid
              /\ acc'[t].conflict = IF acc[s].conflict = ConvertId(t) THEN 0
                                    ELSE acc[t].conflict
    PROVE  Sound'
<1>1. /\ used \subseteq Slot
      /\ \A t \in used : acc[t].conflict \in Keyid \cup {0}
  BY DEF ListInv, ListTypes, Account
<1>2. \A t \in used : /\ ConvertId(t) \in Keyid /\ ConvertId(t) > 0
                      /\ ConvertId(ConvertId(t)) = t
  BY <1>1, Keys
<1>3. \A k \in Keyid : ConvertId(ConvertId(k)) = k /\ k > 0
  BY Keys
<1>4. \A t \in used : acc[t].conflict > 0 =>
         /\ Linked(t, ConvertId(acc[t].conflict))
         /\ ConvertId(acc[t].conflict) \in used
  BY DEF Sound, ConflictMutual, Linked
<1>5. \A t, r \in used : t # r /\ acc[t].uid = acc[r].uid =>
         acc[t].conflict = ConvertId(r)
  BY DEF Sound, OneConflictPerUid
<1>6. ASSUME NEW t \in used', acc'[t].conflict > 0
      PROVE  Linked(t, ConvertId(acc[t].conflict))'
  <2> DEFINE r == ConvertId(acc[t].conflict)
  <2>1. /\ t \in used /\ t # s /\ acc'[t].conflict = acc[t].conflict
        /\ acc[s].conflict # ConvertId(t)
    BY <1>6
  <2>2. Linked(t, r) /\ r \in used
    BY <1>4, <1>6, <2>1
  <2>3. acc[r].conflict = ConvertId(t) /\ r # t
        /\ acc[r].uid = acc[t].uid /\ acc[r].connid # acc[t].connid
    BY <2>2 DEF Linked
  <2> HIDE DEF r
  <2>4. r # s /\ r \in used'
    BY <2>1, <2>2, <2>3
  <2>5. acc[s].conflict # ConvertId(r)
    <3> SUFFICES ASSUME acc[s].conflict = ConvertId(r) PROVE FALSE
      OBVIOUS
    <3>1. Linked(s, r)
      BY <1>2, <1>4, <2>2
    <3>2. ConvertId(s) = ConvertId(t)
      BY <2>3, <3>1 DEF Linked
    <3> QED BY <1>2, <2>1, <3>2
  <2>6. /\ acc'[r].conflict = ConvertId(t)
        /\ acc'[r].uid = acc'[t].uid /\ acc'[r].connid # acc'[t].connid
    BY <2>1, <2>3, <2>4, <2>5
  <2>7. r = ConvertId(acc'[t].conflict)
    BY <2>1 DEF r
  <2> QED BY <2>3, <2>4, <2>6, <2>7 DEF Linked
<1>7. ASSUME NEW t \in used', NEW r \in used', t # r,
             acc'[t].uid = acc'[r].uid
      PROVE  acc'[t].conflict = ConvertId(r)
  <2>1. t \in used /\ r \in used /\ r # s /\ acc[t].conflict = ConvertId(r)
    BY <1>5, <1>7
  <2>2. acc[s].conflict # ConvertId(t)
    <3> SUFFICES ASSUME acc[s].conflict = ConvertId(t) PROVE FALSE
      OBVIOUS
    <3>1. Linked(s, t)
      BY <1>2, <1>4, <2>1
    <3>2. ConvertId(s) = ConvertId(r)
      BY <2>1, <3>1 DEF Linked
    <3> QED BY <1>2, <2>1, <3>2
  <2> QED BY <2>1, <2>2
<1> QED BY <1>6, <1>7 DEF Sound, ConflictMutual, OneConflictPerUid

\* The steps that release an account are such releases.
LEMMA ReleaseConflict ==
    ASSUME ListInv, Sound, NEW s \in Slot,
           \/ Releases(s, ClearConflict(s))
           \/ acc[s].conflict = 0 /\ Releases(s, acc)
    PROVE  Sound'
<1>1. acc \in [Slot -> Account] /\ s \in used /\ used \subseteq Slot
  BY DEF ListInv, ListTypes, Releases
<1>2. acc[s].conflict \in Keyid \cup {0}
  BY <1>1 DEF Account
<1>3. \A t \in Slot : ConvertId(t) \in Keyid /\ ConvertId(t) > 0
                        /\ ConvertId(ConvertId(t)) = t
  BY Keys
<1>4. ASSUME NEW ac, Releases(s, ac),
             \A t \in Slot \ {s} : ac[t].conflict =
                IF acc[s].conflict = ConvertId(t) THEN 0 ELSE acc[t].conflict
      PROVE  Sound'
  <2>1. /\ Kept(ac) /\ used' = used \ {s}
        /\ acc' = [ac EXCEPT ![s].ready = FALSE, ![s].onoff = "offline"]
    BY <1>4 DEF Releases, ReleaseInternal
  <2>2. \A t \in Slot \ {s} : acc'[t] = ac[t]
    BY <1>1, <2>1 DEF Kept
  <2>3. \A t \in used' :
           /\ acc'[t].uid = acc[t].uid /\ acc'[t].connid = acc[t].connid
           /\ acc'[t].conflict = IF acc[s].conflict = ConvertId(t) THEN 0
                                 ELSE acc[t].conflict
    BY <1>1, <1>4, <2>1, <2>2 DEF Kept
  <2>4. used' = used \ {s}
    BY <2>1
  <2> QED BY ONLY ListInv, Sound, <1>1, <2>3, <2>4, ConflictReleased
<1>5. CASE acc[s].conflict = 0 /\ Releases(s, acc)
  BY <1>3, <1>4, <1>5
<1>6. CASE Releases(s, ClearConflict(s))
  <2>1. CASE acc[s].conflict > 0
    <3> DEFINE p == ConvertId(acc[s].conflict)
    <3>1. p \in Slot /\ ConvertId(p) = acc[s].conflict
      BY <1>2, <2>1, Keys
    <3>2. ClearConflict(s) =
             [acc EXCEPT ![s].conflict = 0, ![p].conflict = 0]
      BY <2>1 DEF ClearConflict
    <3> HIDE DEF p
    <3>3. \A t \in Slot \ {s} : ClearConflict(s)[t].conflict =
             IF t = p THEN 0 ELSE acc[t].conflict
      BY <1>1, <3>1, <3>2 DEF Account
    <3>4. \A t \in Slot : acc[s].conflict = ConvertId(t) <=> t = p
      BY <1>3, <3>1
    <3>5. \A t \in Slot \ {s} : ClearConflict(s)[t].conflict =
             IF acc[s].conflict = ConvertId(t) THEN 0 ELSE acc[t].conflict
      BY <3>3, <3>4
    <3> QED BY <1>4, <1>6, <3>5
  <2>2. CASE ~(acc[s].conflict > 0)
    <3>1. ClearConflict(s) = acc
      BY <2>2 DEF ClearConflict
    <3>2. \A t \in Slot : acc[s].conflict # ConvertId(t)
      BY <1>3, <2>2
    <3> QED BY <1>4, <1>6, <3>1, <3>2
  <2> QED BY <2>1, <2>2
<1> QED BY <1>5, <1>6

\* A registration that finds nobody of the uid.
LEMMA NewConflict ==
    ASSUME ListInv, Sound, NEW u \in Uid, NEW c \in Conn, NEW i \in Uuid,
           RegisterNew(u, c, i)
    PROVE  Sound'
<1> DEFINE s == SafeAlloc
           a == Ready(Blank, u, c, i)
<1>1. /\ Alloc /\ GetByUid(u) = 0
      /\ acc' = [acc EXCEPT ![s] = a] /\ used' = used \cup {s}
  BY DEF RegisterNew, Alloc
<1>2. s \in Slot \ used
  BY <1>1, AllocFresh
<1>3. \A t \in used : acc[t].uid # u
  BY <1>1, UidFound
<1>4. a.uid = u /\ a.conflict = 0
  BY ReadyFields, BlankType
<1> HIDE DEF s, a
<1>5. acc \in [Slot -> Account] /\ used \subseteq Slot
  BY DEF ListInv, ListTypes
<1>6. acc'[s] = a /\ \A t \in used : acc'[t] = acc[t]
  BY <1>1, <1>2, <1>5
<1>7. ASSUME NEW t \in used', acc'[t].conflict > 0
      PROVE  Linked(t, ConvertId(acc[t].conflict))'
  <2>1. t \in used /\ acc'[t] = acc[t]
    BY <1>1, <1>4, <1>6, <1>7
  <2>2. Linked(t, ConvertId(acc[t].conflict))
    BY <1>7, <2>1 DEF Sound, ConflictMutual
  <2> QED BY <1>1, <1>6, <2>1, <2>2 DEF Linked
<1>8. OneConflictPerUid'
  BY <1>1, <1>3, <1>4, <1>6 DEF Sound, OneConflictPerUid
<1> QED BY <1>7, <1>8 DEF Sound, ConflictMutual

\* A registration that marks a conflict.
LEMMA MarkedConflict ==
    ASSUME ListInv, Sound, NEW u \in Uid, NEW c \in Conn, NEW i \in Uuid,
           RegisterConflict(u, c, i)
    PROVE  Sound'
<1> DEFINE s == SafeAlloc
           g == GetByUid(u)
           b == Ready(Blank, u, c, i)
           a == [b EXCEPT !.conflict = ConvertId(g)]
<1>1. /\ Alloc /\ g # 0 /\ acc[g].conflict = 0 /\ acc[g].connid # c
      /\ acc' = [acc EXCEPT ![s] = a, ![g].conflict = ConvertId(s)]
      /\ used' = used \cup {s}
  BY DEF RegisterConflict, Alloc
<1>2. s \in Slot \ used
  BY <1>1, AllocFresh
<1>3. g \in used /\ acc[g].uid = u
  BY <1>1, UidFound
<1>4. b \in Account /\ b.uid = u /\ b.connid = c
  BY ReadyFields, BlankType
<1> HIDE DEF s, g, b
<1>5. a.uid = u /\ a.connid = c /\ a.conflict = ConvertId(g)
  BY <1>4 DEF Account
<1> HIDE DEF a
<1>6. acc \in [Slot -> Account] /\ used \subseteq Slot
  BY DEF ListInv, ListTypes
<1>7. /\ acc'[s] = a
      /\ acc'[g] = [acc[g] EXCEPT !.conflict = ConvertId(s)]
      /\ \A t \in used \ {g} : acc'[t] = acc[t]
  BY <1>1, <1>2, <1>3, <1>6
<1>8. /\ acc'[g].uid = u /\ acc'[g].connid = acc[g].connid
      /\ acc'[g].conflict = ConvertId(s)
  BY <1>3, <1>6, <1>7 DEF Account
<1>9. \A t \in Slot : ConvertId(t) > 0 /\ ConvertId(ConvertId(t)) = t
  BY Keys
<1>10. \A t \in used \ {g} : acc[t].uid # u
  BY <1>1, <1>3, <1>6, <1>9 DEF Sound, OneConflictPerUid
<1>11. ASSUME NEW t \in used', acc'[t].conflict > 0
       PROVE  Linked(t, ConvertId(acc[t].conflict))'
  <2>1. CASE t = s
    <3>1. ConvertId(acc'[t].conflict) = g
      BY <1>3, <1>5, <1>6, <1>7, <1>9, <2>1
    <3> QED BY <1>1, <1>2, <1>3, <1>5, <1>7, <1>8, <2>1, <3>1 DEF Linked
  <2>2. CASE t = g
    <3>1. ConvertId(acc'[t].conflict) = s
      BY <1>2, <1>8, <1>9, <2>2
    <3> QED BY <1>1, <1>2, <1>3, <1>5, <1>7, <1>8, <2>2, <3>1 DEF Linked
  <2>3. CASE t \in used \ {g}
    <3> DEFINE r == ConvertId(acc[t].conflict)
    <3>1. acc'[t] = acc[t] /\ Linked(t, r)
      BY <1>7, <1>11, <2>3 DEF Sound, ConflictMutual
    <3>2. ConvertId(acc'[t].conflict) = r
      BY <3>1
    <3> HIDE DEF r
    <3>3. r \in used /\ acc[r].conflict = ConvertId(t) /\ t \in Slot
      BY <1>6, <2>3, <3>1 DEF Linked
    <3>4. r # g
      BY <1>1, <1>9, <3>3
    <3>5. acc'[r] = acc[r] /\ r \in used'
      BY <1>1, <1>7, <3>3, <3>4
    <3> QED BY <3>1, <3>2, <3>5 DEF Linked
  <2> QED BY <1>1, <2>1, <2>2, <2>3
<1>12. ASSUME NEW t \in used', NEW r \in used', t # r,
              acc'[t].uid = acc'[r].uid
       PROVE  acc'[t].conflict = ConvertId(r)
  <2>1. CASE t \in {s, g} /\ r \in {s, g}
    <3>1. CASE t = s /\ r = g
      BY <1>5, <1>7, <3>1
    <3>2. CASE t = g /\ r = s
      BY <1>8, <3>2
    <3> QED BY <1>12, <2>1, <3>1, <3>2
  <2>2. CASE t \in used \ {g} /\ r \in used \ {g}
    BY <1>7, <1>12, <2>2 DEF Sound, OneConflictPerUid
  <2>3. CASE t \in {s, g} /\ r \in used \ {g}
    BY <1>5, <1>7, <1>8, <1>10, <1>12, <2>3
  <2>4. CASE t \in used \ {g} /\ r \in {s, g}
    BY <1>5, <1>7, <1>8, <1>10, <1>12, <2>4
  <2> QED BY <1>1, <2>1, <2>2, <2>3, <2>4
<1> QED BY <1>11, <1>12 DEF Sound, ConflictMutual, OneConflictPerUid

\* A second registration from the same connection keeps uid, connection and
\* conflict.
LEMMA AgainConflict ==
    ASSUME ListInv, Sound, NEW u \in Uid, NEW c \in Conn, NEW i \in Uuid,
           RegisterAgain(u, c, i)
    PROVE  Sound'
<1> DEFINE g == GetByUid(u)
           b == Ready(acc[g], u, c, i)
<1>1. /\ g # 0 /\ acc[g].connid = c /\ acc[g].conflict = 0
      /\ acc' = [acc EXCEPT ![g] = b] /\ used' = used
  BY DEF RegisterAgain
<1>2. g \in used /\ acc[g].uid = u
  BY <1>1, UidFound
<1>3. acc \in [Slot -> Account] /\ used \subseteq Slot
  BY DEF ListInv, ListTypes
<1>4. b.uid = u /\ b.connid = c /\ b.conflict = acc[g].conflict
  BY <1>2, <1>3, ReadyFields
<1> HIDE DEF g, b
<1>5. \A t \in used : /\ acc'[t].uid = acc[t].uid
                      /\ acc'[t].connid = acc[t].connid
                      /\ acc'[t].conflict = acc[t].conflict
  BY <1>1, <1>2, <1>3, <1>4
<1>6. used' = used
  BY <1>1
<1> QED BY ONLY ListInv, Sound, <1>5, <1>6, ConflictSame

\* Going offline and attaching data change neither.
LEMMA FieldConflict ==
    ASSUME ListInv, Sound, NEW s \in Slot, SetExtData(s) \/ GoOffline(s)
    PROVE  Sound'
<1>1. acc \in [Slot -> Account] /\ used \subseteq Slot
  BY DEF ListInv, ListTypes
<1>2. \A t \in used : /\ acc'[t].uid = acc[t].uid
                      /\ acc'[t].connid = acc[t].connid
                      /\ acc'[t].conflict = acc[t].conflict
  BY <1>1 DEF SetExtData, GoOffline, Account
<1>3. used' = used
  BY DEF SetExtData, GoOffline
<1> QED BY ONLY ListInv, Sound, <1>2, <1>3, ConflictSame

\* Only the kick of an account in conflict tears conflicts.
LEMMA ConflictPreserved ==
    ASSUME ListInv, Sound, [Next]_vars
    PROVE  Sound' \/ Tears
<1>1. ASSUME UNCHANGED <<used, acc>> PROVE Sound'
  BY <1>1 DEF Sound, ConflictMutual, OneConflictPerUid, Linked
<1>2. CASE \/ \E u \in Uid : LookupUid(u)
           \/ \E c \in Conn : LookupConnId(c)
           \/ \E i \in Uuid : LookupAccountByInnerUuid(i)
           \/ \E u \in Uid, c \in Conn : RegisterRefused(u, c)
  BY <1>1, <1>2 DEF LookupUid, LookupConnId, LookupAccountByInnerUuid,
     RegisterRefused
<1>3. CASE \E u \in Uid, c \in Conn, i \in Uuid : Register(u, c, i)
  BY <1>3, NewConflict, MarkedConflict, AgainConflict DEF Register
<1>4. CASE \E s \in Slot : SetExtData(s) \/ Offline(s) \/ CheckKeepAlive(s)
  BY <1>4, FieldConflict DEF Offline, CheckKeepAlive
<1>5. CASE \E s \in Slot : Unregister(s) \/ Kick(s) \/ KickOfflineMoreThan(s)
  <2>1. PICK s \in Slot : Unregister(s) \/ Kick(s) \/ KickOfflineMoreThan(s)
    BY <1>5
  <2>2. Unregister(s) => Releases(s, ClearConflict(s))
    BY ReleaseSteps
  <2>3. Kick(s) \/ KickOfflineMoreThan(s) => Releases(s, acc)
    BY ReleaseSteps
  <2>4. acc[s].conflict > 0 \/ acc[s].conflict = 0
    <3>1. acc[s].conflict \in Keyid \cup {0}
      BY DEF ListInv, ListTypes, Account
    <3> QED BY <3>1, Keys
  <2>5. CASE Unregister(s)
    BY <2>2, <2>5, ReleaseConflict
  <2>6. CASE (Kick(s) \/ KickOfflineMoreThan(s)) /\ acc[s].conflict = 0
    BY <2>3, <2>6, ReleaseConflict
  <2>7. CASE (Kick(s) \/ KickOfflineMoreThan(s)) /\ acc[s].conflict > 0
    BY <2>7 DEF Tears
  <2> QED BY <2>1, <2>4, <2>5, <2>6, <2>7
<1>6. CASE UnregisterByConnId
  <2>1. First(Left) \in Slot
    BY <1>6, NextLeft DEF Left, ListInv, ListTypes
  <2> QED BY <1>6, <2>1, NextLeft, ReleaseConflict
<1>7. CASE \/ \E c \in Conn : StartWalk("unregister", c)
           \/ StartWalk("keepalive", 0) \/ StartWalk("kick", 0)
           \/ EndWalk \/ UNCHANGED vars
  BY <1>1, <1>7 DEF StartWalk, EndWalk, vars
<1> QED BY <1>2, <1>3, <1>4, <1>5, <1>6, <1>7 DEF Next

\* For every pool size, the two sides of a conflict stay registered, for one
\* uid from two connections, and name each other, and no uid gets a third
\* account or a second one without a conflict, until a kick releases an account
\* in conflict (Register, Unregister and UnregisterByConnId against Kick,
\* KickByUid and KickOfflineMoreThan).
THEOREM OnlyKicksTear == Spec => TornByKickOnly
<1>1. Init => Sound
  BY DEF Init, Sound, ConflictMutual, OneConflictPerUid
<1>2. IInv /\ [Next]_vars => [Sound => Sound' \/ Tears]_vars
  BY ConflictPreserved DEF IInv
<1> QED BY <1>1, <1>2, Inductive, PTL DEF Spec, TornByKickOnly

-----------------------------------------------------------------------------
(* Accounts implements Registry.                                           *)

\* Two registered accounts are two logins.
LEMMA LoginsDiffer ==
    ASSUME ListInv, Sound, NEW s \in used, NEW t \in used,
           Login(s) = Login(t)
    PROVE  s = t
<1> SUFFICES ASSUME s # t PROVE FALSE
  OBVIOUS
<1>1. acc[s].uid = acc[t].uid /\ acc[s].connid = acc[t].connid
  BY DEF Login
<1>2. acc[s].conflict = ConvertId(t)
  BY <1>1 DEF Sound, OneConflictPerUid
<1>3. t \in Slot
  BY DEF ListInv, ListTypes
<1>4. ConvertId(t) > 0 /\ ConvertId(ConvertId(t)) = t
  BY <1>3, Keys
<1>5. Linked(s, t)
  <2>1. Linked(s, ConvertId(acc[s].conflict))
    BY <1>2, <1>4 DEF Sound, ConflictMutual
  <2> QED BY ONLY <1>2, <1>4, <2>1
<1> QED BY <1>1, <1>5 DEF Linked

\* The connections of a uid.
LEMMA ConnsAre ==
    ASSUME ListInv, NEW u \in Uid, NEW c \in Conn
    PROVE  c \in Lobby!ConnsOf(u) <=>
               \E s \in used : acc[s].uid = u /\ acc[s].connid = c
<1>1. c \in Lobby!ConnsOf(u) <=> \E s \in used : <<u, c>> = Login(s)
  BY DEF Lobby!ConnsOf, Logins
<1>2. \A s : <<u, c>> = Login(s) <=> acc[s].uid = u /\ acc[s].connid = c
  BY DEF Login
<1> QED BY ONLY <1>1, <1>2

\* Steps after which everybody is where they were.
LEMMA LobbySame ==
    ASSUME used' = used,
           \A t \in used : /\ acc'[t].uid = acc[t].uid
                           /\ acc'[t].connid = acc[t].connid
                           /\ acc'[t].onoff = acc[t].onoff
    PROVE  UNCHANGED Lobby!vars
<1>1. \A t \in used : Login(t)' = Login(t)
  BY DEF Login
<1>2. Logins' = Logins
  BY <1>1 DEF Logins, Login
<1>3. Online' = Online
  BY <1>1 DEF Online, Login
<1> QED BY <1>2, <1>3 DEF Lobby!vars

\* A new account, for a uid that has at most one other connection.
LEMMA LobbyGrows ==
    ASSUME ListInv, NEW s, NEW u \in Uid, NEW c \in Conn, s \notin used,
           used' = used \cup {s},
           \A t \in used : /\ acc'[t].uid = acc[t].uid
                           /\ acc'[t].connid = acc[t].connid
                           /\ acc'[t].onoff = acc[t].onoff,
           acc'[s].uid = u, acc'[s].connid = c, acc'[s].onoff = "online",
           \A t \in used : acc[t].uid = u => acc[t].connid # c,
           \A t, r \in used : acc[t].uid = u /\ acc[r].uid = u => t = r
    PROVE  Lobby!Join(u, c)
<1>1. /\ \A t \in used : /\ Login(t)' = Login(t)
                         /\ acc'[t].onoff = acc[t].onoff
      /\ Login(s)' = <<u, c>>
  BY DEF Login
<1>2. Logins' = Logins \cup {<<u, c>>}
  <2>1. Logins' = {<<acc'[t].uid, acc'[t].connid>> : t \in used \cup {s}}
    BY DEF Logins, Login
  <2>2. Logins = {<<acc[t].uid, acc[t].connid>> : t \in used}
    BY DEF Logins, Login
  <2> QED BY <2>1, <2>2
<1>3. Online' = Online \cup {<<u, c>>}
  <2>1. Online' = {<<acc'[t].uid, acc'[t].connid>> :
                       t \in {r \in used \cup {s} : acc'[r].onoff = "online"}}
    BY DEF Online, Login
  <2>2. Online = {<<acc[t].uid, acc[t].connid>> :
                      t \in {r \in used : acc[r].onoff = "online"}}
    BY DEF Online, Login
  <2> QED BY <2>1, <2>2
<1>4. c \notin Lobby!ConnsOf(u)
  BY ConnsAre
<1>5. ASSUME NEW d \in Lobby!ConnsOf(u), NEW e \in Lobby!ConnsOf(u)
      PROVE  d = e
  <2>1. d \in Conn /\ e \in Conn
    BY DEF Lobby!ConnsOf
  <2>2. PICK t \in used : acc[t].uid = u /\ acc[t].connid = d
    BY <1>5, <2>1, ConnsAre
  <2>3. PICK r \in used : acc[r].uid = u /\ acc[r].connid = e
    BY <1>5, <2>1, ConnsAre
  <2> QED BY <2>2, <2>3
<1> QED BY <1>2, <1>3, <1>4, <1>5 DEF Lobby!Join

\* A release takes one login away.
LEMMA LobbyShrinks ==
    ASSUME ListInv, Sound, NEW s \in used, NEW ac, Kept(ac),
           ReleaseInternal(s, ac)
    PROVE  Lobby!Leave(acc[s].uid, acc[s].connid)
<1>1. /\ acc' = [ac EXCEPT ![s].ready = FALSE, ![s].onoff = "offline"]
      /\ used' = used \ {s} /\ used \subseteq Slot
  BY DEF ReleaseInternal, ListInv, ListTypes
<1>2. \A t \in used \ {s} : /\ acc'[t].uid = acc[t].uid
                            /\ acc'[t].connid = acc[t].connid
                            /\ acc'[t].onoff = acc[t].onoff
  <2>1. \A t \in used \ {s} : acc'[t] = ac[t]
    BY <1>1 DEF Kept
  <2> QED BY <1>1, <2>1 DEF Kept
<1>3. \A t \in used \ {s} : Login(t) # Login(s)
  BY LoginsDiffer
<1> DEFINE p == <<acc[s].uid, acc[s].connid>>
<1>4. \A t \in used \ {s} : <<acc'[t].uid, acc'[t].connid>> =
          <<acc[t].uid, acc[t].connid>> /\ <<acc[t].uid, acc[t].connid>> # p
  BY <1>2, <1>3 DEF Login
<1>5. Logins' = Logins \ {p}
  <2>1. Logins' = {<<acc'[t].uid, acc'[t].connid>> : t \in used \ {s}}
    BY <1>1 DEF Logins, Login
  <2>2. Logins = {<<acc[t].uid, acc[t].connid>> : t \in used}
    BY DEF Logins, Login
  <2> QED BY ONLY <1>4, <2>1, <2>2
<1>6. Online' = Online \ {p}
  <2>1. Online' = {<<acc'[t].uid, acc'[t].connid>> :
                       t \in {r \in used \ {s} : acc'[r].onoff = "online"}}
    BY <1>1 DEF Online, Login
  <2>2. Online = {<<acc[t].uid, acc[t].connid>> :
                      t \in {r \in used : acc[r].onoff = "online"}}
    BY DEF Online, Login
  <2> QED BY ONLY <1>2, <1>4, <2>1, <2>2
<1>7. p \in Logins
  BY DEF Logins, Login
<1> QED BY <1>5, <1>6, <1>7 DEF Lobby!Leave

\* An account goes offline.
LEMMA LobbyDrops ==
    ASSUME ListInv, Sound, NEW s \in used, GoOffline(s)
    PROVE  \/ Lobby!Drop(acc[s].uid, acc[s].connid)
           \/ UNCHANGED Lobby!vars
<1>1. /\ acc' = [acc EXCEPT ![s].onoff = "offline"] /\ used' = used
      /\ acc \in [Slot -> Account] /\ used \subseteq Slot
  BY DEF GoOffline, ListInv, ListTypes
<1>2. /\ \A t \in used : /\ acc'[t].uid = acc[t].uid
                         /\ acc'[t].connid = acc[t].connid
      /\ \A t \in used \ {s} : acc'[t].onoff = acc[t].onoff
      /\ acc'[s].onoff = "offline"
  BY <1>1 DEF Account
<1>3. CASE acc[s].onoff # "online"
  <2> DEFINE on == {t \in used : acc[t].onoff = "online"}
  <2>1. on' = on
    BY <1>1, <1>2, <1>3
  <2>2. Online' = {<<acc'[t].uid, acc'[t].connid>> : t \in on'}
    BY DEF Online, Login
  <2>3. Online = {<<acc[t].uid, acc[t].connid>> : t \in on}
    BY DEF Online, Login
  <2>4. \A t \in on : t \in used
    OBVIOUS
  <2> HIDE DEF on
  <2>5. Online' = Online
    BY <1>2, <2>1, <2>2, <2>3, <2>4
  <2>6. Logins' = Logins
    BY <1>1, <1>2 DEF Logins, Login
  <2> QED BY <2>5, <2>6 DEF Lobby!vars
<1>4. CASE acc[s].onoff = "online"
  <2> DEFINE p == <<acc[s].uid, acc[s].connid>>
  <2>1. \A t \in used \ {s} : <<acc[t].uid, acc[t].connid>> # p
    BY LoginsDiffer DEF Login
  <2>2. Online' = {<<acc'[t].uid, acc'[t].connid>> :
                       t \in {r \in used : acc'[r].onoff = "online"}}
    BY <1>1 DEF Online, Login
  <2>3. Online = {<<acc[t].uid, acc[t].connid>> :
                      t \in {r \in used : acc[r].onoff = "online"}}
    BY DEF Online, Login
  <2>4. Online' = Online \ {p}
    BY ONLY <1>2, <2>1, <2>2, <2>3
  <2>5. Logins' = Logins
    BY <1>1, <1>2 DEF Logins, Login
  <2>6. p \in Online
    BY <1>4 DEF Online, Login
  <2> QED BY <2>4, <2>5, <2>6 DEF Lobby!Drop
<1> QED BY <1>3, <1>4

\* Online puts an account online.
LEMMA ReadyOnline ==
    ASSUME NEW a \in Account, NEW u \in Uid, NEW c \in Conn, NEW i \in Uuid
    PROVE  Ready(a, u, c, i).onoff = "online"
BY DEF Ready, Account

\* A registration that finds nobody of the uid.
LEMMA NewJoins ==
    ASSUME ListInv, NEW u \in Uid, NEW c \in Conn, NEW i \in Uuid,
           RegisterNew(u, c, i)
    PROVE  Lobby!Join(u, c)
<1> DEFINE s == SafeAlloc
           a == Ready(Blank, u, c, i)
<1>1. /\ Alloc /\ GetByUid(u) = 0
      /\ acc' = [acc EXCEPT ![s] = a] /\ used' = used \cup {s}
  BY DEF RegisterNew, Alloc
<1>2. s \in Slot \ used
  BY <1>1, AllocFresh
<1>3. \A t \in used : acc[t].uid # u
  BY <1>1, UidFound
<1>4. a.uid = u /\ a.connid = c /\ a.onoff = "online"
  BY ReadyFields, BlankType, ReadyOnline
<1> HIDE DEF s, a
<1>5. acc \in [Slot -> Account] /\ used \subseteq Slot
  BY DEF ListInv, ListTypes
<1>6. acc'[s] = a /\ \A t \in used : acc'[t] = acc[t]
  BY <1>1, <1>2, <1>5
<1>7. /\ \A t \in used : /\ acc'[t].uid = acc[t].uid
                         /\ acc'[t].connid = acc[t].connid
                         /\ acc'[t].onoff = acc[t].onoff
      /\ acc'[s].uid = u /\ acc'[s].connid = c /\ acc'[s].onoff = "online"
      /\ \A t \in used : acc[t].uid = u => acc[t].connid # c
      /\ \A t, r \in used : acc[t].uid = u /\ acc[r].uid = u => t = r
      /\ s \notin used /\ used' = used \cup {s}
  BY ONLY <1>1, <1>2, <1>3, <1>4, <1>6
<1> QED BY ONLY ListInv, u \in Uid, c \in Conn, <1>7, LobbyGrows

\* A registration that marks a conflict: it finds the only account of the uid.
LEMMA ConflictJoins ==
    ASSUME ListInv, Sound, NEW u \in Uid, NEW c \in Conn, NEW i \in Uuid,
           RegisterConflict(u, c, i)
    PROVE  Lobby!Join(u, c)
<1> DEFINE s == SafeAlloc
           g == GetByUid(u)
           b == Ready(Blank, u, c, i)
           a == [b EXCEPT !.conflict = ConvertId(g)]
<1>1. /\ Alloc /\ g # 0 /\ acc[g].conflict = 0 /\ acc[g].connid # c
      /\ acc' = [acc EXCEPT ![s] = a, ![g].conflict = ConvertId(s)]
      /\ used' = used \cup {s}
  BY DEF RegisterConflict, Alloc
<1>2. s \in Slot \ used
  BY <1>1, AllocFresh
<1>3. g \in used /\ acc[g].uid = u
  BY <1>1, UidFound
<1>4. b \in Account /\ b.uid = u /\ b.connid = c /\ b.onoff = "online"
  BY ReadyFields, BlankType, ReadyOnline
<1> HIDE DEF s, g, b
<1>5. a.uid = u /\ a.connid = c /\ a.onoff = "online"
  BY <1>4 DEF Account
<1> HIDE DEF a
<1>6. acc \in [Slot -> Account] /\ used \subseteq Slot
  BY DEF ListInv, ListTypes
<1>7. /\ acc'[s] = a
      /\ acc'[g] = [acc[g] EXCEPT !.conflict = ConvertId(s)]
      /\ \A t \in used \ {g} : acc'[t] = acc[t]
  BY <1>1, <1>2, <1>3, <1>6
<1>8. /\ acc'[g].uid = acc[g].uid /\ acc'[g].connid = acc[g].connid
      /\ acc'[g].onoff = acc[g].onoff
  BY <1>3, <1>6, <1>7 DEF Account
<1>9. \A t \in Slot : ConvertId(t) > 0
  BY Keys
<1>10. \A t \in used \ {g} : acc[t].uid # u
  BY <1>1, <1>3, <1>6, <1>9 DEF Sound, OneConflictPerUid
<1>11. /\ \A t \in used : /\ acc'[t].uid = acc[t].uid
                          /\ acc'[t].connid = acc[t].connid
                          /\ acc'[t].onoff = acc[t].onoff
       /\ acc'[s].uid = u /\ acc'[s].connid = c /\ acc'[s].onoff = "online"
       /\ \A t \in used : acc[t].uid = u => acc[t].connid # c
       /\ \A t, r \in used : acc[t].uid = u /\ acc[r].uid = u => t = r
       /\ s \notin used /\ used' = used \cup {s}
  BY ONLY <1>1, <1>2, <1>5, <1>7, <1>8, <1>10
<1> QED BY ONLY ListInv, u \in Uid, c \in Conn, <1>11, LobbyGrows

\* A second registration from the same connection.
LEMMA AgainRejoins ==
    ASSUME ListInv, Sound, NEW u \in Uid, NEW c \in Conn, NEW i \in Uuid,
           RegisterAgain(u, c, i)
    PROVE  Lobby!Rejoin(u, c)
<1> DEFINE g == GetByUid(u)
           b == Ready(acc[g], u, c, i)
<1>1. /\ g # 0 /\ acc[g].connid = c /\ acc[g].conflict = 0
      /\ acc' = [acc EXCEPT ![g] = b] /\ used' = used
  BY DEF RegisterAgain
<1>2. g \in used /\ acc[g].uid = u
  BY <1>1, UidFound
<1>3. acc \in [Slot -> Account] /\ used \subseteq Slot
  BY DEF ListInv, ListTypes
<1>4. b.uid = u /\ b.connid = c /\ b.onoff = "online"
  BY <1>2, <1>3, ReadyFields, ReadyOnline
<1> HIDE DEF g, b
<1>5. /\ \A t \in used : /\ acc'[t].uid = acc[t].uid
                         /\ acc'[t].connid = acc[t].connid
      /\ \A t \in used \ {g} : acc'[t].onoff = acc[t].onoff
      /\ acc'[g].onoff = "online"
  BY <1>1, <1>2, <1>3, <1>4
<1>6. \A t \in Slot : ConvertId(t) > 0
  BY Keys
<1>7. \A t \in used \ {g} : acc[t].uid # u
  BY <1>1, <1>2, <1>3, <1>6 DEF Sound, OneConflictPerUid
<1>8. \A d \in Conn : d \in Lobby!ConnsOf(u) <=> d = c
  BY <1>1, <1>2, <1>7, ConnsAre
<1>9. Lobby!ConnsOf(u) = {c}
  BY <1>8 DEF Lobby!ConnsOf
<1>10. Logins' = Logins
  BY <1>1, <1>5 DEF Logins, Login
<1>11. Online' = Online \cup {<<u, c>>}
  <2>1. Online' = {<<acc'[t].uid, acc'[t].connid>> :
                       t \in {r \in used : acc'[r].onoff = "online"}}
    BY <1>1 DEF Online, Login
  <2>2. Online = {<<acc[t].uid, acc[t].connid>> :
                      t \in {r \in used : acc[r].onoff = "online"}}
    BY DEF Online, Login
  <2> QED BY ONLY <1>1, <1>2, <1>5, <2>1, <2>2
<1> QED BY <1>9, <1>10, <1>11 DEF Lobby!Rejoin

\* Every step is a step of the registry, or shows nothing.
LEMMA LobbyStep ==
    ASSUME ListInv, Sound, [Next]_vars
    PROVE  [Lobby!Next]_(Lobby!vars)
<1>0. \A t \in used : acc[t].uid \in Uid /\ acc[t].connid \in Conn
  BY DEF ListInv, Bound
<1>1. ASSUME UNCHANGED <<used, acc>> PROVE UNCHANGED Lobby!vars
  BY <1>1, LobbySame
<1>2. CASE \/ \E u \in Uid : LookupUid(u)
           \/ \E c \in Conn : LookupConnId(c)
           \/ \E i \in Uuid : LookupAccountByInnerUuid(i)
           \/ \E u \in Uid, c \in Conn : RegisterRefused(u, c)
  BY <1>1, <1>2 DEF LookupUid, LookupConnId, LookupAccountByInnerUuid,
     RegisterRefused
<1>3. CASE \E u \in Uid, c \in Conn, i \in Uuid : Register(u, c, i)
  BY <1>3, NewJoins, ConflictJoins, AgainRejoins DEF Register, Lobby!Next
<1>4. ASSUME NEW s \in Slot, SetExtData(s) PROVE UNCHANGED Lobby!vars
  <2>1. /\ acc \in [Slot -> Account] /\ used \subseteq Slot /\ used' = used
        /\ acc' = [acc EXCEPT ![s].ext = TRUE]
    BY <1>4 DEF ListInv, ListTypes, SetExtData
  <2>2. \A t \in used : /\ acc'[t].uid = acc[t].uid
                        /\ acc'[t].connid = acc[t].connid
                        /\ acc'[t].onoff = acc[t].onoff
    BY <2>1 DEF Account
  <2> QED BY ONLY <2>1, <2>2, LobbySame
<1>5. ASSUME NEW s \in used, GoOffline(s)
      PROVE  [Lobby!Next]_(Lobby!vars)
  BY <1>0, <1>5, LobbyDrops DEF Lobby!Next
<1>6. CASE \E s \in Slot : Offline(s) \/ CheckKeepAlive(s)
  BY <1>5, <1>6 DEF Offline, CheckKeepAlive, Step
<1>7. ASSUME NEW s, NEW ac, Releases(s, ac)
      PROVE  Lobby!Next
  <2>1. s \in used /\ Lobby!Leave(acc[s].uid, acc[s].connid)
    BY <1>7, LobbyShrinks DEF Releases
  <2> QED BY <1>0, <2>1 DEF Lobby!Next
<1>8. CASE \E s \in Slot : Unregister(s) \/ Kick(s) \/ KickOfflineMoreThan(s)
  BY <1>7, <1>8, ReleaseSteps
<1>9. CASE UnregisterByConnId
  BY <1>7, <1>9, NextLeft
<1>10. CASE \/ \E c \in Conn : StartWalk("unregister", c)
            \/ StartWalk("keepalive", 0) \/ StartWalk("kick", 0)
            \/ EndWalk \/ UNCHANGED vars
  BY <1>1, <1>10 DEF StartWalk, EndWalk, vars
<1>11. CASE \E s \in Slot : SetExtData(s)
  BY <1>4, <1>11
<1> QED BY <1>2, <1>3, <1>6, <1>8, <1>9, <1>10, <1>11 DEF Next

\* As long as conflicts are sound, the account manager is a registry of logins,
\* for every pool size: no uid is registered from a third connection, and a
\* release, a kick included, takes away one login and no other.
THEOREM RegistryImplemented == Spec => ActsAsRegistry
<1>1. Init => Lobby!Init
  BY DEF Init, Lobby!Init, Logins, Online
<1>2. IInv /\ [Next]_vars => [Sound => Lobby!Next]_<<Logins, Online>>
  BY LobbyStep DEF IInv, Lobby!vars
<1> QED BY <1>1, <1>2, Inductive, PTL DEF Spec, ActsAsRegistry

=============================================================================
