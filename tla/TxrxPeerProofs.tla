--------------------------- MODULE TxrxPeerProofs ---------------------------
(***************************************************************************)
(* Proofs about TxrxPeer: the count of a peer is the number of its         *)
(* references, whatever leads to a peer leads to one that was not freed,   *)
(* and a vdev is freed with its last peer, neither earlier nor later.      *)
(***************************************************************************)
EXTENDS TxrxPeer, FiniteSetTheorems, TLAPS

(* The controller thread and the map handler name objects and ids; this    *)
(* and TypeOK hold in every behaviour.                                     *)
Names ==
    /\ mc.pc \in {"hash", "create", "invalidate", "forget", "unref"} =>
          mc.obj \in Objs
    /\ rx # RxIdle => rx.obj \in Objs /\ rx.id \in PeerIds

Base == TypeOK /\ Names

(* What the controller thread knows about the peer it works on.            *)
Controller ==
    /\ mc.pc \in {"idle", "wait", "timeout", "alloc"} => mc.obj = None
    /\ mc.pc = "hash" => place[mc.obj] = "listed" /\ ~delete_in_progress[mc.obj]
    /\ mc.pc \in {"create", "invalidate"} => valid[mc.obj]
    /\ mc.pc \in {"forget", "unref"} =>
          place[mc.obj] = "hashed" /\ ~valid[mc.obj]

(* The life of a peer: it is listed before it is hashed, valid only while  *)
(* it is hashed, and being deleted only when it is no longer valid.        *)
Life ==
    \A o \in Objs :
        /\ valid[o] => place[o] = "hashed" /\ ~delete_in_progress[o]
        /\ place[o] = "listed" => mc.pc = "hash" /\ mc.obj = o
        /\ last_real_peer = o => \/ valid[o]
                                 \/ mc.obj = o /\ mc.pc \in {"hash", "forget"}

(* An id that the target has not mapped leads to no peer, and the map      *)
(* handler works on such an id.                                            *)
Mapping ==
    /\ \A i \in PeerIds : ~target[i].mapped => peer_id_to_obj_map[i] = None
    /\ rx # RxIdle => ~target[rx.id].mapped

(* Once the vdev is detached nothing is attached or detached any more, and *)
(* the vdev is detached before the data path goes.                         *)
Closing ==
    /\ vdev # "up" => mc.pc = "idle" /\ \A o \in Objs : ~valid[o]
    /\ pdev = "down" => vdev # "up"

(* The inductive invariant, of behaviours in which no peer was used while  *)
(* it was being attached.                                                  *)
IInv == /\ Base /\ ~wiped /\ CountsRight /\ NothingDangles /\ FreedIsEmpty
        /\ PendingIsNotEmpty /\ Controller /\ Life /\ Mapping /\ Closing

LEMMA InitTypes == Init => TypeOK
  BY DEF Init, TypeOK, Idle, RxIdle, Unused

(* What ol_txrx_peer_unref_delete does, without the wait of an attach.     *)
LEMMA UnrefEffect ==
    ASSUME NEW o, ol_txrx_peer_unref_delete(o)
    PROVE  /\ ref_cnt' = [ref_cnt EXCEPT ![o] = IF @ = 0 THEN 0 ELSE @ - 1]
           /\ \/ /\ ref_cnt[o] = 1
                 /\ place' = [place EXCEPT ![o] = "free"]
                 /\ delete_in_progress' = [delete_in_progress EXCEPT ![o] = FALSE]
                 /\ vdev' = IF LastPeer(o) /\ vdev = "pending" THEN "freed" ELSE vdev
              \/ /\ ref_cnt[o] # 1
                 /\ UNCHANGED <<place, delete_in_progress, vdev>>
  BY Zenon DEF ol_txrx_peer_unref_delete

LEMMA UnrefTypes ==
    ASSUME TypeOK, NEW o \in Objs, ol_txrx_peer_unref_delete(o)
    PROVE  /\ place' \in [Objs -> {"free", "listed", "hashed"}]
           /\ ref_cnt' \in [Objs -> Int]
           /\ delete_in_progress' \in [Objs -> BOOLEAN]
           /\ vdev' \in {"up", "pending", "freed"}
<1>1. ref_cnt' \in [Objs -> Int]
  BY UnrefEffect DEF TypeOK
<1>2. place' \in [Objs -> {"free", "listed", "hashed"}]
  BY UnrefEffect DEF TypeOK
<1>3. delete_in_progress' \in [Objs -> BOOLEAN]
  BY UnrefEffect DEF TypeOK
<1>4. vdev' \in {"up", "pending", "freed"}
  BY UnrefEffect DEF TypeOK
<1> QED
  BY <1>1, <1>2, <1>3, <1>4

LEMMA ControllerTypes ==
    ASSUME Base, McStep \/ VdevDetach \/ PdevDetach
           \/ \E m \in Macs : AttachBegin(m) \/ RemoveBegin(m)
    PROVE  TypeOK'
<1> USE DEF Base, Names, peerVars, waitVars
<1>1. ASSUME NEW m \in Macs, AttachBegin(m) PROVE TypeOK'
  <2>1. mc' \in {mc, [pc |-> "alloc", obj |-> None, mac |-> m],
                  [pc |-> "wait", obj |-> None, mac |-> m]}
    BY <1>1 DEF AttachBegin
  <2>2. UNCHANGED <<place, ref_cnt, valid, delete_in_progress, has_id,
                    peer_id_to_obj_map, last_real_peer, vdev, pdev, rx, held,
                    target>>
    BY <1>1 DEF AttachBegin
  <2> QED
    BY <2>1, <2>2, SMTT(40) DEF TypeOK
<1>2. ASSUME NEW m \in Macs, RemoveBegin(m) PROVE TypeOK'
  BY <1>2 DEF TypeOK, RemoveBegin, HashFindValid, FoundFirst, peer_hash
<1>3. CASE AttachWait \/ AttachTimeout \/ AttachGivesUp \/ AttachFails
  BY <1>3 DEF TypeOK, AttachWait, AttachTimeout, AttachGivesUp, AttachFails, Idle
<1>4. CASE AttachList
  <2>1. PICK o \in Objs :
           /\ place' = [place EXCEPT ![o] = "listed"]
           /\ ref_cnt' = [ref_cnt EXCEPT ![o] = 0]
           /\ valid' = [valid EXCEPT ![o] = FALSE]
           /\ delete_in_progress' = [delete_in_progress EXCEPT ![o] = FALSE]
           /\ has_id' = [has_id EXCEPT ![o] = TRUE]
           /\ last_real_peer' = o
           /\ mc' = [mc EXCEPT !.pc = "hash", !.obj = o]
    BY <1>4 DEF AttachList
  <2> QED
    <3>1. place' \in [Objs -> {"free", "listed", "hashed"}]
      BY <2>1 DEF TypeOK
    <3>2. ref_cnt' \in [Objs -> Int]
      BY <2>1 DEF TypeOK
    <3>3. /\ valid' \in [Objs -> BOOLEAN]
          /\ delete_in_progress' \in [Objs -> BOOLEAN]
          /\ has_id' \in [Objs -> BOOLEAN]
      BY <2>1 DEF TypeOK
    <3> QED
      BY <1>4, <2>1, <3>1, <3>2, <3>3 DEF TypeOK, AttachList
<1>5. CASE AttachHash
  <2>1. /\ ref_cnt' = [ref_cnt EXCEPT ![mc.obj] = 2]
        /\ valid' = [valid EXCEPT ![mc.obj] = TRUE]
        /\ place' = [place EXCEPT ![mc.obj] = "hashed"]
        /\ has_id' = [has_id EXCEPT ![mc.obj] = FALSE]
        /\ mc' = [mc EXCEPT !.pc = "create"]
        /\ UNCHANGED <<delete_in_progress, peer_id_to_obj_map, last_real_peer,
                       vdev, pdev, rx, held, target>>
    BY <1>5 DEF AttachHash, InitialRefs
  <2> QED
    <3>1. place' \in [Objs -> {"free", "listed", "hashed"}]
      BY <2>1 DEF TypeOK
    <3>2. ref_cnt' \in [Objs -> Int]
      <4>1. ref_cnt \in [Objs -> Int] /\ 2 \in Int
        BY DEF TypeOK
      <4> QED BY <2>1, <4>1
    <3>3. valid' \in [Objs -> BOOLEAN] /\ has_id' \in [Objs -> BOOLEAN]
      BY <2>1 DEF TypeOK
    <3>4. mc' \in [pc : {"idle", "wait", "timeout", "alloc", "hash", "create",
                        "invalidate", "forget", "unref"},
                  obj : Objs \cup {None}, mac : Macs \cup {None}]
      BY <2>1 DEF TypeOK
    <3> QED
      BY <2>1, <3>1, <3>2, <3>3, <3>4 DEF TypeOK
<1>6. CASE CreateSend
  <2>1. PICK i \in PeerIds : target' = [target EXCEPT ![i].mac = mc.mac]
    BY <1>6 DEF CreateSend
  <2>2. target' \in [PeerIds -> [mac : Macs \cup {None}, mapped : BOOLEAN,
                                deleted : BOOLEAN]]
    BY <2>1 DEF TypeOK
  <2> QED
    BY <1>6, <2>2 DEF TypeOK, CreateSend, Idle
<1>7. CASE CreateFails
  BY <1>7 DEF TypeOK, CreateFails
<1>8. CASE DetachInvalidate
  BY <1>8 DEF TypeOK, DetachInvalidate
<1>9. CASE DetachForget
  BY <1>9 DEF TypeOK, DetachForget, Forget
<1>10. CASE DetachUnref
  <2>1. mc.obj \in Objs
    BY <1>10 DEF DetachUnref
  <2> QED
    BY <1>10, <2>1, UnrefTypes DEF TypeOK, DetachUnref, Idle
<1>11. CASE VdevDetach
  BY <1>11 DEF TypeOK, VdevDetach
<1>12. CASE PdevDetach
  BY <1>12 DEF TypeOK, PdevDetach
<1> QED
  BY <1>1, <1>2, <1>3, <1>4, <1>5, <1>6, <1>7, <1>8, <1>9, <1>10, <1>11,
     <1>12 DEF McStep

LEMMA ReceiveTypes ==
    ASSUME Base, NEW i \in PeerIds, RxStep(i)
    PROVE  TypeOK'
<1> USE DEF Base, Names, peerVars, waitVars
<1>1. CASE PeerMapFind(i)
  <2>1. ASSUME NEW o \in HashFind(target[i].mac), AddRef(o),
               rx' = [obj |-> o, id |-> i], UNCHANGED target
        PROVE  TypeOK'
    <3>1. o \in Objs
      BY DEF HashFind, FoundFirst, peer_hash
    <3> QED
      BY <1>1, <2>1, <3>1 DEF TypeOK, PeerMapFind, AddRef
  <2>2. CASE /\ target' = [target EXCEPT ![i].mapped = TRUE]
             /\ UNCHANGED <<ref_cnt, rx>>
    <3>1. target' \in [PeerIds -> [mac : Macs \cup {None}, mapped : BOOLEAN,
                                   deleted : BOOLEAN]]
      BY <2>2, ZenonT(40) DEF TypeOK
    <3>2. UNCHANGED <<place, ref_cnt, valid, delete_in_progress, has_id,
                      peer_id_to_obj_map, last_real_peer, vdev, pdev, mc, rx,
                      held>>
      BY <1>1, <2>2 DEF PeerMapFind
    <3> QED
      BY <3>1, <3>2 DEF TypeOK
  <2> QED
    BY <1>1, <2>1, <2>2 DEF PeerMapFind
<1>2. CASE PeerMapAdd
  <2>1. rx.obj \in Objs /\ rx.id \in PeerIds
    BY <1>2 DEF PeerMapAdd
  <2>2. /\ place' \in [Objs -> {"free", "listed", "hashed"}]
        /\ ref_cnt' \in [Objs -> Int]
        /\ delete_in_progress' \in [Objs -> BOOLEAN]
        /\ vdev' \in {"up", "pending", "freed"}
    <3>1. CASE FirstId(rx.obj)
      BY <1>2, <2>1, <3>1, UnrefTypes DEF PeerMapAdd
    <3>2. CASE ~FirstId(rx.obj)
      BY <1>2, <3>2 DEF PeerMapAdd, TypeOK
    <3> QED
      BY <3>1, <3>2
  <2>3. peer_id_to_obj_map' \in [PeerIds -> Objs \cup {None}]
    BY <1>2, <2>1 DEF PeerMapAdd, TypeOK
  <2>4. has_id' \in [Objs -> BOOLEAN]
    BY <1>2, ZenonT(40) DEF PeerMapAdd, TypeOK
  <2>5. target' \in [PeerIds -> [mac : Macs \cup {None}, mapped : BOOLEAN,
                               deleted : BOOLEAN]]
    BY <1>2, ZenonT(40) DEF PeerMapAdd, TypeOK
  <2>6. rx' \in [obj : Objs \cup {None}, id : PeerIds \cup {None}]
    BY <1>2 DEF PeerMapAdd, RxIdle
  <2>7. UNCHANGED <<valid, last_real_peer, pdev, mc, held>>
    BY <1>2 DEF PeerMapAdd
  <2> QED
    BY <2>2, <2>3, <2>4, <2>5, <2>6, <2>7 DEF TypeOK
<1>3. CASE PeerUnmap(i)
  <2>1. CASE peer_id_to_obj_map[i] # None
    <3>1. peer_id_to_obj_map[i] \in Objs
      BY <2>1 DEF TypeOK
    <3>2. ol_txrx_peer_unref_delete(peer_id_to_obj_map[i])
      BY <1>3, <2>1 DEF PeerUnmap
    <3> QED
      BY <1>3, <3>1, <3>2, UnrefTypes DEF TypeOK, PeerUnmap, Unused
  <2>2. CASE peer_id_to_obj_map[i] = None
    BY <1>3, <2>2 DEF TypeOK, PeerUnmap, Unused
  <2> QED
    BY <2>1, <2>2
<1> QED
  BY <1>1, <1>2, <1>3 DEF RxStep

LEMMA UserTypes ==
    ASSUME Base, NEW u \in Users,
           (\E m \in Macs : FindByAddr(u, m)) \/ FindAssoc(u) \/ Release(u) \/ Drop(u)
    PROVE  TypeOK'
<1> USE DEF Base, Names, peerVars, waitVars
<1>1. ASSUME NEW o \in Objs, Take(u, o) PROVE TypeOK'
  BY <1>1 DEF TypeOK, Take, AddRef
<1>2. ASSUME NEW m \in Macs, FindByAddr(u, m) PROVE TypeOK'
  BY <1>1, <1>2 DEF FindByAddr, HashFindValid, FoundFirst, peer_hash
<1>3. CASE FindAssoc(u)
  BY <1>1, <1>3 DEF TypeOK, FindAssoc
<1>4. CASE Release(u)
  <2>1. held[u] \in Objs /\ ol_txrx_peer_unref_delete(held[u])
    BY <1>4 DEF Release, TypeOK
  <2> QED
    BY <1>4, <2>1, UnrefTypes DEF TypeOK, Release
<1>5. CASE Drop(u)
  BY <1>5 DEF TypeOK, Drop
<1> QED
  BY <1>2, <1>3, <1>4, <1>5

-----------------------------------------------------------------------------
(* Counting.                                                               *)

LEMMA Finite ==
    /\ IsFiniteSet(PeerIds) /\ IsFiniteSet(Users)
    /\ \A S : S \subseteq PeerIds \/ S \subseteq Users =>
          IsFiniteSet(S) /\ Cardinality(S) \in Nat
<1>1. IsFiniteSet(PeerIds) /\ IsFiniteSet(Users)
  BY TxrxPeerAssumption, FS_Union DEF Users
<1> QED
  BY <1>1, FS_Subset, FS_CardinalityType

(* A sum of references that is zero.                                       *)
LEMMA ZeroSum ==
    ASSUME NEW a \in Nat, NEW b \in Nat, NEW c \in Nat, NEW d \in Nat,
           NEW e \in Nat, a + b + c + d + e = 0
    PROVE  a = 0 /\ b = 0 /\ c = 0 /\ d = 0 /\ e = 0
  OBVIOUS

(* Nothing refers to a peer that has no references.                        *)
LEMMA NoRefs ==
    ASSUME NEW o \in Objs, Refs(o)' = 0
    PROVE  /\ ~AttachRef(o)'
           /\ \A i \in PeerIds : peer_id_to_obj_map'[i] # o
           /\ \A u \in Users : held'[u] # o
           /\ rx'.obj # o
<1>1. IdsOf(o)' \subseteq PeerIds /\ UsersOf(o)' \subseteq Users
  BY DEF IdsOf, UsersOf
<1>2. /\ Cardinality(IdsOf(o)') \in Nat /\ IsFiniteSet(IdsOf(o)')
      /\ Cardinality(UsersOf(o)') \in Nat /\ IsFiniteSet(UsersOf(o)')
  BY <1>1, Finite
<1> DEFINE a == One(AttachRef(o))'
           b == One(~has_id[o])'
           c == Cardinality(IdsOf(o)')
           d == Cardinality(UsersOf(o)')
           e == One(rx.obj = o)'
<1>3. a \in Nat /\ b \in Nat /\ e \in Nat
  BY DEF One
<1>4. a + b + c + d + e = 0
  BY DEF Refs
<1>5. a = 0 /\ c = 0 /\ d = 0 /\ e = 0
  <2>1. c \in Nat /\ d \in Nat
    BY <1>2
  <2> HIDE DEF a, b, c, d, e
  <2> QED
    BY <1>3, <1>4, <2>1, ZeroSum
<1>6. IdsOf(o)' = {} /\ UsersOf(o)' = {}
  BY <1>2, <1>5, FS_EmptySet
<1> QED
  BY <1>5, <1>6 DEF IdsOf, UsersOf, One

LEMMA SameRefs ==
    ASSUME NEW o, AttachRef(o)' <=> AttachRef(o), has_id'[o] = has_id[o],
           IdsOf(o)' = IdsOf(o), UsersOf(o)' = UsersOf(o),
           (rx'.obj = o) <=> (rx.obj = o)
    PROVE  Refs(o)' = Refs(o)
  BY DEF Refs, One

LEMMA RefsType ==
    ASSUME NEW o
    PROVE  Refs(o) \in Nat /\ Refs(o)' \in Nat
<1>1. /\ Cardinality(IdsOf(o)) \in Nat /\ Cardinality(UsersOf(o)) \in Nat
      /\ Cardinality(IdsOf(o)') \in Nat /\ Cardinality(UsersOf(o)') \in Nat
  BY Finite DEF IdsOf, UsersOf
<1> QED
  BY <1>1 DEF Refs, One

(* Giving back a reference that was counted.                               *)
LEMMA UnrefCounts ==
    ASSUME TypeOK, CountsRight, NEW o \in Objs, place[o] # "free",
           ol_txrx_peer_unref_delete(o), Refs(o)' = Refs(o) - 1,
           \A p \in Objs : p # o => Refs(p)' = Refs(p)
    PROVE  /\ CountsRight'
           /\ \A p \in Objs : place'[p] = place[p]
                              \/ (p = o /\ place'[p] = "free" /\ Refs(p)' = 0)
<1>1. ref_cnt[o] = Refs(o)
  BY DEF CountsRight
<1>2. ref_cnt'[o] = Refs(o)' /\ \A p \in Objs : p # o => ref_cnt'[p] = ref_cnt[p]
  <2>1. Refs(o) # 0
    BY RefsType
  <2> QED
    BY <1>1, <2>1, UnrefEffect DEF TypeOK
<1>3. \A p \in Objs : place'[p] = place[p]
                      \/ (p = o /\ place'[p] = "free" /\ Refs(p)' = 0)
  BY <1>1, UnrefEffect DEF TypeOK
<1> QED
  BY <1>2, <1>3 DEF CountsRight

-----------------------------------------------------------------------------
(* Every step keeps the counts right, and frees a peer only when nothing   *)
(* refers to it or the whole data path goes.                               *)
Counted ==
    /\ CountsRight'
    /\ \A o \in Objs : place[o] # "free" =>
          \/ place'[o] \in {place[o], "hashed"}
          \/ Refs(o)' = 0 \/ pdev' # pdev

(* Steps of the controller thread that move no reference.                  *)
LEMMA QuietCounted ==
    ASSUME TypeOK, CountsRight,
           UNCHANGED <<place, ref_cnt, has_id, peer_id_to_obj_map, held, rx>>,
           \A o \in Objs : AttachRef(o)' <=> AttachRef(o)
    PROVE  Counted
<1>1. ASSUME NEW o \in Objs PROVE Refs(o)' = Refs(o)
  BY SameRefs DEF IdsOf, UsersOf
<1> QED
  BY <1>1 DEF Counted, CountsRight

LEMMA ControllerCounted ==
    ASSUME IInv, ~wiped', McStep \/ VdevDetach \/ PdevDetach
           \/ \E m \in Macs : AttachBegin(m) \/ RemoveBegin(m)
    PROVE  Counted
<1> USE DEF IInv, Base, Names
<1>1. ASSUME NEW m \in Macs, AttachBegin(m) PROVE Counted
  <2>1. /\ UNCHANGED <<place, ref_cnt, has_id, peer_id_to_obj_map, held, rx, valid>>
        /\ mc.pc = "idle" /\ mc'.pc \in {"idle", "alloc", "wait"}
    BY <1>1 DEF AttachBegin, peerVars
  <2> QED
    BY <2>1, QuietCounted DEF AttachRef
<1>2. ASSUME NEW m \in Macs, RemoveBegin(m) PROVE Counted
  <2>1. /\ UNCHANGED <<place, ref_cnt, has_id, peer_id_to_obj_map, held, rx, valid>>
        /\ mc.pc = "idle" /\ mc'.pc = "invalidate"
    BY <1>2 DEF RemoveBegin, peerVars
  <2> QED
    BY <2>1, QuietCounted DEF AttachRef
<1>3. CASE AttachWait \/ AttachTimeout \/ AttachGivesUp \/ AttachFails
           \/ CreateSend \/ CreateFails
  <2>1. /\ UNCHANGED <<place, ref_cnt, has_id, peer_id_to_obj_map, held, rx, valid>>
        /\ mc.pc \in {"wait", "timeout", "alloc", "create"}
        /\ mc'.pc \in {"idle", "timeout", "alloc", "invalidate"}
    BY <1>3 DEF AttachWait, AttachTimeout, AttachGivesUp, AttachFails, CreateSend,
       CreateFails, Idle, peerVars, TypeOK
  <2> QED
    BY <2>1, QuietCounted DEF AttachRef
<1>4. CASE AttachList
  <2>1. PICK o \in Objs :
           /\ place[o] = "free"
           /\ place' = [place EXCEPT ![o] = "listed"]
           /\ ref_cnt' = [ref_cnt EXCEPT ![o] = 0]
           /\ valid' = [valid EXCEPT ![o] = FALSE]
           /\ has_id' = [has_id EXCEPT ![o] = TRUE]
           /\ mc.pc = "alloc" /\ mc' = [mc EXCEPT !.pc = "hash", !.obj = o]
    BY <1>4 DEF AttachList
  <2>2. ASSUME NEW p \in Objs, p # o PROVE Refs(p)' = Refs(p)
    <3>1. AttachRef(p)' <=> AttachRef(p)
      BY <2>1, <2>2 DEF AttachRef, TypeOK
    <3>2. has_id'[p] = has_id[p]
      BY <2>1, <2>2 DEF TypeOK
    <3> QED
      BY <1>4, <3>1, <3>2, SameRefs DEF AttachList, IdsOf, UsersOf
  <2>3. place'[o] = "listed" /\ ref_cnt'[o] = 0 /\ \A p \in Objs : p # o =>
           place'[p] = place[p] /\ ref_cnt'[p] = ref_cnt[p]
    BY <2>1 DEF TypeOK
  <2>4. Refs(o)' = 0
    <3>1. UNCHANGED <<peer_id_to_obj_map, held, rx>>
      BY <1>4 DEF AttachList
    <3>2. IdsOf(o)' = {} /\ UsersOf(o)' = {} /\ ~(rx'.obj = o)
      BY <2>1, <3>1, TxrxPeerAssumption DEF IdsOf, UsersOf, NothingDangles
    <3>3. ~AttachRef(o)' /\ has_id'[o]
      BY <2>1 DEF AttachRef, TypeOK
    <3>4. Cardinality({}) = 0
      BY FS_EmptySet
    <3> QED
      BY <3>2, <3>3, <3>4 DEF Refs, One
  <2> QED
    BY <2>1, <2>2, <2>3, <2>4 DEF Counted, CountsRight
<1>5. CASE AttachHash
  <2>1. PICK o \in Objs :
        /\ mc.obj = o /\ place[o] = "listed"
        /\ ref_cnt' = [ref_cnt EXCEPT ![o] = 2]
        /\ valid' = [valid EXCEPT ![o] = TRUE]
        /\ place' = [place EXCEPT ![o] = "hashed"]
        /\ has_id' = [has_id EXCEPT ![o] = FALSE]
        /\ mc.pc = "hash" /\ mc' = [mc EXCEPT !.pc = "create"]
        /\ UNCHANGED <<peer_id_to_obj_map, held, rx>>
        /\ UsersOf(o) = {}
    BY <1>5 DEF AttachHash, InitialRefs, Controller
  <2>2. ASSUME NEW p \in Objs, p # o PROVE Refs(p)' = Refs(p)
    <3>1. AttachRef(p)' <=> AttachRef(p)
      BY <2>1, <2>2 DEF AttachRef, TypeOK
    <3>2. has_id'[p] = has_id[p]
      BY <2>1, <2>2 DEF TypeOK
    <3> QED
      BY <2>1, <3>1, <3>2, SameRefs DEF IdsOf, UsersOf
  <2>3. Refs(o)' = 2
    <3>1. IdsOf(o)' = {} /\ UsersOf(o)' = {} /\ ~(rx'.obj = o)
      BY <2>1, TxrxPeerAssumption DEF IdsOf, UsersOf, NothingDangles
    <3>2. AttachRef(o)' /\ ~has_id'[o]
      BY <2>1 DEF AttachRef, TypeOK
    <3>3. Cardinality({}) = 0
      BY FS_EmptySet
    <3> QED
      BY <3>1, <3>2, <3>3 DEF Refs, One
  <2>4. ref_cnt'[o] = 2 /\ place'[o] = "hashed" /\ \A p \in Objs : p # o =>
           place'[p] = place[p] /\ ref_cnt'[p] = ref_cnt[p]
    BY <2>1 DEF TypeOK
  <2> QED
    BY <2>1, <2>2, <2>3, <2>4 DEF Counted, CountsRight
<1>6. CASE DetachInvalidate
  <2>1. /\ UNCHANGED <<place, ref_cnt, has_id, peer_id_to_obj_map, held, rx>>
        /\ valid' = [valid EXCEPT ![mc.obj] = FALSE] /\ valid[mc.obj]
        /\ mc.obj \in Objs /\ mc.pc = "invalidate"
        /\ mc' = [mc EXCEPT !.pc = "forget"]
    BY <1>6 DEF DetachInvalidate, Controller
  <2>2. \A o \in Objs : AttachRef(o)' <=> AttachRef(o)
    BY <2>1 DEF AttachRef, TypeOK
  <2> QED
    BY <2>1, <2>2, QuietCounted
<1>7. CASE DetachForget
  <2>1. /\ UNCHANGED <<place, ref_cnt, has_id, peer_id_to_obj_map, held, rx, valid>>
        /\ mc.pc = "forget" /\ mc' = [mc EXCEPT !.pc = "unref"]
    BY <1>7 DEF DetachForget
  <2>2. \A o \in Objs : AttachRef(o)' <=> AttachRef(o)
    BY <2>1 DEF AttachRef, TypeOK
  <2> QED
    BY <2>1, <2>2, QuietCounted
<1>8. CASE DetachUnref
  <2>1. PICK o \in Objs :
        /\ mc.obj = o /\ place[o] = "hashed" /\ ~valid[o] /\ mc.pc = "unref"
        /\ mc' = Idle /\ ol_txrx_peer_unref_delete(o)
        /\ UNCHANGED <<valid, has_id, peer_id_to_obj_map, held, rx>>
    BY <1>8 DEF DetachUnref, Controller
  <2>2. ASSUME NEW p \in Objs, p # o PROVE Refs(p)' = Refs(p)
    <3>1. AttachRef(p)' <=> AttachRef(p)
      BY <2>1, <2>2 DEF AttachRef, TypeOK, Idle
    <3> QED
      BY <2>1, <3>1, SameRefs DEF IdsOf, UsersOf
  <2>3. Refs(o)' = Refs(o) - 1
    <3>1. AttachRef(o) /\ ~AttachRef(o)'
      BY <2>1 DEF AttachRef, Idle
    <3>2. IdsOf(o)' = IdsOf(o) /\ UsersOf(o)' = UsersOf(o)
      BY <2>1 DEF IdsOf, UsersOf
    <3>3. Cardinality(IdsOf(o)) \in Nat /\ Cardinality(UsersOf(o)) \in Nat
      BY Finite DEF IdsOf, UsersOf
    <3> QED
      BY <2>1, <3>1, <3>2, <3>3 DEF Refs, One
  <2> QED
    BY <2>1, <2>2, <2>3, UnrefCounts DEF Counted
<1>9. CASE VdevDetach
  BY <1>9, QuietCounted DEF VdevDetach, AttachRef, peerVars
<1>10. CASE PdevDetach
  BY <1>10 DEF PdevDetach, Counted, CountsRight
<1> QED
  BY <1>1, <1>2, <1>3, <1>4, <1>5, <1>6, <1>7, <1>8, <1>9, <1>10 DEF McStep

LEMMA ReceiveCounted ==
    ASSUME IInv, NEW i \in PeerIds, RxStep(i)
    PROVE  Counted
<1> USE DEF IInv, Base, Names
<1> None \notin Objs
  BY TxrxPeerAssumption
<1>1. CASE PeerMapFind(i)
  <2>1. /\ UNCHANGED <<place, valid, mc, has_id, peer_id_to_obj_map, held>>
        /\ rx = RxIdle
    BY <1>1 DEF PeerMapFind
  <2>2. ASSUME NEW o \in HashFind(target[i].mac), AddRef(o),
               rx' = [obj |-> o, id |-> i]
        PROVE  Counted
    <3>1. o \in Objs /\ place[o] = "hashed"
      BY DEF HashFind, FoundFirst, peer_hash
    <3>2. ASSUME NEW p \in Objs, p # o PROVE Refs(p)' = Refs(p)
      BY <2>1, <2>2, <3>2, SameRefs DEF AttachRef, IdsOf, UsersOf, RxIdle
    <3>3. Refs(o)' = Refs(o) + 1
      <4>1. AttachRef(o)' <=> AttachRef(o)
        BY <2>1 DEF AttachRef
      <4>2. IdsOf(o)' = IdsOf(o) /\ UsersOf(o)' = UsersOf(o)
        BY <2>1 DEF IdsOf, UsersOf
      <4>3. Cardinality(IdsOf(o)) \in Nat /\ Cardinality(UsersOf(o)) \in Nat
        BY Finite DEF IdsOf, UsersOf
      <4>4. rx.obj # o /\ rx'.obj = o
        BY <2>1, <2>2, <3>1 DEF RxIdle
      <4> QED
        BY <2>1, <4>1, <4>2, <4>3, <4>4 DEF Refs, One
    <3>4. ref_cnt'[o] = ref_cnt[o] + 1 /\ \A p \in Objs : p # o =>
             ref_cnt'[p] = ref_cnt[p]
      BY <2>2, <3>1 DEF AddRef, TypeOK
    <3> QED
      BY <2>1, <3>1, <3>2, <3>3, <3>4 DEF Counted, CountsRight
  <2>3. CASE UNCHANGED <<ref_cnt, rx>>
    BY <2>1, <2>3, QuietCounted DEF AttachRef
  <2> QED
    BY <1>1, <2>2, <2>3 DEF PeerMapFind
<1>2. CASE PeerMapAdd
  <2>1. PICK o \in Objs, k \in PeerIds :
           /\ rx.obj = o /\ rx.id = k /\ place[o] = "hashed"
           /\ peer_id_to_obj_map[k] = None
           /\ peer_id_to_obj_map' = [peer_id_to_obj_map EXCEPT ![k] = o]
           /\ has_id' = [has_id EXCEPT ![o] = TRUE]
           /\ rx' = RxIdle
           /\ UNCHANGED <<valid, mc, held>>
    BY <1>2 DEF PeerMapAdd, Mapping, NothingDangles
  <2>2. ASSUME NEW p \in Objs, p # o PROVE Refs(p)' = Refs(p)
    <3>1. IdsOf(p)' = IdsOf(p)
      BY <2>1, <2>2 DEF IdsOf, TypeOK
    <3>2. has_id'[p] = has_id[p]
      BY <2>1, <2>2 DEF TypeOK
    <3> QED
      BY <2>1, <2>2, <3>1, <3>2, SameRefs DEF AttachRef, UsersOf, RxIdle
  <2>3. /\ AttachRef(o)' <=> AttachRef(o)
        /\ UsersOf(o)' = UsersOf(o) /\ Cardinality(UsersOf(o)) \in Nat
        /\ Cardinality(IdsOf(o)) \in Nat
        /\ rx.obj = o /\ rx'.obj # o /\ has_id'[o]
    BY <2>1, Finite DEF AttachRef, UsersOf, IdsOf, RxIdle, TypeOK
  <2>4. Cardinality(IdsOf(o)') = Cardinality(IdsOf(o)) + 1
    <3>1. peer_id_to_obj_map \in [PeerIds -> Objs \cup {None}]
      BY DEF TypeOK
    <3>2. peer_id_to_obj_map[k] # o
      BY <2>1
    <3>3. IdsOf(o)' = IdsOf(o) \cup {k} /\ k \notin IdsOf(o)
      BY <2>1, <3>1, <3>2 DEF IdsOf
    <3>4. IsFiniteSet(IdsOf(o))
      BY Finite DEF IdsOf
    <3> QED
      BY <3>3, <3>4, FS_AddElement
  <2>5. CASE FirstId(o)
    <3>1. Refs(o)' = Refs(o) - 1
      BY <2>3, <2>4, <2>5 DEF Refs, One, FirstId
    <3>2. ol_txrx_peer_unref_delete(o)
      BY <1>2, <2>1, <2>5 DEF PeerMapAdd
    <3> QED
      BY <2>1, <2>2, <3>1, <3>2, UnrefCounts DEF Counted
  <2>6. CASE ~FirstId(o)
    <3>1. Refs(o)' = Refs(o)
      BY <2>3, <2>4, <2>6 DEF Refs, One, FirstId
    <3>2. UNCHANGED <<ref_cnt, place>>
      BY <1>2, <2>1, <2>6 DEF PeerMapAdd
    <3> QED
      BY <2>2, <3>1, <3>2 DEF Counted, CountsRight
  <2> QED
    BY <2>5, <2>6
<1>3. CASE PeerUnmap(i)
  <2>1. /\ UNCHANGED <<valid, mc, has_id, held, rx>>
        /\ peer_id_to_obj_map' = [peer_id_to_obj_map EXCEPT ![i] = None]
    BY <1>3 DEF PeerUnmap
  <2>2. peer_id_to_obj_map \in [PeerIds -> Objs \cup {None}]
    BY DEF TypeOK
  <2>3. CASE peer_id_to_obj_map[i] # None
    <3>1. PICK o \in Objs : peer_id_to_obj_map[i] = o
      BY <2>2, <2>3
    <3>2. place[o] = "hashed" /\ ol_txrx_peer_unref_delete(o)
      BY <1>3, <2>3, <3>1 DEF PeerUnmap, NothingDangles
    <3>3. ASSUME NEW p \in Objs, p # o PROVE Refs(p)' = Refs(p)
      <4>1. IdsOf(p)' = IdsOf(p)
        BY <2>1, <2>2, <3>1, <3>3 DEF IdsOf
      <4> QED
        BY <2>1, <4>1, SameRefs DEF AttachRef, UsersOf
    <3>4. Refs(o)' = Refs(o) - 1
      <4>1. AttachRef(o)' <=> AttachRef(o)
        BY <2>1 DEF AttachRef
      <4>2. UsersOf(o)' = UsersOf(o)
        BY <2>1 DEF UsersOf
      <4>3. Cardinality(IdsOf(o)) \in Nat /\ Cardinality(UsersOf(o)) \in Nat
        BY Finite DEF IdsOf, UsersOf
      <4>4. Cardinality(IdsOf(o)') = Cardinality(IdsOf(o)) - 1
        <5>1. IdsOf(o)' = IdsOf(o) \ {i} /\ i \in IdsOf(o)
          BY <2>1, <2>2, <3>1 DEF IdsOf
        <5>2. IsFiniteSet(IdsOf(o))
          BY Finite DEF IdsOf
        <5> QED
          BY <5>1, <5>2, FS_RemoveElement
      <4> QED
        BY <2>1, <4>1, <4>2, <4>3, <4>4 DEF Refs, One
    <3> QED
      BY <3>2, <3>3, <3>4, UnrefCounts DEF Counted
  <2>4. CASE peer_id_to_obj_map[i] = None
    <3>1. peer_id_to_obj_map' = peer_id_to_obj_map
      BY <2>1, <2>2, <2>4
    <3>2. UNCHANGED <<ref_cnt, place>>
      BY <1>3, <2>4 DEF PeerUnmap
    <3> QED
      BY <2>1, <3>1, <3>2, QuietCounted DEF AttachRef
  <2> QED
    BY <2>3, <2>4
<1> QED
  BY <1>1, <1>2, <1>3 DEF RxStep

LEMMA UserCounted ==
    ASSUME IInv, NEW u \in Users,
           (\E m \in Macs : FindByAddr(u, m)) \/ FindAssoc(u) \/ Release(u) \/ Drop(u)
    PROVE  Counted
<1> USE DEF IInv, Base, Names
<1> None \notin Objs
  BY TxrxPeerAssumption
<1>0. held \in [Users -> Objs \cup {None}]
  BY DEF TypeOK
<1>1. ASSUME NEW o \in Objs, place[o] # "free", held[u] = None, Take(u, o)
      PROVE  Counted
  <2>1. /\ held' = [held EXCEPT ![u] = o]
        /\ ref_cnt' = [ref_cnt EXCEPT ![o] = @ + 1]
        /\ UNCHANGED <<place, valid, mc, has_id, peer_id_to_obj_map, rx>>
    BY <1>1 DEF Take, AddRef
  <2>2. ASSUME NEW p \in Objs, p # o PROVE Refs(p)' = Refs(p)
    <3>1. UsersOf(p)' = UsersOf(p)
      BY <1>0, <1>1, <2>1, <2>2 DEF UsersOf
    <3> QED
      BY <2>1, <3>1, SameRefs DEF AttachRef, IdsOf
  <2>3. Refs(o)' = Refs(o) + 1
    <3>1. (AttachRef(o)' <=> AttachRef(o)) /\ IdsOf(o)' = IdsOf(o)
      BY <2>1 DEF AttachRef, IdsOf
    <3>2. Cardinality(IdsOf(o)) \in Nat /\ Cardinality(UsersOf(o)) \in Nat
      BY Finite DEF IdsOf, UsersOf
    <3>3. Cardinality(UsersOf(o)') = Cardinality(UsersOf(o)) + 1
      <4>1. held[u] # o
        BY <1>1
      <4>2. UsersOf(o)' = UsersOf(o) \cup {u} /\ u \notin UsersOf(o)
        BY <1>0, <2>1, <4>1 DEF UsersOf
      <4>3. IsFiniteSet(UsersOf(o))
        BY Finite DEF UsersOf
      <4> QED
        BY <4>2, <4>3, FS_AddElement
    <3> QED
      BY <2>1, <3>1, <3>2, <3>3 DEF Refs, One
  <2>4. ref_cnt'[o] = ref_cnt[o] + 1 /\ \A p \in Objs : p # o =>
           ref_cnt'[p] = ref_cnt[p]
    BY <2>1 DEF TypeOK
  <2> QED
    BY <1>1, <2>1, <2>2, <2>3, <2>4 DEF Counted, CountsRight
<1>2. ASSUME NEW m \in Macs, FindByAddr(u, m) PROVE Counted
  BY <1>1, <1>2 DEF FindByAddr, HashFindValid, FoundFirst, peer_hash
<1>3. CASE FindAssoc(u)
  <2>1. last_real_peer \in Objs
    BY <1>3 DEF FindAssoc, TypeOK
  <2>2. place[last_real_peer] # "free"
    BY <2>1, TxrxPeerAssumption DEF NothingDangles
  <2> QED
    BY <1>1, <1>3, <2>1, <2>2 DEF FindAssoc
<1>4. ASSUME held[u] # None, held' = [held EXCEPT ![u] = None],
             UNCHANGED <<valid, mc, has_id, peer_id_to_obj_map, rx>>
      PROVE  \E o \in Objs :
                /\ held[u] = o /\ place[o] # "free"
                /\ Refs(o)' = Refs(o) - 1
                /\ \A p \in Objs : p # o => Refs(p)' = Refs(p)
  <2>1. PICK o \in Objs : held[u] = o
    BY <1>0, <1>4
  <2>2. ASSUME NEW p \in Objs, p # o PROVE Refs(p)' = Refs(p)
    <3>1. UsersOf(p)' = UsersOf(p)
      BY <1>0, <1>4, <2>1, <2>2 DEF UsersOf
    <3> QED
      BY <1>4, <3>1, SameRefs DEF AttachRef, IdsOf
  <2>3. Refs(o)' = Refs(o) - 1
    <3>1. (AttachRef(o)' <=> AttachRef(o)) /\ IdsOf(o)' = IdsOf(o)
      BY <1>4 DEF AttachRef, IdsOf
    <3>2. Cardinality(IdsOf(o)) \in Nat /\ Cardinality(UsersOf(o)) \in Nat
      BY Finite DEF IdsOf, UsersOf
    <3>3. Cardinality(UsersOf(o)') = Cardinality(UsersOf(o)) - 1
      <4>1. UsersOf(o)' = UsersOf(o) \ {u} /\ u \in UsersOf(o)
        BY <1>0, <1>4, <2>1 DEF UsersOf
      <4>2. IsFiniteSet(UsersOf(o))
        BY Finite DEF UsersOf
      <4> QED
        BY <4>1, <4>2, FS_RemoveElement
    <3> QED
      BY <1>4, <3>1, <3>2, <3>3 DEF Refs, One
  <2> QED
    BY <1>4, <2>1, <2>2, <2>3 DEF NothingDangles
<1>5. CASE Release(u)
  <2>1. PICK o \in Objs :
           /\ held[u] = o /\ place[o] # "free"
           /\ Refs(o)' = Refs(o) - 1
           /\ \A p \in Objs : p # o => Refs(p)' = Refs(p)
    BY <1>4, <1>5 DEF Release
  <2> QED
    BY <1>5, <2>1, UnrefCounts DEF Release, Counted
<1>6. CASE Drop(u)
  <2>1. PICK o \in Objs :
           /\ held[u] = o /\ place[o] # "free"
           /\ Refs(o)' = Refs(o) - 1
           /\ \A p \in Objs : p # o => Refs(p)' = Refs(p)
    BY <1>4, <1>6 DEF Drop
  <2>2. ref_cnt'[o] = ref_cnt[o] - 1 /\ \A p \in Objs : p # o =>
           ref_cnt'[p] = ref_cnt[p]
    BY <1>6, <2>1 DEF Drop, TypeOK
  <2> QED
    BY <1>6, <2>1, <2>2 DEF Drop, Counted, CountsRight
<1> QED
  BY <1>2, <1>3, <1>5, <1>6

-----------------------------------------------------------------------------
(* The rest of the inductive invariant.                                    *)
LEMMA StaysHashed ==
    ASSUME Counted, pdev' = pdev, NEW o \in Objs, place[o] = "hashed",
           \/ AttachRef(o)' \/ rx'.obj = o
           \/ \E i \in PeerIds : peer_id_to_obj_map'[i] = o
           \/ \E u \in Users : held'[u] = o
    PROVE  place'[o] = "hashed"
  BY NoRefs DEF Counted

Rest == Controller /\ Life /\ Closing /\ FreedIsEmpty /\ PendingIsNotEmpty

LEMMA QuietRest ==
    ASSUME Rest, UNCHANGED <<place, valid, delete_in_progress, mc,
                             last_real_peer, vdev, pdev>>
    PROVE  Rest'
  BY DEF Rest, Controller, Life, Closing, FreedIsEmpty, PendingIsNotEmpty,
     peer_list

(* ol_txrx_peer_unref_delete outside the controller thread.                *)
LEMMA UnrefRest ==
    ASSUME IInv, TypeOK', Counted, NEW o \in Objs, place[o] = "hashed",
           ol_txrx_peer_unref_delete(o),
           UNCHANGED <<valid, mc, last_real_peer, pdev>>
    PROVE  Rest'
<1> USE DEF IInv, Base, Names
<1>1. /\ \A p \in Objs : p # o => place'[p] = place[p]
                           /\ delete_in_progress'[p] = delete_in_progress[p]
      /\ place'[o] \in {"free", "hashed"}
      /\ delete_in_progress'[o] => delete_in_progress[o]
  BY UnrefEffect DEF TypeOK
<1>2. ASSUME NEW p \in Objs,
             valid[p] \/ (mc.obj = p /\ mc.pc \in {"forget", "unref"})
      PROVE  place'[p] = "hashed"
  <2>1. AttachRef(p)'
    BY <1>2 DEF AttachRef
  <2>2. place[p] = "hashed"
    BY <1>2 DEF Life, Controller
  <2> QED
    BY <2>1, <2>2, StaysHashed
<1>3. Controller'
  <2>1. mc.pc = "hash" => mc.obj \in Objs /\ mc.obj # o
    BY DEF Controller
  <2> QED
    BY <1>1, <1>2, <2>1 DEF Controller
<1>4. Life'
  BY <1>1, <1>2 DEF Life, TypeOK
<1>5. Closing'
  BY UnrefEffect DEF Closing, TypeOK
<1>6. FreedIsEmpty' /\ PendingIsNotEmpty'
  <2>1. o \in peer_list
    BY DEF peer_list
  <2>2. CASE UNCHANGED <<place, vdev>>
    BY <2>2 DEF FreedIsEmpty, PendingIsNotEmpty, peer_list
  <2>3. CASE /\ place' = [place EXCEPT ![o] = "free"]
             /\ vdev' = IF LastPeer(o) /\ vdev = "pending" THEN "freed" ELSE vdev
    <3>1. peer_list' = peer_list \ {o}
      BY <2>3 DEF peer_list, TypeOK
    <3> QED
      BY <2>1, <2>3, <3>1 DEF FreedIsEmpty, PendingIsNotEmpty, LastPeer
  <2> QED
    BY <2>2, <2>3, UnrefEffect
<1> QED
  BY <1>3, <1>4, <1>5, <1>6 DEF Rest

LEMMA ControllerRest ==
    ASSUME IInv, TypeOK', Counted, McStep \/ VdevDetach \/ PdevDetach
           \/ \E m \in Macs : AttachBegin(m) \/ RemoveBegin(m)
    PROVE  Rest'
<1> USE DEF IInv, Base, Names
<1> None \notin Objs
  BY TxrxPeerAssumption
<1>1. ASSUME NEW m \in Macs, AttachBegin(m) PROVE Rest'
  <2>1. /\ UNCHANGED <<place, valid, delete_in_progress, last_real_peer, vdev, pdev>>
        /\ mc.pc = "idle" /\ vdev = "up"
        /\ mc' = mc \/ (mc'.obj = None /\ mc'.pc \in {"alloc", "wait"})
    BY <1>1 DEF AttachBegin, peerVars
  <2> QED
    BY <2>1 DEF Rest, Controller, Life, Closing, FreedIsEmpty,
       PendingIsNotEmpty, peer_list
<1>2. ASSUME NEW m \in Macs, RemoveBegin(m) PROVE Rest'
  <2>1. /\ UNCHANGED <<place, valid, delete_in_progress, last_real_peer, vdev, pdev>>
        /\ mc.pc = "idle" /\ vdev = "up" /\ mc'.pc = "invalidate"
        /\ mc'.obj \in Objs /\ valid[mc'.obj]
    BY <1>2 DEF RemoveBegin, peerVars, HashFindValid, FoundFirst, peer_hash
  <2> QED
    BY <2>1 DEF Rest, Controller, Life, Closing, FreedIsEmpty,
       PendingIsNotEmpty, peer_list
<1>3. CASE AttachWait \/ AttachTimeout \/ AttachGivesUp \/ AttachFails
           \/ CreateSend
  <2>1. /\ UNCHANGED <<place, valid, delete_in_progress, last_real_peer, vdev, pdev>>
        /\ mc.pc \in {"wait", "timeout", "alloc", "create"}
        /\ mc'.pc \in {"idle", "timeout", "alloc"} /\ mc'.obj = None
    BY <1>3 DEF AttachWait, AttachTimeout, AttachGivesUp, AttachFails, CreateSend,
       Idle, peerVars, TypeOK, Controller
  <2> QED
    BY <2>1 DEF Rest, Controller, Life, Closing, FreedIsEmpty,
       PendingIsNotEmpty, peer_list
<1>4. CASE CreateFails
  <2>1. /\ UNCHANGED <<place, valid, delete_in_progress, last_real_peer, vdev, pdev>>
        /\ mc.pc = "create" /\ mc'.pc = "invalidate" /\ mc'.obj = mc.obj
    BY <1>4 DEF CreateFails, peerVars, TypeOK
  <2> QED
    BY <2>1 DEF Rest, Controller, Life, Closing, FreedIsEmpty,
       PendingIsNotEmpty, peer_list
<1>5. CASE AttachList
  <2>1. PICK o \in Objs :
           /\ place[o] = "free"
           /\ place' = [place EXCEPT ![o] = "listed"]
           /\ valid' = [valid EXCEPT ![o] = FALSE]
           /\ delete_in_progress' = [delete_in_progress EXCEPT ![o] = FALSE]
           /\ last_real_peer' = o
           /\ mc.pc = "alloc" /\ mc' = [mc EXCEPT !.pc = "hash", !.obj = o]
           /\ UNCHANGED <<vdev, pdev>>
    BY <1>5 DEF AttachList
  <2>2. /\ mc'.pc = "hash" /\ mc'.obj = o /\ vdev = "up"
        /\ place'[o] = "listed" /\ ~valid'[o] /\ ~delete_in_progress'[o]
        /\ \A p \in Objs : p # o =>
              /\ place'[p] = place[p] /\ valid'[p] = valid[p]
              /\ delete_in_progress'[p] = delete_in_progress[p]
    BY <2>1 DEF TypeOK, Closing
  <2>3. Controller' /\ Life'
    BY <2>1, <2>2 DEF Controller, Life
  <2> QED
    BY <2>1, <2>2, <2>3 DEF Rest, Closing, FreedIsEmpty, PendingIsNotEmpty
<1>6. CASE AttachHash
  <2>1. PICK o \in Objs :
        /\ mc.obj = o /\ place[o] = "listed" /\ ~delete_in_progress[o]
        /\ valid' = [valid EXCEPT ![o] = TRUE]
        /\ place' = [place EXCEPT ![o] = "hashed"]
        /\ mc.pc = "hash" /\ mc' = [mc EXCEPT !.pc = "create"]
        /\ UNCHANGED <<delete_in_progress, last_real_peer, vdev, pdev>>
    BY <1>6 DEF AttachHash, Controller
  <2>2. /\ mc'.pc = "create" /\ mc'.obj = o /\ vdev = "up"
        /\ place'[o] = "hashed" /\ valid'[o]
        /\ \A p \in Objs : p # o => place'[p] = place[p] /\ valid'[p] = valid[p]
    BY <2>1 DEF TypeOK, Closing
  <2>3. Controller' /\ Life'
    BY <2>1, <2>2 DEF Controller, Life
  <2> QED
    BY <2>1, <2>2, <2>3 DEF Rest, Closing, FreedIsEmpty, PendingIsNotEmpty
<1>7. CASE DetachInvalidate
  <2>1. PICK o \in Objs :
        /\ mc.obj = o /\ place[o] = "hashed" /\ valid[o]
        /\ valid' = [valid EXCEPT ![o] = FALSE]
        /\ mc.pc = "invalidate" /\ mc' = [mc EXCEPT !.pc = "forget"]
        /\ UNCHANGED <<place, delete_in_progress, last_real_peer, vdev, pdev>>
    BY <1>7 DEF DetachInvalidate, Controller, Life
  <2>2. /\ mc'.pc = "forget" /\ mc'.obj = o /\ vdev = "up" /\ ~valid'[o]
        /\ \A p \in Objs : p # o => valid'[p] = valid[p]
    BY <2>1 DEF TypeOK, Closing
  <2>3. Controller' /\ Life'
    BY <2>1, <2>2 DEF Controller, Life
  <2> QED
    BY <2>1, <2>2, <2>3 DEF Rest, Closing, FreedIsEmpty, PendingIsNotEmpty
<1>8. CASE DetachForget
  <2>1. PICK o \in Objs :
        /\ mc.obj = o /\ place[o] = "hashed" /\ ~valid[o]
        /\ delete_in_progress' = [delete_in_progress EXCEPT ![o] = TRUE]
        /\ last_real_peer' = Forget(o)
        /\ mc.pc = "forget" /\ mc' = [mc EXCEPT !.pc = "unref"]
        /\ UNCHANGED <<place, valid, vdev, pdev>>
    BY <1>8 DEF DetachForget, Controller
  <2>2. /\ mc'.pc = "unref" /\ mc'.obj = o /\ vdev = "up"
        /\ \A p \in Objs : p # o => delete_in_progress'[p] = delete_in_progress[p]
        /\ last_real_peer' # o
        /\ \A p \in Objs : last_real_peer' = p => last_real_peer = p
    BY <2>1 DEF TypeOK, Closing, Forget
  <2>3. Controller' /\ Life'
    BY <2>1, <2>2 DEF Controller, Life
  <2> QED
    BY <2>1, <2>2, <2>3 DEF Rest, Closing, FreedIsEmpty, PendingIsNotEmpty
<1>9. CASE DetachUnref
  <2>1. PICK o \in Objs :
        /\ mc.obj = o /\ place[o] = "hashed" /\ ~valid[o] /\ mc.pc = "unref"
        /\ mc'.pc = "idle" /\ mc'.obj = None /\ ol_txrx_peer_unref_delete(o)
        /\ UNCHANGED <<valid, last_real_peer, pdev>> /\ vdev = "up"
    BY <1>9 DEF DetachUnref, Controller, Idle, Closing
  <2>2. /\ \A p \in Objs : p # o => place'[p] = place[p]
                             /\ delete_in_progress'[p] = delete_in_progress[p]
        /\ place'[o] \in {"free", "hashed"} /\ vdev' = "up"
    BY <2>1, UnrefEffect DEF TypeOK
  <2>3. Controller' /\ Life'
    BY <2>1, <2>2 DEF Controller, Life
  <2> QED
    BY <2>1, <2>2, <2>3 DEF Rest, Closing, FreedIsEmpty, PendingIsNotEmpty
<1>10. CASE VdevDetach
  <2>1. /\ UNCHANGED <<place, valid, delete_in_progress, mc, last_real_peer, pdev>>
        /\ mc.pc = "idle" /\ vdev = "up"
        /\ \A o \in peer_list : delete_in_progress[o]
        /\ vdev' = IF peer_list = {} THEN "freed" ELSE "pending"
    BY <1>10 DEF VdevDetach, peerVars
  <2>2. \A o \in Objs : ~valid[o]
    BY <2>1 DEF Life, peer_list
  <2>3. pdev = "up"
    BY <2>1 DEF Closing, TypeOK
  <2> QED
    BY <2>1, <2>2, <2>3 DEF Rest, Controller, Life, Closing, FreedIsEmpty,
       PendingIsNotEmpty, peer_list
<1>11. CASE PdevDetach
  <2>1. /\ \A o \in Objs : place'[o] = "free"
        /\ \A o \in Objs : ~valid[o]
        /\ UNCHANGED <<valid, last_real_peer, mc>>
        /\ mc.pc = "idle" /\ vdev # "up" /\ vdev' # "up"
    BY <1>11 DEF PdevDetach, Closing
  <2>2. vdev' # "pending"
    <3>1. vdev = "pending" => peer_hash # {}
      BY <2>1 DEF PendingIsNotEmpty, peer_list, peer_hash, Life, TypeOK
    <3> QED
      BY <1>11, <3>1 DEF PdevDetach
  <2> QED
    BY <2>1, <2>2 DEF Rest, Controller, Life, Closing, FreedIsEmpty,
       PendingIsNotEmpty, peer_list
<1> QED
  BY <1>1, <1>2, <1>3, <1>4, <1>5, <1>6, <1>7, <1>8, <1>9, <1>10, <1>11
  DEF McStep

LEMMA OthersRest ==
    ASSUME IInv, ~wiped', TypeOK', Counted,
           \/ \E i \in PeerIds : RxStep(i)
           \/ \E u \in Users : \/ \E m \in Macs : FindByAddr(u, m)
                               \/ FindAssoc(u) \/ Release(u) \/ Drop(u)
    PROVE  Rest'
<1> USE DEF IInv, Base, Names
<1> Rest
  BY DEF Rest
<1>1. ASSUME NEW i \in PeerIds, PeerMapFind(i) PROVE Rest'
  BY <1>1, QuietRest DEF PeerMapFind
<1>2. CASE PeerMapAdd
  <2>1. rx.obj \in Objs /\ place[rx.obj] = "hashed"
    BY <1>2, TxrxPeerAssumption DEF PeerMapAdd, Mapping, NothingDangles
  <2>2. CASE FirstId(rx.obj)
    BY <1>2, <2>1, <2>2, UnrefRest DEF PeerMapAdd
  <2>3. CASE ~FirstId(rx.obj)
    BY <1>2, <2>3, QuietRest DEF PeerMapAdd
  <2> QED
    BY <2>2, <2>3
<1>3. ASSUME NEW i \in PeerIds, PeerUnmap(i) PROVE Rest'
  <2>1. CASE peer_id_to_obj_map[i] # None
    <3>1. peer_id_to_obj_map[i] \in Objs /\ place[peer_id_to_obj_map[i]] = "hashed"
      BY <2>1 DEF TypeOK, NothingDangles
    <3> QED
      BY <1>3, <2>1, <3>1, UnrefRest DEF PeerUnmap
  <2>2. CASE peer_id_to_obj_map[i] = None
    BY <1>3, <2>2, QuietRest DEF PeerUnmap
  <2> QED
    BY <2>1, <2>2
<1>4. ASSUME NEW u \in Users, NEW m \in Macs, FindByAddr(u, m) PROVE Rest'
  BY <1>4, QuietRest DEF FindByAddr, Take
<1>5. ASSUME NEW u \in Users, FindAssoc(u) PROVE Rest'
  BY <1>5, QuietRest DEF FindAssoc, Take
<1>6. ASSUME NEW u \in Users, Release(u) PROVE Rest'
  <2>1. held[u] \in Objs /\ place[held[u]] # "free"
    BY <1>6 DEF Release, TypeOK, NothingDangles
  <2>2. CASE place[held[u]] = "hashed"
    BY <1>6, <2>1, <2>2, UnrefRest DEF Release
  <2>3. CASE place[held[u]] # "hashed"
    <3>1. ref_cnt[held[u]] # 1
      BY <1>6, <2>1, <2>3 DEF Release, TypeOK
    <3>2. UNCHANGED <<place, delete_in_progress, vdev>>
      BY <1>6, <2>1, <3>1, UnrefEffect DEF Release
    <3> QED
      BY <1>6, <3>2, QuietRest DEF Release
  <2> QED
    BY <2>2, <2>3
<1>7. ASSUME NEW u \in Users, Drop(u) PROVE Rest'
  BY <1>7, QuietRest DEF Drop
<1> QED
  BY <1>1, <1>2, <1>3, <1>4, <1>5, <1>6, <1>7 DEF RxStep

(* The id map and the map handler refer to hashed peers, the users to      *)
(* peers that were not freed; an id that is not mapped refers to none.     *)
Pointers ==
    /\ \A i \in PeerIds : peer_id_to_obj_map[i] # None =>
          place[peer_id_to_obj_map[i]] = "hashed"
    /\ \A u \in Users : held[u] # None => place[held[u]] # "free"
    /\ rx.obj # None => place[rx.obj] = "hashed"
    /\ Mapping

(* It is enough that new pointers point to such peers.                     *)
LEMMA PointersKept ==
    ASSUME TypeOK', Counted, pdev' = pdev, Mapping',
           \A i \in PeerIds : peer_id_to_obj_map'[i] # None =>
              place[peer_id_to_obj_map'[i]] = "hashed",
           \A u \in Users : held'[u] # None => place[held'[u]] # "free",
           rx'.obj # None => place[rx'.obj] = "hashed"
    PROVE  Pointers'
<1>1. ASSUME NEW i \in PeerIds, peer_id_to_obj_map'[i] # None
      PROVE  place'[peer_id_to_obj_map'[i]] = "hashed"
  <2>1. peer_id_to_obj_map'[i] \in Objs
    BY <1>1 DEF TypeOK
  <2> QED
    BY <1>1, <2>1, StaysHashed
<1>2. ASSUME NEW u \in Users, held'[u] # None PROVE place'[held'[u]] # "free"
  <2>1. held'[u] \in Objs /\ place[held'[u]] # "free"
    BY <1>2 DEF TypeOK
  <2> QED
    BY <1>2, <2>1, NoRefs DEF Counted
<1>3. ASSUME rx'.obj # None PROVE place'[rx'.obj] = "hashed"
  <2>1. rx'.obj \in Objs
    BY <1>3 DEF TypeOK
  <2> QED
    BY <1>3, <2>1, StaysHashed
<1> QED
  BY <1>1, <1>2, <1>3 DEF Pointers

LEMMA ControllerPointers ==
    ASSUME IInv, TypeOK', Counted, McStep \/ VdevDetach \/ PdevDetach
           \/ \E m \in Macs : AttachBegin(m) \/ RemoveBegin(m)
    PROVE  Pointers'
<1> USE DEF IInv, Base, Names
<1>1. CASE PdevDetach
  <2>1. /\ \A i \in PeerIds : peer_id_to_obj_map'[i] = None
        /\ \A u \in Users : held'[u] = None
        /\ rx' = RxIdle
    BY <1>1 DEF PdevDetach
  <2> QED
    BY <2>1 DEF Pointers, Mapping, RxIdle
<1>2. CASE /\ UNCHANGED <<peer_id_to_obj_map, held, rx, pdev>>
           /\ \A i \in PeerIds : target'[i].mapped <=> target[i].mapped
  <2>1. Mapping'
    BY <1>2 DEF Mapping, TypeOK
  <2> QED
    BY <1>2, <2>1, PointersKept DEF NothingDangles
<1>3. CASE CreateSend
  <2>1. PICK i \in PeerIds : target' = [target EXCEPT ![i].mac = mc.mac]
    BY <1>3 DEF CreateSend
  <2>2. \A j \in PeerIds : target'[j].mapped <=> target[j].mapped
    BY <2>1 DEF TypeOK
  <2> QED
    BY <1>2, <1>3, <2>2 DEF CreateSend
<1>4. ASSUME NEW m \in Macs, RemoveBegin(m) PROVE Pointers'
  <2>1. \A j \in PeerIds : target'[j].mapped <=> target[j].mapped
    <3>1. CASE UNCHANGED target
      BY <3>1
    <3>2. CASE target' = [j \in PeerIds |->
                  [target[j] EXCEPT !.deleted = @ \/ target[j].mac = m]]
      <4>1. target \in [PeerIds -> [mac : Macs \cup {None}, mapped : BOOLEAN,
                                    deleted : BOOLEAN]]
        BY DEF TypeOK
      <4> QED BY <3>2, <4>1, SMTT(40)
    <3> QED
      BY <1>4, <3>1, <3>2 DEF RemoveBegin
  <2> QED
    BY <1>2, <1>4, <2>1 DEF RemoveBegin
<1>5. ASSUME NEW m \in Macs, AttachBegin(m) PROVE Pointers'
  BY <1>2, <1>5 DEF AttachBegin
<1>6. CASE AttachWait \/ AttachTimeout \/ AttachGivesUp \/ AttachList
           \/ AttachFails \/ AttachHash \/ CreateFails \/ DetachInvalidate \/ DetachForget
           \/ DetachUnref \/ VdevDetach
  <2>1. UNCHANGED <<peer_id_to_obj_map, held, rx, pdev, target>>
    BY <1>6 DEF AttachWait, AttachTimeout, AttachGivesUp, AttachList, AttachFails,
       AttachHash, CreateFails, DetachInvalidate, DetachForget, DetachUnref, VdevDetach
  <2> QED
    BY <1>2, <2>1
<1> QED
  BY <1>1, <1>3, <1>4, <1>5, <1>6 DEF McStep

LEMMA OthersPointers ==
    ASSUME IInv, TypeOK', Counted,
           \/ \E i \in PeerIds : RxStep(i)
           \/ \E u \in Users : \/ \E m \in Macs : FindByAddr(u, m)
                               \/ FindAssoc(u) \/ Release(u) \/ Drop(u)
    PROVE  Pointers'
<1> USE DEF IInv, Base, Names
<1> None \notin Objs
  BY TxrxPeerAssumption
<1>1. ASSUME NEW i \in PeerIds, PeerMapFind(i) PROVE Pointers'
  <2>1. UNCHANGED <<peer_id_to_obj_map, held, pdev>> /\ rx = RxIdle
        /\ ~target[i].mapped
    BY <1>1 DEF PeerMapFind
  <2>2. ASSUME NEW o \in HashFind(target[i].mac), rx' = [obj |-> o, id |-> i],
               UNCHANGED target
        PROVE  Pointers'
    <3>1. o \in Objs /\ place[o] = "hashed" /\ rx'.obj = o /\ rx'.id = i
      BY <2>2 DEF HashFind, FoundFirst, peer_hash
    <3>2. Mapping'
      BY <2>1, <2>2, <3>1 DEF Mapping
    <3> QED
      BY <2>1, <3>1, <3>2, PointersKept DEF NothingDangles
  <2>3. CASE /\ target' = [target EXCEPT ![i].mapped = TRUE]
             /\ UNCHANGED rx
    <3>1. \A j \in PeerIds : ~target'[j].mapped => ~target[j].mapped
      BY <2>3 DEF TypeOK
    <3>2. Mapping'
      BY <2>1, <2>3, <3>1 DEF Mapping
    <3> QED
      BY <2>1, <2>3, <3>2, PointersKept DEF NothingDangles
  <2> QED
    BY <1>1, <2>2, <2>3 DEF PeerMapFind
<1>2. CASE PeerMapAdd
  <2>1. /\ rx.obj \in Objs /\ rx.id \in PeerIds /\ place[rx.obj] = "hashed"
        /\ peer_id_to_obj_map' = [peer_id_to_obj_map EXCEPT ![rx.id] = rx.obj]
        /\ target' = [target EXCEPT ![rx.id].mapped = TRUE]
        /\ rx' = RxIdle /\ UNCHANGED <<held, pdev>>
    BY <1>2 DEF PeerMapAdd, Mapping, NothingDangles
  <2>2. /\ \A j \in PeerIds : ~target'[j].mapped => ~target[j].mapped /\ j # rx.id
        /\ \A j \in PeerIds : j # rx.id => peer_id_to_obj_map'[j] = peer_id_to_obj_map[j]
        /\ peer_id_to_obj_map'[rx.id] = rx.obj
    BY <2>1 DEF TypeOK
  <2>3. Mapping'
    BY <2>1, <2>2 DEF Mapping
  <2> QED
    BY <2>1, <2>2, <2>3, PointersKept DEF NothingDangles, RxIdle
<1>3. ASSUME NEW i \in PeerIds, PeerUnmap(i) PROVE Pointers'
  <2>1. /\ rx = RxIdle /\ UNCHANGED <<rx, held, pdev>>
        /\ peer_id_to_obj_map' = [peer_id_to_obj_map EXCEPT ![i] = None]
        /\ target' = [target EXCEPT ![i] = Unused]
    BY <1>3 DEF PeerUnmap
  <2>2. /\ \A j \in PeerIds : j # i =>
              /\ target'[j] = target[j]
              /\ peer_id_to_obj_map'[j] = peer_id_to_obj_map[j]
        /\ peer_id_to_obj_map'[i] = None
    BY <2>1 DEF TypeOK
  <2>3. Mapping'
    BY <2>1, <2>2 DEF Mapping
  <2> QED
    BY <2>1, <2>2, <2>3, PointersKept DEF NothingDangles, RxIdle
<1>4. ASSUME NEW u \in Users, NEW o \in Objs, place[o] # "free", Take(u, o)
      PROVE  Pointers'
  <2>1. /\ UNCHANGED <<rx, peer_id_to_obj_map, target, pdev>>
        /\ held' = [held EXCEPT ![u] = o]
    BY <1>4 DEF Take
  <2>2. \A v \in Users : held'[v] = held[v] \/ held'[v] = o
    BY <2>1 DEF TypeOK
  <2>3. Mapping'
    BY <2>1 DEF Mapping
  <2> QED
    BY <1>4, <2>1, <2>2, <2>3, PointersKept DEF NothingDangles
<1>5. ASSUME NEW u \in Users, NEW m \in Macs, FindByAddr(u, m) PROVE Pointers'
  BY <1>4, <1>5 DEF FindByAddr, HashFindValid, FoundFirst, peer_hash
<1>6. ASSUME NEW u \in Users, FindAssoc(u) PROVE Pointers'
  <2>1. last_real_peer \in Objs
    BY <1>6 DEF FindAssoc, TypeOK
  <2>2. place[last_real_peer] # "free"
    BY <2>1 DEF NothingDangles
  <2> QED
    BY <1>4, <1>6, <2>1, <2>2 DEF FindAssoc
<1>7. ASSUME NEW u \in Users, Release(u) \/ Drop(u) PROVE Pointers'
  <2>1. /\ UNCHANGED <<rx, peer_id_to_obj_map, target, pdev>>
        /\ held' = [held EXCEPT ![u] = None]
    BY <1>7 DEF Release, Drop
  <2>2. \A v \in Users : held'[v] = held[v] \/ held'[v] = None
    BY <2>1 DEF TypeOK
  <2>3. Mapping'
    BY <2>1 DEF Mapping
  <2> QED
    BY <2>1, <2>2, <2>3, PointersKept DEF NothingDangles
<1> QED
  BY <1>1, <1>2, <1>3, <1>5, <1>6, <1>7 DEF RxStep

-----------------------------------------------------------------------------
LEMMA NamesKept ==
    ASSUME Base, Next PROVE Names'
<1> None \notin Objs
  BY TxrxPeerAssumption
<1> USE DEF Base, TypeOK, Names
<1>1. ASSUME NEW m \in Macs, AttachBegin(m) PROVE Names'
  BY <1>1 DEF AttachBegin
<1>2. ASSUME NEW m \in Macs, RemoveBegin(m) PROVE Names'
  BY <1>2 DEF RemoveBegin, HashFindValid, FoundFirst, peer_hash
<1>3. CASE AttachList
  BY <1>3 DEF AttachList
<1>4. CASE AttachWait \/ AttachTimeout \/ AttachGivesUp \/ AttachFails \/ CreateSend
           \/ DetachUnref
  <2>1. mc'.pc \in {"idle", "timeout", "alloc"} /\ UNCHANGED rx
    BY <1>4 DEF AttachWait, AttachTimeout, AttachGivesUp, AttachFails, CreateSend,
       DetachUnref, Idle
  <2> QED
    BY <2>1
<1>5. CASE AttachHash \/ CreateFails \/ DetachInvalidate \/ DetachForget
  <2>1. mc.obj \in Objs /\ mc'.obj = mc.obj /\ UNCHANGED rx
    BY <1>5 DEF AttachHash, CreateFails, DetachInvalidate, DetachForget
  <2> QED
    BY <2>1
<1>6. CASE VdevDetach \/ PdevDetach
  BY <1>6 DEF VdevDetach, PdevDetach
<1>7. ASSUME NEW i \in PeerIds, PeerMapFind(i) PROVE Names'
  <2>1. UNCHANGED mc
    BY <1>7 DEF PeerMapFind
  <2>2. CASE UNCHANGED rx
    BY <2>1, <2>2
  <2>3. ASSUME NEW o \in HashFind(target[i].mac), rx' = [obj |-> o, id |-> i]
        PROVE  Names'
    <3>1. o \in Objs
      BY DEF HashFind, FoundFirst, peer_hash
    <3> QED
      BY <2>1, <2>3, <3>1
  <2> QED
    BY <1>7, <2>2, <2>3 DEF PeerMapFind
<1>8. ASSUME NEW i \in PeerIds, PeerMapAdd \/ PeerUnmap(i) PROVE Names'
  BY <1>8 DEF PeerMapAdd, PeerUnmap
<1>9. ASSUME NEW u \in Users,
             (\E m \in Macs : FindByAddr(u, m)) \/ FindAssoc(u)
      PROVE  Names'
  BY <1>9 DEF FindByAddr, FindAssoc, Take
<1>10. ASSUME NEW u \in Users, Release(u) \/ Drop(u) PROVE Names'
  BY <1>10 DEF Release, Drop
<1>11. CASE Down
  BY <1>11 DEF Down, vars
<1> QED
  BY <1>1, <1>2, <1>3, <1>4, <1>5, <1>6, <1>7, <1>8, <1>9, <1>10, <1>11
  DEF Next, McStep, RxStep

LEMMA BaseKept == Base /\ [Next]_vars => Base'
<1> SUFFICES ASSUME Base, [Next]_vars PROVE Base'
  OBVIOUS
<1>1. CASE Next
  <2>1. Names'
    BY <1>1, NamesKept
  <2>2. TypeOK'
    <3>1. CASE Down
      BY <3>1 DEF Down, vars, peerVars, waitVars, Base, TypeOK
    <3> QED
      BY <1>1, <3>1, ControllerTypes, ReceiveTypes, UserTypes DEF Next
  <2> QED
    BY <2>1, <2>2 DEF Base
<1>2. CASE UNCHANGED vars
  BY <1>2 DEF vars, peerVars, waitVars, Base, TypeOK, Names
<1> QED
  BY <1>1, <1>2

(* The race is not forgotten.                                              *)
LEMMA WipedStays == [Next]_vars /\ ~wiped' => ~wiped
<1> SUFFICES ASSUME [Next]_vars, wiped PROVE wiped'
  OBVIOUS
<1>1. CASE \/ \E m \in Macs : AttachBegin(m) \/ RemoveBegin(m)
           \/ McStep \/ VdevDetach \/ PdevDetach
  BY <1>1 DEF AttachBegin, RemoveBegin, McStep, AttachWait, AttachTimeout,
     AttachGivesUp, AttachList, AttachFails, AttachHash, CreateSend, CreateFails,
     DetachInvalidate, DetachForget, DetachUnref, VdevDetach, PdevDetach
<1>2. CASE \E i \in PeerIds : RxStep(i)
  BY <1>2 DEF RxStep, PeerMapFind, PeerMapAdd, PeerUnmap
<1>3. ASSUME NEW u \in Users,
             \/ \E m \in Macs : FindByAddr(u, m)
             \/ FindAssoc(u) \/ Release(u) \/ Drop(u)
      PROVE  wiped'
  BY <1>3 DEF FindByAddr, FindAssoc, Take, Release, Drop
<1>4. CASE Down \/ UNCHANGED vars
  BY <1>4 DEF Down, vars
<1> QED
  BY <1>1, <1>2, <1>3, <1>4 DEF Next

LEMMA Initially == Init => IInv
<1> SUFFICES ASSUME Init PROVE IInv
  OBVIOUS
<1> None \notin Objs
  BY TxrxPeerAssumption
<1>1. Base /\ ~wiped
  BY InitTypes DEF Init, Base, Names, Idle
<1>2. CountsRight /\ NothingDangles /\ FreedIsEmpty /\ PendingIsNotEmpty
  BY DEF Init, CountsRight, NothingDangles, FreedIsEmpty,
     PendingIsNotEmpty, peer_list, Idle, RxIdle
<1>3. Controller /\ Life /\ Mapping /\ Closing
  BY DEF Init, Controller, Life, Mapping, Closing, Idle, RxIdle
<1> QED
  BY <1>1, <1>2, <1>3 DEF IInv

LEMMA Inductive == IInv /\ [Next]_vars /\ ~wiped' => IInv'
<1> SUFFICES ASSUME IInv, [Next]_vars, ~wiped' PROVE IInv'
  OBVIOUS
<1>0. Base'
  BY BaseKept DEF IInv
<1>t. TypeOK'
  BY <1>0 DEF Base
<1>1. ASSUME Counted, Rest', Pointers' PROVE IInv'
  <2>1. last_real_peer' # None => place'[last_real_peer'] # "free"
    <3>1. last_real_peer' # None => last_real_peer' \in Objs
      BY <1>t DEF TypeOK
    <3> QED
      BY <1>1, <3>1 DEF Rest, Controller, Life
  <2>2. mc'.pc \in {"create", "invalidate", "forget", "unref"} =>
            mc'.obj \in Objs /\ place'[mc'.obj] = "hashed"
    BY <1>0, <1>1 DEF Base, Names, Rest, Controller, Life
  <2>3. NothingDangles'
    BY <1>1, <2>1, <2>2 DEF NothingDangles, Pointers
  <2> QED
    BY <1>0, <1>1, <2>3 DEF IInv, Counted, Rest, Pointers
<1>2. CASE McStep \/ VdevDetach \/ PdevDetach
           \/ \E m \in Macs : AttachBegin(m) \/ RemoveBegin(m)
  BY <1>1, <1>2, <1>t, ControllerCounted, ControllerRest, ControllerPointers
<1>3. CASE \/ \E i \in PeerIds : RxStep(i)
           \/ \E u \in Users : \/ \E m \in Macs : FindByAddr(u, m)
                               \/ FindAssoc(u) \/ Release(u) \/ Drop(u)
  <2>1. Counted
    BY <1>3, ReceiveCounted, UserCounted
  <2> QED
    BY <1>1, <1>3, <1>t, <2>1, OthersRest, OthersPointers
<1>4. CASE UNCHANGED vars
  <2>1. CountsRight'
    BY <1>4 DEF vars, peerVars, IInv, CountsRight, Refs, One, AttachRef,
       IdsOf, UsersOf
  <2> QED
    BY <1>0, <1>4, <2>1 DEF vars, peerVars, IInv, NothingDangles, FreedIsEmpty,
       PendingIsNotEmpty, peer_list, Controller, Life, Mapping, Closing
<1> QED
  BY <1>2, <1>3, <1>4 DEF Next, Down

(* The inductive invariant holds in every interleaving of the controller,  *)
(* the message handlers and the lookups: counts, pointers and pending      *)
(* deletions agree whenever peer_ref_mutex is free, until a peer is used   *)
(* while ol_txrx_peer_attach initialises it.                               *)
THEOREM Invariance == Spec => [](~wiped => IInv)
<1>1. Init => (~wiped => IInv)
  BY Initially
<1>2. (~wiped => IInv) /\ [Next]_vars => (~wiped => IInv)'
  BY Inductive, WipedStays
<1> QED
  BY <1>1, <1>2, PTL DEF Spec

(* Whatever the order of attaches, messages, lookups and deletions, every  *)
(* variable of the data path keeps its range, also after that race: mc and *)
(* rx, too, only ever name objects and ids.                                *)
THEOREM TypeCorrect == Spec => []TypeOK
<1>1. Init => Base
  BY Initially DEF IInv
<1>2. Base => TypeOK
  BY DEF Base
<1> QED
  BY <1>1, <1>2, BaseKept, PTL DEF Spec

(* The count of a peer that can be found is the number of its references,  *)
(* over attach, map and unmap messages, lookups (also of a peer that is    *)
(* being attached, unless its initialisation wipes them out) and both ways *)
(* of giving a reference back, in every interleaving.                      *)
THEOREM CountsAreRight == Spec => []RefCounted
<1>1. (~wiped => IInv) => RefCounted
  BY DEF IInv, RefCounted
<1> QED
  BY <1>1, Invariance, PTL

(* ol_txrx_peer_unref_delete never frees a peer that the id map,           *)
(* last_real_peer or a context still leads to, until a peer is used while  *)
(* its attach initialises it.                                              *)
THEOREM NoDanglingPeer == Spec => []ReferencedIsLive
<1>1. (~wiped => IInv) => ReferencedIsLive
  BY DEF IInv, ReferencedIsLive
<1> QED
  BY <1>1, Invariance, PTL

(* A vdev is not freed while it has peers, under the same condition.       *)
THEOREM VdevIsFreedLast == Spec => []VdevOutlivesPeers
<1>1. (~wiped => IInv) => VdevOutlivesPeers
  BY DEF IInv, VdevOutlivesPeers
<1> QED
  BY <1>1, Invariance, PTL

(* A pending deletion of a vdev has a peer that will complete it, under    *)
(* the same condition.                                                     *)
THEOREM PendingIsCompletable == Spec => []PendingHasPeers
<1>1. (~wiped => IInv) => PendingHasPeers
  BY DEF IInv, PendingHasPeers
<1> QED
  BY <1>1, Invariance, PTL
-----------------------------------------------------------------------------
(* One peer per address.  An attach that is about to list its peer, or     *)
(* whose wait was ended, finds no peer with its address on the vdev,       *)
(* unless a peer with another address ended the wait.                      *)
Cleared == mc.pc = "alloc" \/ (mc.pc = "wait" /\ wait_delete_comp)

AddrInv ==
    /\ mac_addr \in [Objs -> Macs \cup {None}]
    /\ mixedUp \in BOOLEAN
    /\ ~mixedUp => /\ \A o, p \in peer_list : mac_addr[o] = mac_addr[p] => o = p
                   /\ Cleared => \A o \in peer_list : mac_addr[o] # mc.mac

(* A step that lists no peer and ends no wait.                             *)
LEMMA AddrQuiet ==
    ASSUME AddrInv, UNCHANGED <<mac_addr, mixedUp>>,
           peer_list' \subseteq peer_list,
           Cleared' => Cleared /\ mc'.mac = mc.mac
    PROVE  AddrInv'
  BY DEF AddrInv

(* Giving a reference back: a deletion that ends the wait of an attach     *)
(* takes the only peer with that address away, or mixes the wait up.       *)
LEMMA AddrUnref ==
    ASSUME TypeOK, AddrInv, NEW o \in Objs, place[o] # "free",
           ol_txrx_peer_unref_delete(o), mac_addr' = mac_addr,
           mc' = mc \/ mc'.pc = "idle"
    PROVE  AddrInv'
<1>1. CASE ref_cnt[o] # 1
  <2>1. UNCHANGED <<place, waitVars>>
    BY <1>1 DEF ol_txrx_peer_unref_delete
  <2> QED
    BY <2>1, AddrQuiet DEF waitVars, peer_list, Cleared
<1>2. CASE ref_cnt[o] = 1
  <2>1. place' = [place EXCEPT ![o] = "free"]
    BY <1>2 DEF ol_txrx_peer_unref_delete
  <2>2. o \in peer_list /\ peer_list' = peer_list \ {o}
    BY <2>1 DEF TypeOK, peer_list
  <2>3. CASE ~Waited(o)
    <3>1. UNCHANGED waitVars
      BY <1>2, <2>3 DEF ol_txrx_peer_unref_delete
    <3> QED
      BY <2>2, <3>1, AddrQuiet DEF waitVars, Cleared
  <2>4. CASE Waited(o)
    <3>1. mixedUp' = (mixedUp \/ (mc.pc = "wait" /\ mc.mac # mac_addr[o]))
      BY <1>2, <2>4 DEF ol_txrx_peer_unref_delete
    <3>2. mixedUp' \in BOOLEAN
      BY <3>1
    <3>3. ASSUME ~mixedUp'
          PROVE  /\ ~mixedUp /\ (mc.pc = "wait" => mc.mac = mac_addr[o])
                 /\ \A p, q \in peer_list' : mac_addr'[p] = mac_addr'[q] => p = q
      BY <2>2, <3>1, <3>3 DEF AddrInv
    <3>4. ASSUME ~mixedUp', Cleared', NEW p \in peer_list'
          PROVE  mac_addr'[p] # mc'.mac
      <4>1. mc' = mc /\ p \in peer_list /\ p # o /\ ~mixedUp
        BY <2>2, <3>3, <3>4 DEF Cleared
      <4>2. CASE mc.pc = "alloc"
        BY <4>1, <4>2 DEF AddrInv, Cleared
      <4>3. CASE mc.pc = "wait"
        BY <2>2, <3>3, <3>4, <4>1, <4>3 DEF AddrInv
      <4> QED
        BY <3>4, <4>1, <4>2, <4>3 DEF Cleared
    <3> QED
      BY <3>2, <3>3, <3>4 DEF AddrInv
  <2> QED
    BY <2>3, <2>4
<1> QED
  BY <1>1, <1>2

LEMMA AddrController ==
    ASSUME IInv, AddrInv, McStep \/ VdevDetach \/ PdevDetach
           \/ \E m \in Macs : AttachBegin(m) \/ RemoveBegin(m)
    PROVE  AddrInv'
<1> USE DEF IInv, Base, Names
<1>1. ASSUME NEW m \in Macs, AttachBegin(m) PROVE AddrInv'
  <2>1. UNCHANGED <<mac_addr, mixedUp, place>> /\ mc.pc = "idle"
    BY <1>1 DEF AttachBegin, peerVars, waitVars
  <2>2. peer_list' = peer_list
    BY <2>1 DEF peer_list
  <2>3. CASE Live(m) # {}
    <3>1. ~Cleared'
      BY <1>1, <2>1, <2>3 DEF AttachBegin, Cleared
    <3> QED
      BY <2>1, <2>2, <3>1, AddrQuiet
  <2>4. CASE Live(m) = {} /\ Dying(m) = {}
    <3>1. Same(m) = {}
      BY <2>4 DEF Dying
    <3>2. mc'.mac = m
      BY <1>1, <2>4 DEF AttachBegin
    <3> QED
      BY <2>1, <2>2, <3>1, <3>2 DEF AddrInv, Same
  <2>5. CASE Live(m) = {} /\ Dying(m) # {}
    <3>1. ~Cleared'
      BY <1>1, <2>5 DEF AttachBegin, Cleared
    <3> QED
      BY <2>1, <2>2, <3>1, AddrQuiet
  <2> QED
    BY <2>3, <2>4, <2>5
<1>2. ASSUME NEW m \in Macs, RemoveBegin(m) PROVE AddrInv'
  <2>1. UNCHANGED <<mac_addr, mixedUp, place>> /\ mc'.pc = "invalidate"
    BY <1>2 DEF RemoveBegin, peerVars, waitVars
  <2> QED
    BY <2>1, AddrQuiet DEF peer_list, Cleared
<1>3. CASE AttachWait
  <2>1. /\ UNCHANGED <<mac_addr, mixedUp, place>>
        /\ Cleared /\ mc'.mac = mc.mac
    BY <1>3 DEF AttachWait, peerVars, Cleared, TypeOK
  <2> QED
    BY <2>1, AddrQuiet DEF peer_list
<1>4. CASE AttachTimeout \/ AttachGivesUp \/ AttachFails \/ CreateSend
           \/ CreateFails
           \/ DetachInvalidate \/ DetachForget
  <2>1. /\ UNCHANGED <<mac_addr, mixedUp, place>>
        /\ mc'.pc \in {"idle", "timeout", "invalidate", "forget", "unref"}
    BY <1>4 DEF AttachTimeout, AttachGivesUp, AttachFails, CreateSend,
       CreateFails,
       DetachInvalidate, DetachForget, peerVars, waitVars, Idle, TypeOK
  <2> QED
    BY <2>1, AddrQuiet DEF peer_list, Cleared
<1>5. CASE AttachList
  <2>1. PICK o \in Objs :
           /\ place[o] = "free" /\ place' = [place EXCEPT ![o] = "listed"]
           /\ mac_addr' = [mac_addr EXCEPT ![o] = mc.mac]
           /\ mc' = [mc EXCEPT !.pc = "hash", !.obj = o]
    BY <1>5 DEF AttachList
  <2>2. mixedUp' = mixedUp /\ Cleared
    BY <1>5 DEF AttachList, waitVars, Cleared
  <2>3. /\ o \notin peer_list /\ peer_list' = peer_list \cup {o}
        /\ mc'.pc = "hash"
    BY <2>1 DEF TypeOK, peer_list
  <2>4. /\ mac_addr' \in [Objs -> Macs \cup {None}] /\ mac_addr'[o] = mc.mac
        /\ \A p \in Objs : p # o => mac_addr'[p] = mac_addr[p]
    BY <2>1 DEF TypeOK, AddrInv
  <2>5. \A p \in peer_list : p \in Objs
    BY DEF peer_list
  <2> QED
    BY <2>2, <2>3, <2>4, <2>5 DEF AddrInv, Cleared
<1>6. CASE AttachHash
  <2>1. /\ UNCHANGED <<mac_addr, mixedUp>> /\ mc'.pc = "create"
        /\ place' = [place EXCEPT ![mc.obj] = "hashed"]
        /\ place[mc.obj] = "listed"
    BY <1>6 DEF AttachHash, waitVars, TypeOK, Controller
  <2>2. peer_list' \subseteq peer_list
    BY <2>1 DEF TypeOK, peer_list
  <2> QED
    BY <2>1, <2>2, AddrQuiet DEF Cleared
<1>7. CASE DetachUnref
  BY <1>7, AddrUnref DEF DetachUnref, Controller, Idle
<1>8. CASE VdevDetach
  BY <1>8, AddrQuiet DEF VdevDetach, peerVars, waitVars, peer_list, Cleared
<1>9. CASE PdevDetach
  <2>1. /\ UNCHANGED <<mac_addr, mixedUp, mc>> /\ mc.pc = "idle"
        /\ peer_list' = {}
    BY <1>9 DEF PdevDetach, waitVars, peer_list
  <2> QED
    BY <2>1, AddrQuiet DEF Cleared
<1> QED
  BY <1>1, <1>2, <1>3, <1>4, <1>5, <1>6, <1>7, <1>8, <1>9 DEF McStep

LEMMA AddrOthers ==
    ASSUME IInv, AddrInv,
           \/ \E i \in PeerIds : RxStep(i)
           \/ \E u \in Users : \/ \E m \in Macs : FindByAddr(u, m)
                               \/ FindAssoc(u) \/ Release(u) \/ Drop(u)
    PROVE  AddrInv'
<1> USE DEF IInv, Base, Names
<1>1. ASSUME UNCHANGED <<place, mac_addr, waitVars, mc>> PROVE AddrInv'
  BY <1>1, AddrQuiet DEF waitVars, peer_list, Cleared
<1>2. ASSUME NEW i \in PeerIds, PeerMapFind(i) PROVE AddrInv'
  BY <1>1, <1>2 DEF PeerMapFind
<1>3. CASE PeerMapAdd
  <2>1. /\ rx.obj \in Objs /\ place[rx.obj] = "hashed"
        /\ UNCHANGED <<mac_addr, mc>>
    BY <1>3, TxrxPeerAssumption DEF PeerMapAdd, Mapping, NothingDangles
  <2>2. CASE FirstId(rx.obj)
    BY <1>3, <2>1, <2>2, AddrUnref DEF PeerMapAdd
  <2>3. CASE ~FirstId(rx.obj)
    BY <1>1, <1>3, <2>1, <2>3 DEF PeerMapAdd
  <2> QED
    BY <2>2, <2>3
<1>4. ASSUME NEW i \in PeerIds, PeerUnmap(i) PROVE AddrInv'
  <2>1. CASE peer_id_to_obj_map[i] # None
    <3>1. peer_id_to_obj_map[i] \in Objs /\ place[peer_id_to_obj_map[i]] = "hashed"
      BY <2>1 DEF TypeOK, NothingDangles
    <3> QED
      BY <1>4, <2>1, <3>1, AddrUnref DEF PeerUnmap
  <2>2. CASE peer_id_to_obj_map[i] = None
    BY <1>1, <1>4, <2>2 DEF PeerUnmap
  <2> QED
    BY <2>1, <2>2
<1>5. ASSUME NEW u \in Users, Release(u) PROVE AddrInv'
  <2>1. held[u] \in Objs /\ place[held[u]] # "free"
    BY <1>5 DEF Release, TypeOK, NothingDangles
  <2> QED
    BY <1>5, <2>1, AddrUnref DEF Release
<1>6. ASSUME NEW u \in Users,
             (\E m \in Macs : FindByAddr(u, m)) \/ FindAssoc(u) \/ Drop(u)
      PROVE  AddrInv'
  BY <1>1, <1>6 DEF FindByAddr, FindAssoc, Drop, Take
<1> QED
  BY <1>2, <1>3, <1>4, <1>5, <1>6 DEF RxStep

(* An address never has two peers on a vdev: the attach of a peer waits    *)
(* for the deletion of its predecessor, and only a wait that another peer  *)
(* ended, one that had been given the same local id, lets it go on early   *)
(* (or a peer freed in the middle of its attach).                          *)
THEOREM OnePeerEach == Spec => []OnePeerPerAddress
<1>1. Init => AddrInv
  <2> SUFFICES ASSUME Init PROVE AddrInv
    OBVIOUS
  <2>1. peer_list = {} /\ mixedUp = FALSE
    BY DEF Init, peer_list
  <2>2. mac_addr \in [Objs -> Macs \cup {None}]
    BY DEF Init
  <2> QED
    BY <2>1, <2>2 DEF AddrInv
<1>2. IInv /\ AddrInv /\ [Next]_vars => AddrInv'
  <2> SUFFICES ASSUME IInv, AddrInv, [Next]_vars PROVE AddrInv'
    OBVIOUS
  <2>1. CASE McStep \/ VdevDetach \/ PdevDetach
             \/ \E m \in Macs : AttachBegin(m) \/ RemoveBegin(m)
    BY <2>1, AddrController
  <2>2. CASE \/ \E i \in PeerIds : RxStep(i)
             \/ \E u \in Users : \/ \E m \in Macs : FindByAddr(u, m)
                                 \/ FindAssoc(u) \/ Release(u) \/ Drop(u)
    BY <2>2, AddrOthers
  <2>3. CASE UNCHANGED vars
    BY <2>3, AddrQuiet DEF vars, peerVars, waitVars, peer_list, Cleared
  <2> QED
    BY <2>1, <2>2, <2>3 DEF Next, Down
<1>3. (~wiped => AddrInv) => OnePeerPerAddress
  BY DEF AddrInv, OnePeerPerAddress
<1>4. Init => (~wiped => AddrInv)
  BY <1>1
<1>5. (~wiped => IInv) /\ (~wiped => AddrInv) /\ [Next]_vars
          => (~wiped => AddrInv)'
  BY <1>2, WipedStays
<1> QED
  BY <1>3, <1>4, <1>5, Invariance, PTL DEF Spec
=============================================================================
