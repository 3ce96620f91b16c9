------------------------------ MODULE TxrxPeer ------------------------------
(***************************************************************************)
(* The life of the peers of one virtual device in the data path            *)
(* (ol_txrx.c, ol_txrx_peer_find.c): reference counts, the maps that lead  *)
(* to a peer, and the deletion of the device with its last peer.           *)
(*                                                                         *)
(* Contexts: the controller thread attaches and detaches peers on behalf   *)
(* of WMA, the receive context handles the target's PEER_MAP and           *)
(* PEER_UNMAP messages, senders look a peer up and give it back with       *)
(* ol_txrx_peer_unref_delete, and borrowers look one up and give it back   *)
(* with a bare decrement.  One section under peer_ref_mutex is one step.   *)
(***************************************************************************)
EXTENDS Integers, Sequences, FiniteSets

CONSTANTS
    Objs,           \* memory for peer objects
    Macs,           \* MAC addresses
    PeerIds,        \* the ids that the target assigns
    LocalIds,       \* the ids of local_peer_ids
    Senders,        \* contexts that return a reference with unref_delete
    Borrowers,      \* contexts that return one with adf_os_atomic_dec
    None,           \* no object, id or address
    MaxAttach       \* bound: how many peers are attached

ASSUME TxrxPeerAssumption ==
    /\ IsFiniteSet(PeerIds) /\ IsFiniteSet(LocalIds)
    /\ IsFiniteSet(Senders) /\ IsFiniteSet(Borrowers)
    /\ Senders \cap Borrowers = {}
    /\ None \notin Objs \cup Macs \cup PeerIds \cup LocalIds
    /\ MaxAttach \in Nat

Users == Senders \cup Borrowers

VARIABLES
    place,              \* per object: "free", "listed" (peer_list of the
                        \*   vdev) or "hashed" (peer_hash as well)
    mac_addr, ref_cnt, valid, delete_in_progress, local_id,
    has_id,             \* per object: peer_ids[0] # HTT_INVALID_PEER
    age,                \* per object: the order of insertion in the lists
    peer_id_to_obj_map, last_real_peer,
    freelist,           \* local_peer_ids: free ids, last in first out
    wait_on_peer_id,
    wait_delete_comp,   \* the completion that an attach waits for
    vdev,               \* "up", "pending" (delete.pending) or "freed"
    pdev,               \* "up" or "down"
    mc,                 \* where the controller thread is
    rx,                 \* where the receive context is
    held,               \* per user: the peer it has a reference to
    target,             \* external: per peer id, what the target has said
    attaches,           \* bound: peers attached so far
    orphans,            \* history: peers the target will never unmap
    mixedUp,            \* history: a wait was ended by another peer
    wiped               \* history: a peer was used while it was being attached

peerVars == <<place, mac_addr, ref_cnt, valid, delete_in_progress, local_id,
              has_id, age>>
waitVars == <<wait_on_peer_id, wait_delete_comp, mixedUp>>
vars == <<peerVars, peer_id_to_obj_map, last_real_peer, freelist, waitVars,
          vdev, pdev, mc, rx, held, target, attaches, orphans, wiped>>

-----------------------------------------------------------------------------
Idle == [pc |-> "idle", obj |-> None, mac |-> None]
RxIdle == [obj |-> None, id |-> None]

(* The target knows a peer from its creation on; it sends PEER_MAP, and    *)
(* PEER_UNMAP after the peer was deleted.                                  *)
Unused == [mac |-> None, mapped |-> FALSE, deleted |-> FALSE]

Init ==
    /\ place = [o \in Objs |-> "free"]
    /\ mac_addr = [o \in Objs |-> None]
    /\ ref_cnt = [o \in Objs |-> 0]
    /\ valid = [o \in Objs |-> FALSE]
    /\ delete_in_progress = [o \in Objs |-> FALSE]
    /\ local_id = [o \in Objs |-> None]
    /\ has_id = [o \in Objs |-> FALSE]
    /\ age = [o \in Objs |-> 0]
    /\ peer_id_to_obj_map = [i \in PeerIds |-> None]
    /\ last_real_peer = None
    /\ freelist \in {s \in [1..Cardinality(LocalIds) -> LocalIds] :
                        \A i, j \in DOMAIN s : s[i] = s[j] => i = j}
    /\ wait_on_peer_id = None
    /\ wait_delete_comp = FALSE
    /\ vdev = "up"
    /\ pdev = "up"
    /\ mc = Idle
    /\ rx = RxIdle
    /\ held = [u \in Users |-> None]
    /\ target = [i \in PeerIds |-> Unused]
    /\ attaches = 0
    /\ orphans = {}
    /\ mixedUp = FALSE
    /\ wiped = FALSE

peer_list == {o \in Objs : place[o] # "free"}
peer_hash == {o \in Objs : place[o] = "hashed"}

(* What ol_txrx_peer_find_hash_find may return: "the one added first will  *)
(* be found first".                                                        *)
FoundFirst(cands) == {o \in cands : \A p \in cands : age[o] <= age[p]}
HashFindValid(m) ==
    FoundFirst({o \in peer_hash : mac_addr[o] = m /\ valid[o]})

(* Mutant: the map handler asks for a valid peer.                          *)
MutantHashFind(m) == HashFindValid(m)

HashFind(m) == FoundFirst({o \in peer_hash : mac_addr[o] = m})

Waited(o) == local_id[o] = wait_on_peer_id

LastPeer(o) == peer_list = {o}

(* ol_txrx_peer_unref_delete under peer_ref_mutex: the last reference      *)
(* takes the peer out of both lists, ends the wait of an attach, deletes a *)
(* vdev that waits for its peers and frees the peer.  A count that is zero *)
(* already is left alone.                                                  *)
ol_txrx_peer_unref_delete(o) ==
    /\ ref_cnt' = [ref_cnt EXCEPT ![o] = IF @ = 0 THEN 0 ELSE @ - 1]
    /\ IF ref_cnt[o] = 1
       THEN /\ place' = [place EXCEPT ![o] = "free"]
            /\ delete_in_progress' = [delete_in_progress EXCEPT ![o] = FALSE]
            /\ IF Waited(o)
               THEN /\ wait_delete_comp' = TRUE
                    /\ wait_on_peer_id' = None
                    /\ mixedUp' = (mixedUp \/ (mc.pc = "wait" /\ mc.mac # mac_addr[o]))
               ELSE UNCHANGED waitVars
            /\ vdev' = IF LastPeer(o) /\ vdev = "pending" THEN "freed" ELSE vdev
       ELSE UNCHANGED <<place, delete_in_progress, waitVars, vdev>>

(* The references to peer o that somebody will give back.                  *)
UsersOf(o) == {u \in Users : held[u] = o}

AddRef(o) == ref_cnt' = [ref_cnt EXCEPT ![o] = @ + 1]
-----------------------------------------------------------------------------
(* ol_txrx_peer_attach, called by wma_create_peer in the controller thread.*)

(* The peers of the vdev with this address are looked at in list order.   *)
(* One that is being deleted is waited for (the last such one counts); a   *)
(* live one makes the attach fail there and then.                          *)
Same(m) == {o \in peer_list : mac_addr[o] = m}
Live(m) == {o \in Same(m) : ~delete_in_progress[o]}

(* Mutant: a peer that is being deleted is no obstacle.                    *)
MutantDying(m) == {}

Dying(m) == {o \in Same(m) \ Live(m) : \A p \in Live(m) : age[o] < age[p]}

AttachBegin(m) ==
    /\ mc.pc = "idle" /\ vdev = "up"
    /\ attaches < MaxAttach
    /\ attaches' = attaches + 1
    /\ IF Dying(m) = {} THEN UNCHANGED waitVars
       ELSE /\ \E o \in Dying(m) :
                  /\ \A p \in Dying(m) : age[p] <= age[o]
                  /\ wait_on_peer_id' = local_id[o]
            /\ wait_delete_comp' = FALSE
            /\ UNCHANGED mixedUp
    /\ mc' = IF Live(m) # {} THEN mc
             ELSE [pc |-> IF Dying(m) = {} THEN "alloc" ELSE "wait",
                   obj |-> None, mac |-> m]
    /\ UNCHANGED <<peerVars, peer_id_to_obj_map, last_real_peer, freelist,
                   vdev, pdev, rx, held, target, orphans, wiped>>

AttachWait ==
    /\ mc.pc = "wait"
    /\ wait_delete_comp
    /\ wait_delete_comp' = FALSE
    /\ mc' = [mc EXCEPT !.pc = "alloc"]
    /\ UNCHANGED <<peerVars, peer_id_to_obj_map, last_real_peer, freelist,
                   wait_on_peer_id, mixedUp, vdev, pdev, rx, held, target,
                   attaches, orphans, wiped>>

(* PEER_DELETION_TIMEOUT: the wait is over, and the attach gives up.       *)
AttachTimeout ==
    /\ mc.pc = "wait"
    /\ ~wait_delete_comp
    /\ mc' = [mc EXCEPT !.pc = "timeout"]
    /\ UNCHANGED <<peerVars, peer_id_to_obj_map, last_real_peer, freelist,
                   waitVars, vdev, pdev, rx, held, target, attaches, orphans,
                   wiped>>

AttachGivesUp ==
    /\ mc.pc = "timeout"
    /\ wait_on_peer_id' = None
    /\ mc' = Idle
    /\ UNCHANGED <<peerVars, peer_id_to_obj_map, last_real_peer, freelist,
                   wait_delete_comp, mixedUp, vdev, pdev, rx, held, target,
                   attaches, orphans, wiped>>

(* The new peer, all zeroes (so that peer_ids[0] is an id), goes on the    *)
(* vdev's list and becomes its last_real_peer.                             *)
AttachList ==
    /\ mc.pc = "alloc"
    /\ \E o \in Objs :
          /\ place[o] = "free"
          /\ place' = [place EXCEPT ![o] = "listed"]
          /\ mac_addr' = [mac_addr EXCEPT ![o] = mc.mac]
          /\ ref_cnt' = [ref_cnt EXCEPT ![o] = 0]
          /\ valid' = [valid EXCEPT ![o] = FALSE]
          /\ delete_in_progress' = [delete_in_progress EXCEPT ![o] = FALSE]
          /\ local_id' = [local_id EXCEPT ![o] = None]
          /\ has_id' = [has_id EXCEPT ![o] = TRUE]
          /\ last_real_peer' = o
          /\ age' = [age EXCEPT ![o] = attaches]
          /\ orphans' = orphans \ {o}
          /\ mc' = [mc EXCEPT !.pc = "hash", !.obj = o]
    /\ UNCHANGED <<peer_id_to_obj_map, freelist, waitVars, vdev, pdev, rx,
                   held, target, attaches, wiped>>

(* No memory.                                                              *)
AttachFails ==
    /\ mc.pc = "alloc"
    /\ mc' = Idle
    /\ UNCHANGED <<peerVars, peer_id_to_obj_map, last_real_peer, freelist,
                   waitVars, vdev, pdev, rx, held, target, attaches, orphans,
                   wiped>>

InitialRefs == 2

(* "one reference for attach", one "for ol_rx_peer_map_handler"; the peer  *)
(* can be found from now on, and gets a local id if one is left.  Of a     *)
(* reference that FindAssoc took meanwhile the count knows nothing more.   *)
AttachHash ==
    /\ mc.pc = "hash"
    /\ wiped' = (wiped \/ UsersOf(mc.obj) # {})
    /\ ref_cnt' = [ref_cnt EXCEPT ![mc.obj] = InitialRefs]
    /\ valid' = [valid EXCEPT ![mc.obj] = TRUE]
    /\ place' = [place EXCEPT ![mc.obj] = "hashed"]
    /\ has_id' = [has_id EXCEPT ![mc.obj] = FALSE]
    /\ IF freelist = <<>> THEN UNCHANGED <<local_id, freelist>>
       ELSE /\ local_id' = [local_id EXCEPT ![mc.obj] = Head(freelist)]
            /\ freelist' = Tail(freelist)
    /\ mc' = [mc EXCEPT !.pc = "create"]
    /\ UNCHANGED <<mac_addr, delete_in_progress, age, peer_id_to_obj_map,
                   last_real_peer, waitVars, vdev, pdev, rx, held, target,
                   attaches, orphans>>

(* wmi_unified_peer_create_send: the target gets to know the peer, ...     *)
CreateSend ==
    /\ mc.pc = "create"
    /\ \E i \in PeerIds :
          /\ target[i] = Unused
          /\ target' = [target EXCEPT ![i].mac = mc.mac]
    /\ mc' = Idle
    /\ UNCHANGED <<peerVars, peer_id_to_obj_map, last_real_peer, freelist,
                   waitVars, vdev, pdev, rx, held, attaches, orphans, wiped>>

(* ... or the command is not sent and the peer is detached again.          *)
CreateFails ==
    /\ mc.pc = "create"
    /\ mc' = [mc EXCEPT !.pc = "invalidate"]
    /\ orphans' = orphans \cup {mc.obj}
    /\ UNCHANGED <<peerVars, peer_id_to_obj_map, last_real_peer, freelist,
                   waitVars, vdev, pdev, rx, held, target, attaches, wiped>>
-----------------------------------------------------------------------------
(* ol_txrx_peer_detach, called by wma_remove_peer in the controller thread.*)

(* wmi_unified_peer_delete_send: the target forgets the peer, or the       *)
(* command is not sent, which wma_remove_peer does not look at.            *)
RemoveBegin(m) ==
    /\ mc.pc = "idle" /\ vdev = "up"
    /\ \E o \in HashFindValid(m) :
          /\ mc' = [pc |-> "invalidate", obj |-> o, mac |-> m]
          /\ \/ /\ target' = [i \in PeerIds |->
                      [target[i] EXCEPT !.deleted = @ \/ target[i].mac = m]]
                /\ UNCHANGED orphans
             \/ /\ orphans' = orphans \cup {o}
                /\ UNCHANGED target
    /\ UNCHANGED <<peerVars, peer_id_to_obj_map, last_real_peer, freelist,
                   waitVars, vdev, pdev, rx, held, attaches, wiped>>

DetachInvalidate ==
    /\ mc.pc = "invalidate"
    /\ valid' = [valid EXCEPT ![mc.obj] = FALSE]
    /\ freelist' = IF local_id[mc.obj] = None THEN freelist
                   ELSE <<local_id[mc.obj]>> \o freelist
    /\ mc' = [mc EXCEPT !.pc = "forget"]
    /\ UNCHANGED <<place, mac_addr, ref_cnt, delete_in_progress, local_id,
                   has_id, age, peer_id_to_obj_map, last_real_peer, waitVars,
                   vdev, pdev, rx, held, target, attaches, orphans, wiped>>

(* Mutant: last_real_peer keeps pointing to the peer.                      *)
MutantForget(o) == last_real_peer

Forget(o) == IF last_real_peer = o THEN None ELSE last_real_peer

DetachForget ==
    /\ mc.pc = "forget"
    /\ last_real_peer' = Forget(mc.obj)
    /\ delete_in_progress' = [delete_in_progress EXCEPT ![mc.obj] = TRUE]
    /\ mc' = [mc EXCEPT !.pc = "unref"]
    /\ UNCHANGED <<place, mac_addr, ref_cnt, valid, local_id, has_id, age,
                   peer_id_to_obj_map, freelist, waitVars, vdev, pdev, rx,
                   held, target, attaches, orphans, wiped>>

(* "Remove the reference added during peer_attach."                        *)
DetachUnref ==
    /\ mc.pc = "unref"
    /\ ol_txrx_peer_unref_delete(mc.obj)
    /\ mc' = Idle
    /\ UNCHANGED <<mac_addr, valid, local_id, has_id, age,
                   peer_id_to_obj_map, last_real_peer, freelist, pdev, rx,
                   held, target, attaches, orphans, wiped>>

(* ol_txrx_vdev_detach.  WMA has removed the vdev's peers before.          *)
VdevDetach ==
    /\ mc.pc = "idle" /\ vdev = "up"
    /\ \A o \in peer_list : delete_in_progress[o]
    /\ vdev' = IF peer_list = {} THEN "freed" ELSE "pending"
    /\ UNCHANGED <<peerVars, peer_id_to_obj_map, last_real_peer, freelist,
                   waitVars, pdev, mc, rx, held, target, attaches, orphans,
                   wiped>>

(* ol_txrx_pdev_detach with force: ol_txrx_peer_find_hash_erase deletes    *)
(* the peers that are left and thereby a vdev that waits for them; the     *)
(* maps are freed.  Nobody uses the data path any more.                    *)
PdevDetach ==
    /\ pdev = "up" /\ vdev # "up"
    /\ mc.pc = "idle" /\ rx = RxIdle /\ \A u \in Users : held[u] = None
    /\ pdev' = "down"
    /\ place' = [o \in Objs |-> "free"]
    /\ ref_cnt' = [o \in Objs |-> 0]
    /\ delete_in_progress' = [o \in Objs |-> FALSE]
    /\ vdev' = IF vdev = "pending" /\ peer_hash # {} THEN "freed" ELSE vdev
    /\ peer_id_to_obj_map' = [i \in PeerIds |-> None]
    /\ UNCHANGED <<mac_addr, valid, local_id, has_id, age, last_real_peer,
                   freelist, waitVars, mc, rx, held, target, attaches, orphans,
                   wiped>>
-----------------------------------------------------------------------------
(* The receive context.                                                    *)

(* ol_rx_peer_map_handler: the peer with this address is looked up, also   *)
(* one that was detached meanwhile, ...                                    *)
PeerMapFind(i) ==
    /\ pdev = "up" /\ rx = RxIdle
    /\ target[i].mac # None /\ ~target[i].mapped
    /\ \/ /\ \E o \in HashFind(target[i].mac) :
                AddRef(o) /\ rx' = [obj |-> o, id |-> i]
          /\ UNCHANGED target
       \/ /\ HashFind(target[i].mac) = {}
          /\ target' = [target EXCEPT ![i].mapped = TRUE]
          /\ UNCHANGED <<ref_cnt, rx>>
    /\ UNCHANGED <<place, mac_addr, valid, delete_in_progress, local_id,
                   has_id, age, peer_id_to_obj_map, last_real_peer, freelist,
                   waitVars, vdev, pdev, mc, held, attaches, orphans, wiped>>

(* Mutant: each id keeps the reference of the lookup.                      *)
MutantFirstId(o) == FALSE

FirstId(o) == ~has_id[o]

(* ... and entered in the map.  The first id of a peer has its reference   *)
(* from ol_txrx_peer_attach, the next one keeps that of the lookup.        *)
PeerMapAdd ==
    /\ rx # RxIdle
    /\ peer_id_to_obj_map' = [peer_id_to_obj_map EXCEPT ![rx.id] = rx.obj]
    /\ IF FirstId(rx.obj) THEN ol_txrx_peer_unref_delete(rx.obj)
       ELSE UNCHANGED <<ref_cnt, place, delete_in_progress, waitVars, vdev>>
    /\ has_id' = [has_id EXCEPT ![rx.obj] = TRUE]
    /\ target' = [target EXCEPT ![rx.id].mapped = TRUE]
    /\ rx' = RxIdle
    /\ UNCHANGED <<mac_addr, valid, local_id, age, last_real_peer, freelist,
                   pdev, mc, held, attaches, orphans, wiped>>

(* ol_rx_peer_unmap_handler                                                *)
PeerUnmap(i) ==
    /\ pdev = "up" /\ rx = RxIdle
    /\ target[i].mapped /\ target[i].deleted
    /\ target' = [target EXCEPT ![i] = Unused]
    /\ peer_id_to_obj_map' = [peer_id_to_obj_map EXCEPT ![i] = None]
    /\ IF peer_id_to_obj_map[i] # None
       THEN ol_txrx_peer_unref_delete(peer_id_to_obj_map[i])
       ELSE UNCHANGED <<ref_cnt, place, delete_in_progress, waitVars, vdev>>
    /\ UNCHANGED <<mac_addr, valid, local_id, has_id, age, last_real_peer,
                   freelist, pdev, mc, rx, held, attaches, orphans, wiped>>
-----------------------------------------------------------------------------
(* Contexts that use a peer for a while.                                   *)

Take(u, o) ==
    /\ held' = [held EXCEPT ![u] = o]
    /\ AddRef(o)
    /\ UNCHANGED <<place, mac_addr, valid, delete_in_progress, local_id,
                   has_id, age, peer_id_to_obj_map, last_real_peer, freelist,
                   waitVars, vdev, pdev, mc, rx, target, attaches, orphans,
                   wiped>>

(* ol_txrx_peer_find_hash_find with check_valid.                           *)
FindByAddr(u, m) ==
    /\ pdev = "up" /\ held[u] = None
    /\ \E o \in HashFindValid(m) : Take(u, o)

(* ol_txrx_assoc_peer_find, under last_real_peer_mutex.  A peer that is    *)
(* being attached is last_real_peer before its peer_ids and its count are  *)
(* initialised; all its bytes are zero, so peer_ids[0] is an id.           *)
FindAssoc(u) ==
    /\ pdev = "up" /\ held[u] = None
    /\ last_real_peer # None
    /\ has_id[last_real_peer]
    /\ Take(u, last_real_peer)

(* A sender is done: the tx path calls ol_txrx_peer_unref_delete.  Before  *)
(* AttachHash this frees the peer under the controller thread's hands.     *)
Release(u) ==
    /\ u \in Senders /\ held[u] # None
    /\ held' = [held EXCEPT ![u] = None]
    /\ ol_txrx_peer_unref_delete(held[u])
    /\ wiped' = (wiped \/ (place[held[u]] = "listed" /\ ref_cnt[held[u]] = 1))
    /\ UNCHANGED <<mac_addr, valid, local_id, has_id, age,
                   peer_id_to_obj_map, last_real_peer, freelist, pdev, mc, rx,
                   target, attaches, orphans>>

(* A borrower is done: ol_txrx_find_peer_by_addr, ol_txrx_peer_update and  *)
(* ol_txrx_peer_state_update decrement the count and look no further.      *)
Drop(u) ==
    /\ u \in Borrowers /\ held[u] # None
    /\ held' = [held EXCEPT ![u] = None]
    /\ ref_cnt' = [ref_cnt EXCEPT ![held[u]] = @ - 1]
    /\ UNCHANGED <<place, mac_addr, valid, delete_in_progress, local_id,
                   has_id, age, peer_id_to_obj_map, last_real_peer, freelist,
                   waitVars, vdev, pdev, mc, rx, target, attaches, orphans,
                   wiped>>
-----------------------------------------------------------------------------
McStep == AttachWait \/ AttachTimeout \/ AttachGivesUp \/ AttachList
          \/ AttachFails \/ AttachHash \/ CreateSend \/ CreateFails \/ DetachInvalidate
          \/ DetachForget \/ DetachUnref

RxStep(i) == PeerMapFind(i) \/ PeerMapAdd \/ PeerUnmap(i)

(* The data path is gone.                                                  *)
Down == pdev = "down" /\ UNCHANGED vars

Next ==
    \/ \E m \in Macs : AttachBegin(m) \/ RemoveBegin(m)
    \/ McStep \/ VdevDetach \/ PdevDetach
    \/ \E i \in PeerIds : RxStep(i)
    \/ \E u \in Users : \/ \E m \in Macs : FindByAddr(u, m)
                        \/ FindAssoc(u) \/ Release(u) \/ Drop(u)
    \/ Down

Spec == Init /\ [][Next]_vars

(* Bound: nothing is claimed of what follows after a peer was used while   *)
(* it was being attached, and TLC does not look at it.                     *)
NotWiped == ~wiped

(* The controller thread and the receive context run, the target answers,  *)
(* and nobody keeps a reference for ever.                                  *)
Fairness ==
    /\ WF_vars(McStep)
    /\ \A i \in PeerIds : WF_vars(RxStep(i))
    /\ \A u \in Users : WF_vars(Release(u) \/ Drop(u))
FairSpec == Spec /\ Fairness
-----------------------------------------------------------------------------
(* Properties.                                                             *)

(* Type invariant.                                                         *)
TypeOK ==
    /\ place \in [Objs -> {"free", "listed", "hashed"}]
    /\ ref_cnt \in [Objs -> Int]
    /\ valid \in [Objs -> BOOLEAN]
    /\ delete_in_progress \in [Objs -> BOOLEAN]
    /\ has_id \in [Objs -> BOOLEAN]
    /\ peer_id_to_obj_map \in [PeerIds -> Objs \cup {None}]
    /\ last_real_peer \in Objs \cup {None}
    /\ vdev \in {"up", "pending", "freed"}
    /\ pdev \in {"up", "down"}
    /\ mc \in [pc : {"idle", "wait", "timeout", "alloc", "hash", "create",
                     "invalidate", "forget", "unref"},
               obj : Objs \cup {None}, mac : Macs \cup {None}]
    /\ rx \in [obj : Objs \cup {None}, id : PeerIds \cup {None}]
    /\ held \in [Users -> Objs \cup {None}]
    /\ target \in [PeerIds -> [mac : Macs \cup {None}, mapped : BOOLEAN,
                               deleted : BOOLEAN]]

(* Who has a reference to peer o.                                          *)
One(b) == IF b THEN 1 ELSE 0
AttachRef(o) == valid[o] \/ (mc.obj = o /\ mc.pc \in {"forget", "unref"})
IdsOf(o) == {i \in PeerIds : peer_id_to_obj_map[i] = o}
Refs(o) == One(AttachRef(o)) + One(~has_id[o]) + Cardinality(IdsOf(o))
           + Cardinality(UsersOf(o)) + One(rx.obj = o)

CountsRight == \A o \in Objs : place[o] # "free" => ref_cnt[o] = Refs(o)

(* The count of a peer is the number of its references: that of attach,    *)
(* the one kept for the first id, one for every id in the map, and one for *)
(* every context that looked it up, the map handler included.  That holds  *)
(* also of a peer that is found while it is being attached, as long as the *)
(* lookup is over when the count is initialised and does not free it.      *)
RefCounted == ~wiped => CountsRight

NothingDangles ==
    /\ \A i \in PeerIds : peer_id_to_obj_map[i] # None =>
          place[peer_id_to_obj_map[i]] = "hashed"
    /\ last_real_peer # None => place[last_real_peer] # "free"
    /\ \A u \in Users : held[u] # None => place[held[u]] # "free"
    /\ rx.obj # None => place[rx.obj] = "hashed"
    /\ mc.pc \in {"create", "invalidate", "forget", "unref"} =>
          place[mc.obj] = "hashed"

(* Whatever leads to a peer leads to one that was not freed: the id map,   *)
(* last_real_peer, and the pointer of every context that looked it up -    *)
(* until a peer was used while its attach initialised it.                  *)
ReferencedIsLive == ~wiped => NothingDangles

FreedIsEmpty == vdev = "freed" => peer_list = {}

(* A vdev that was freed has no peers: ol_txrx_peer_unref_delete, which    *)
(* looks at the vdev of its peer, never meets one - under the same         *)
(* condition.                                                              *)
VdevOutlivesPeers == ~wiped => FreedIsEmpty

(* One address has one peer on the vdev, unless a wait for the deletion of *)
(* the old one was ended by a peer that had got its local id meanwhile, or *)
(* a peer was used while it was being attached.                            *)
OnePeerPerAddress ==
    ~mixedUp /\ ~wiped =>
        \A o, p \in peer_list : mac_addr[o] = mac_addr[p] => o = p

PendingIsNotEmpty == vdev = "pending" => pdev = "up" /\ peer_list # {}

(* A vdev whose deletion is pending has a peer left whose deletion will    *)
(* complete it, and is not left over when the data path is gone - under    *)
(* the same condition.                                                     *)
PendingHasPeers == ~wiped => PendingIsNotEmpty

(* The peers that nobody will ever delete: a bare decrement took the last  *)
(* reference, or the target, which never heard of the peer or of its       *)
(* deletion, does not send the message that would.                         *)
Zombie(o) == place[o] = "hashed" /\ (ref_cnt[o] = 0 \/ o \in orphans)

(* Deleting a vdev ends: its peers lose their last reference and the last  *)
(* of them takes the vdev along, unless one of them is a zombie, or a wait *)
(* was mixed up and the map message of a peer went to its predecessor, or  *)
(* a peer was used while it was being attached.                            *)
VdevDeleted ==
    (vdev = "pending") ~>
        (vdev = "freed" \/ mixedUp \/ wiped \/ \E o \in Objs : Zombie(o))
=============================================================================
