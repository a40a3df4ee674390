------------------------------ MODULE UserNs -------------------------------
(***************************************************************************)
(* User namespaces of src/kernel/ns/user.rs.  Each namespace has an        *)
(* extent list (UidGidMap) behind a RwLock that set_mapping fills at most  *)
(* once; map_id_down and map_id_up scan it with saturating u32 arithmetic. *)
(* IDs are IdBits-bit integers here: MaxId stands for u32::MAX.  The GID   *)
(* map is the same code on a second map and is not modelled separately.    *)
(***************************************************************************)
EXTENDS Integers, Sequences
LOCAL INSTANCE Graphs

CONSTANTS
    NSIds,        \* namespace objects (model values)
    Root,         \* INIT_USER_NS
    NoNs,         \* parent of the root (None)
    IdBits,       \* width of an id (32 in the code)
    ExtentLists,  \* extent vectors the callers of set_mapping pass
    Creds,        \* creator uids (percpu::current_cred().uid)
    MaxLevel      \* MAX_USER_NS_LEVEL (32 in the code)

MaxId == 2^IdBits - 1
Ids == 0 .. MaxId
Extent == [first : Ids, lower_first : Ids, count : Ids]

ASSUME Root \in NSIds /\ NoNs \notin NSIds /\ ExtentLists \subseteq Seq(Extent)

VARIABLES
    created,      \* namespaces that exist
    parent,       \* parent[ns]
    level,        \* level[ns]
    owner,        \* owner[ns]: the creator's uid in the parent
    extents,      \* extents[ns]: the uid map's extent vector
    lastSet,      \* result of the latest set_mapping: "none", "ok" or "eperm"
    everSet       \* history: set_mapping has returned Ok on the namespace

vars == <<created, parent, level, owner, extents, lastSet, everSet>>

(* u32::saturating_add *)
SatAdd(a, b) == IF a + b > MaxId THEN MaxId ELSE a + b

(* UidGidMap::new_identity: one extent of count u32::MAX. *)
Identity == <<[first |-> 0, lower_first |-> 0, count |-> MaxId]>>

(* The first extent of a vector that contains id on the side `from`. *)
RECURSIVE FirstHit(_, _, _, _)
FirstHit(exts, id, from, i) ==
    IF i > Len(exts) THEN 0
    ELSE IF id >= exts[i][from] /\ id < SatAdd(exts[i][from], exts[i].count)
         THEN i ELSE FirstHit(exts, id, from, i + 1)

(* map_id_down and map_id_up: -1 stands for None. *)
MapIdDown(exts, id) ==
    LET i == FirstHit(exts, id, "first", 1)
    IN  IF i = 0 THEN -1 ELSE SatAdd(exts[i].lower_first, id - exts[i].first)

MapIdUpFromFirst(exts, id) ==
    LET i == FirstHit(exts, id, "first", 1)
    IN  IF i = 0 THEN -1 ELSE SatAdd(exts[i].first, id - exts[i].lower_first)

MapIdUp(exts, id) ==
    LET i == FirstHit(exts, id, "lower_first", 1)
    IN  IF i = 0 THEN -1 ELSE SatAdd(exts[i].first, id - exts[i].lower_first)

(* to_kuid and from_kuid: one map_id_down or map_id_up on the namespace's  *)
(* own map.                                                                *)
ToKuid(ns, uid) == MapIdDown(extents[ns], uid)
FromKuid(ns, kuid) == MapIdUp(extents[ns], kuid)

(* is_ancestor_of: walk the parent links from other's parent up to the   *)
(* root, comparing each with self.                                        *)
RECURSIVE AncestorWalk(_, _)
AncestorWalk(a, cur) == cur # NoNs /\ (cur = a \/ AncestorWalk(a, parent[cur]))

IsAncestorOfFromSelf(a, b) == AncestorWalk(a, b)

IsAncestorOf(a, b) == AncestorWalk(a, parent[b])

Init ==
    /\ created = {Root}
    /\ parent = [n \in NSIds |-> NoNs]
    /\ level = [n \in NSIds |-> 0]
    /\ owner = [n \in NSIds |-> 0]
    /\ extents = [n \in NSIds |-> IF n = Root THEN Identity ELSE <<>>]
    /\ lastSet = "none"
    /\ everSet = [n \in NSIds |-> n = Root]

(* UserNamespace::clone_ns: below the nesting limit, an unmapped child     *)
(* owned by the calling task's uid.                                         *)
CloneNs(p, c, uid) ==
    /\ p \in created /\ c \notin created
    /\ level[p] < MaxLevel
    /\ created' = created \cup {c}
    /\ parent' = [parent EXCEPT ![c] = p]
    /\ level' = [level EXCEPT ![c] = level[p] + 1]
    /\ owner' = [owner EXCEPT ![c] = uid]
    /\ UNCHANGED <<extents, lastSet, everSet>>

(* UidGidMap::set_mapping under the write lock: EPERM when the vector is   *)
(* not empty, otherwise it is replaced by the new one, whatever it holds.  *)
SetMapping(ns, new) ==
    /\ ns \in created
    /\ IF extents[ns] # <<>>
       THEN lastSet' = "eperm" /\ UNCHANGED <<extents, everSet>>
       ELSE /\ lastSet' = "ok"
            /\ extents' = [extents EXCEPT ![ns] = new]
            /\ everSet' = [everSet EXCEPT ![ns] = TRUE]
    /\ UNCHANGED <<created, parent, level, owner>>

Next ==
    \/ \E p, c \in NSIds, uid \in Creds : CloneNs(p, c, uid)
    \/ \E ns \in NSIds, new \in ExtentLists : SetMapping(ns, new)

Spec == Init /\ [][Next]_vars

-----------------------------------------------------------------------------
(* Spec 4.7: a namespace's uid map translates in both directions: an id   *)
(* that map_id_down sends to the parent comes back to itself through      *)
(* map_id_up, in every namespace and for every map set_mapping accepted.  *)
(* This fails when two ids of a namespace reach the same parent id, which *)
(* is a privilege confusion: overlapping extents or a saturated offset.   *)
(* It fails too for an extent whose parent ids end at u32::MAX: the bound *)
(* of map_id_up saturates to u32::MAX and leaves that id out.             *)
MapsRoundTrip ==
    \A ns \in created, id \in Ids :
        LET down == MapIdDown(extents[ns], id)
        IN  down # -1 => MapIdUp(extents[ns], down) = id

(* Spec 4.7: the mapping is set at most once; after set_mapping has        *)
(* returned Ok, the namespace's map never changes again.                   *)
MappingSetOnce ==
    [][\A ns \in NSIds : everSet[ns] => extents'[ns] = extents[ns]]_vars

(* Reference of spec 4.7: to_kuid chains map_id_down from the namespace   *)
(* through every ancestor to the init namespace; None stays None.          *)
RECURSIVE ChainDown(_, _)
ChainDown(ns, id) ==
    IF ns = NoNs \/ id = -1 THEN id
    ELSE ChainDown(parent[ns], MapIdDown(extents[ns], id))

(* to_kuid returns the kernel uid, the id in the init namespace, for      *)
(* namespaces nested at any depth.                                         *)
ToKuidReachesInit ==
    \A ns \in created, id \in Ids : ToKuid(ns, id) = ChainDown(ns, id)

(* Spec 4.7: the init namespace's identity maps cover every id, u32::MAX     *)
(* included.                                                               *)
RootMapsEveryId ==
    \A id \in Ids : ToKuid(Root, id) = id

(* is_ancestor_of(self, other) holds exactly when self is a proper        *)
(* ancestor of other: other's parent, or an ancestor of it, and never     *)
(* other itself.  The reference is Warshall's closure of the parent links *)
(* (ConnectionsIn, which is reflexive), taken from other's parent.        *)
AncestorIsParentClosure ==
    LET tree == [node |-> NSIds,
                 edge |-> {<<parent[y], y>> : y \in {x \in created : parent[x] # NoNs}}]
        reach == ConnectionsIn(tree)
    IN  \A a, b \in created :
            IsAncestorOf(a, b) <=> (parent[b] # NoNs /\ reach[a, parent[b]])
=============================================================================
