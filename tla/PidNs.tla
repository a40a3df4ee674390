------------------------------- MODULE PidNs -------------------------------
(***************************************************************************)
(* PID namespaces of src/kernel/ns/pid.rs.  Namespaces form a tree created *)
(* by clone_ns.  Each has a PID counter behind a Mutex and pid->tid and    *)
(* tid->pid maps behind two separate RwLocks.  Tasks are created and exit  *)
(* concurrently: register_task_pids and unregister_task_pids walk from the *)
(* task's namespace to the root, and every lock they take is one step of   *)
(* the task here.                                                          *)
(***************************************************************************)
EXTENDS Integers, FiniteSets

CONSTANTS
    NSIds,        \* namespace objects (model values)
    Root,         \* INIT_PID_NS
    NoNs,         \* parent of the root (None)
    Tasks,        \* global task ids (model values), each created at most once
    NoTid,        \* an empty child_reaper
    PidMax,       \* pid_max (32768 in the code)
    MaxLevel      \* MAX_PID_NS_LEVEL (32 in the code)

ASSUME Root \in NSIds /\ NoNs \notin NSIds /\ NoTid \notin Tasks

VARIABLES
    created,      \* namespaces that exist
    parent,       \* parent[ns]: the parent namespace, NoNs for the root
    level,        \* level[ns]
    nextPid,      \* next_pid
    pidMap,       \* pid_map as a set of <<pid, tid>>
    tidMap,       \* tid_map as a set of <<tid, pid>>
    reaper,       \* child_reaper
    pc,           \* where each task is in its life
    own,          \* the task's owning namespace
    cur,          \* the namespace register/unregister is working on
    pidv          \* the pid in hand (allocated, or removed from tid_map)

nsVars == <<created, parent, level>>
mapVars == <<nextPid, pidMap, tidMap, reaper>>
taskVars == <<pc, own, cur, pidv>>
vars == <<nsVars, mapVars, taskVars>>

Pids == 1 .. PidMax
PCs == {"new", "reg_pid", "reg_tid", "reg_reaper", "alloc_anc", "running",
        "failed", "unreg_tid", "unreg_pid", "exited"}

(* BTreeMap::insert and remove on a map kept as a set of pairs. *)
MapInsert(m, k, v) == {e \in m : e[1] # k} \cup {<<k, v>>}
MapRemove(m, k) == {e \in m : e[1] # k}
MapGet(m, k) == {e[2] : e \in {x \in m : x[1] = k}}

Init ==
    /\ created = {Root}
    /\ parent = [n \in NSIds |-> NoNs]
    /\ level = [n \in NSIds |-> 0]
    /\ nextPid = [n \in NSIds |-> 1]
    /\ pidMap = [n \in NSIds |-> {}]
    /\ tidMap = [n \in NSIds |-> {}]
    /\ reaper = [n \in NSIds |-> NoTid]
    /\ pc = [t \in Tasks |-> "new"]
    /\ own = [t \in Tasks |-> Root]
    /\ cur = [t \in Tasks |-> NoNs]
    /\ pidv = [t \in Tasks |-> 0]

(* PidNamespace::clone_ns: a child of an existing namespace, below the     *)
(* nesting limit, with its counter at 1 and empty maps.                     *)
CloneNs(p, c) ==
    /\ p \in created /\ c \notin created
    /\ level[p] < MaxLevel
    /\ created' = created \cup {c}
    /\ parent' = [parent EXCEPT ![c] = p]
    /\ level' = [level EXCEPT ![c] = level[p] + 1]
    /\ UNCHANGED <<mapVars, taskVars>>

(* PidNamespace::alloc_pid under the next_pid mutex. *)
AllocOkInclusive(ns) == nextPid[ns] <= PidMax
AllocOk(ns) == nextPid[ns] < PidMax
AllocPid(ns) == nextPid' = [nextPid EXCEPT ![ns] = @ + 1]

(* `current = ns.parent`: the walk goes on at the parent (to step next), *)
(* or leaves the loop (to step done) after the root.                       *)
Ascend(t, ns, next, done) ==
    IF parent[ns] = NoNs
    THEN pc' = [pc EXCEPT ![t] = done] /\ cur' = [cur EXCEPT ![t] = NoNs]
    ELSE pc' = [pc EXCEPT ![t] = next] /\ cur' = [cur EXCEPT ![t] = parent[ns]]

(* register_task_pids, first line: allocate in the owning namespace; an   *)
(* error is returned to the task's creator.                                *)
RegisterTaskPids(t, ns) ==
    /\ pc[t] = "new" /\ ns \in created
    /\ own' = [own EXCEPT ![t] = ns]
    /\ IF AllocOk(ns)
       THEN /\ AllocPid(ns)
            /\ pidv' = [pidv EXCEPT ![t] = nextPid[ns]]
            /\ cur' = [cur EXCEPT ![t] = ns]
            /\ pc' = [pc EXCEPT ![t] = "reg_pid"]
       ELSE /\ pc' = [pc EXCEPT ![t] = "failed"]
            /\ UNCHANGED <<nextPid, cur, pidv>>
    /\ UNCHANGED <<nsVars, pidMap, tidMap, reaper>>

(* PidNamespace::register: pid_map, then tid_map, then the reaper check,  *)
(* each under its own lock.                                                 *)
RegPidMap(t) ==
    /\ pc[t] = "reg_pid"
    /\ pidMap' = [pidMap EXCEPT ![cur[t]] = MapInsert(@, pidv[t], t)]
    /\ pc' = [pc EXCEPT ![t] = "reg_tid"]
    /\ UNCHANGED <<nsVars, nextPid, tidMap, reaper, own, cur, pidv>>

RegTidMap(t) ==
    /\ pc[t] = "reg_tid"
    /\ tidMap' = [tidMap EXCEPT ![cur[t]] = MapInsert(@, t, pidv[t])]
    /\ pc' = [pc EXCEPT ![t] = "reg_reaper"]
    /\ UNCHANGED <<nsVars, nextPid, pidMap, reaper, own, cur, pidv>>

RegReaperOwnOnly(t) ==
    /\ pc[t] = "reg_reaper"
    /\ reaper' = IF pidv[t] = 1 /\ reaper[cur[t]] = NoTid
                 THEN [reaper EXCEPT ![cur[t]] = t] ELSE reaper
    /\ pc' = [pc EXCEPT ![t] = "running"] /\ cur' = [cur EXCEPT ![t] = NoNs]
    /\ UNCHANGED <<nsVars, nextPid, pidMap, tidMap, own, pidv>>

(* The reaper check ends register; register_task_pids then moves to the   *)
(* parent, or returns Ok once the root is done.                             *)
RegReaper(t) ==
    /\ pc[t] = "reg_reaper"
    /\ reaper' = IF pidv[t] = 1 /\ reaper[cur[t]] = NoTid
                 THEN [reaper EXCEPT ![cur[t]] = t] ELSE reaper
    /\ Ascend(t, cur[t], "alloc_anc", "running")
    /\ UNCHANGED <<nsVars, nextPid, pidMap, tidMap, own, pidv>>

(* The ancestor loop: `if let Ok(ancestor_pid) = ns.alloc_pid()`; a failed *)
(* allocation skips this namespace and the walk goes on.                   *)
RegAncestorOwnPid(t) ==
    /\ pc[t] = "alloc_anc"
    /\ pc' = [pc EXCEPT ![t] = "reg_pid"]
    /\ UNCHANGED <<nsVars, mapVars, own, cur, pidv>>

RegAllocAncestor(t) ==
    /\ pc[t] = "alloc_anc"
    /\ IF AllocOk(cur[t])
       THEN /\ AllocPid(cur[t])
            /\ pidv' = [pidv EXCEPT ![t] = nextPid[cur[t]]]
            /\ pc' = [pc EXCEPT ![t] = "reg_pid"]
            /\ UNCHANGED cur
       ELSE /\ Ascend(t, cur[t], "alloc_anc", "running")
            /\ UNCHANGED <<nextPid, pidv>>
    /\ UNCHANGED <<nsVars, pidMap, tidMap, reaper, own>>
(* A running task exits: unregister_task_pids starts at its namespace. *)
UnregisterTaskPids(t) ==
    /\ pc[t] = "running"
    /\ pc' = [pc EXCEPT ![t] = "unreg_tid"]
    /\ cur' = [cur EXCEPT ![t] = own[t]]
    /\ UNCHANGED <<nsVars, mapVars, own, pidv>>

(* PidNamespace::unregister: remove from tid_map, keeping the pid it held, *)
(* then, under the other lock, remove that pid from pid_map.               *)
UnregTidMapKeepPid(t) ==
    /\ pc[t] = "unreg_tid"
    /\ tidMap' = [tidMap EXCEPT ![cur[t]] = MapRemove(@, t)]
    /\ pc' = [pc EXCEPT ![t] = "unreg_pid"]
    /\ UNCHANGED <<nsVars, nextPid, pidMap, reaper, own, cur, pidv>>

UnregTidMap(t) ==
    /\ pc[t] = "unreg_tid"
    /\ tidMap' = [tidMap EXCEPT ![cur[t]] = MapRemove(@, t)]
    /\ pidv' = [pidv EXCEPT ![t] =
                    IF MapGet(tidMap[cur[t]], t) = {} THEN 0
                    ELSE CHOOSE p \in MapGet(tidMap[cur[t]], t) : TRUE]
    /\ pc' = [pc EXCEPT ![t] = "unreg_pid"]
    /\ UNCHANGED <<nsVars, nextPid, pidMap, reaper, own, cur>>

UnregPidMap(t) ==
    /\ pc[t] = "unreg_pid"
    /\ pidMap' = IF pidv[t] = 0 THEN pidMap
                 ELSE [pidMap EXCEPT ![cur[t]] = MapRemove(@, pidv[t])]
    /\ Ascend(t, cur[t], "unreg_tid", "exited")
    /\ UNCHANGED <<nsVars, nextPid, tidMap, reaper, own, pidv>>

TaskStep(t) ==
    \/ RegPidMap(t) \/ RegTidMap(t) \/ RegReaper(t) \/ RegAllocAncestor(t)
    \/ UnregisterTaskPids(t) \/ UnregTidMap(t) \/ UnregPidMap(t)

(* Every task of the model has lived and exited, or failed to be created. *)
Terminated ==
    /\ \A t \in Tasks : pc[t] \in {"exited", "failed"}
    /\ UNCHANGED vars

Next ==
    \/ \E p, c \in NSIds : CloneNs(p, c)
    \/ \E t \in Tasks, ns \in NSIds : RegisterTaskPids(t, ns)
    \/ \E t \in Tasks : TaskStep(t)
    \/ Terminated

Spec == Init /\ [][Next]_vars

-----------------------------------------------------------------------------
(* The namespaces from ns up to the root. *)
RECURSIVE Chain(_)
Chain(ns) == IF ns = NoNs THEN {} ELSE {ns} \cup Chain(parent[ns])

(* PidNamespace::is_ancestor_of: a walks the parent chain of b. *)
IsAncestorOf(a, b) == a \in Chain(parent[b])

(* task_pid_nr_ns: the task's pid in ns, 0 when it is not visible. *)
TaskPidNrNs(t, ns) ==
    IF MapGet(tidMap[ns], t) = {} THEN 0 ELSE CHOOSE p \in MapGet(tidMap[ns], t) : TRUE

(* find_task_by_pid_ns: the tasks pid_map names for pid in ns ({} is None). *)
FindTaskByPidNs(pid, ns) == MapGet(pidMap[ns], pid)

PidTypeOK ==
    /\ created \subseteq NSIds /\ Root \in created
    /\ parent \in [NSIds -> NSIds \cup {NoNs}]
    /\ nextPid \in [NSIds -> 1 .. PidMax]
    /\ pidMap \in [NSIds -> SUBSET (Pids \X Tasks)]
    /\ tidMap \in [NSIds -> SUBSET (Tasks \X Pids)]
    /\ reaper \in [NSIds -> Tasks \cup {NoTid}]
    /\ pc \in [Tasks -> PCs]
    /\ pidv \in [Tasks -> 0 .. PidMax]

(* Spec 4.7: once register_task_pids has returned Ok, the task has a pid   *)
(* in its own namespace and in every ancestor, so task_pid_nr (the root's  *)
(* view) is not 0; it holds while other tasks register and exit.           *)
VisibleInAncestors ==
    \A t \in Tasks : pc[t] = "running" =>
        \A ns \in Chain(own[t]) : TaskPidNrNs(t, ns) # 0

(* After unregister_task_pids has returned, no namespace's pid_map or      *)
(* tid_map still names the task, whichever namespaces it was registered in *)
(* and however its unregister interleaved with other tasks' registers.    *)
ExitLeavesNoTrace ==
    \A t \in Tasks : pc[t] = "exited" =>
        \A ns \in NSIds : /\ \A e \in pidMap[ns] : e[2] # t
                          /\ \A e \in tidMap[ns] : e[1] # t

(* Spec 5 (no PID reuse within a namespace) and spec 8 test 6: the two     *)
(* lookups of a namespace agree for every running task: find_task_by_pid_ns *)
(* on the pid task_pid_nr_ns reports for it names that task and no other.  *)
(* It needs alloc_pid to hand each pid out once in every namespace of the  *)
(* ancestor walk, and unregister to remove exactly the pid it registered,  *)
(* while other tasks register and exit between the per-lock steps.         *)
PidLookupAgrees ==
    \A t \in Tasks, ns \in NSIds :
        pc[t] = "running" /\ TaskPidNrNs(t, ns) # 0 =>
            FindTaskByPidNs(TaskPidNrNs(t, ns), ns) = {t}
=============================================================================
