----------------------------- MODULE ShmOperator -----------------------------
(***************************************************************************)
(* src/src/shm_operator.cpp: objects of one process that create, attach,   *)
(* detach and remove the System V segment of one key, while another        *)
(* process may create and remove it too.  A call is one step: what could   *)
(* come between its system calls is a removal by the other process, which  *)
(* makes the later call fail, and every call may fail here anyway.         *)
(***************************************************************************)
EXTENDS Integers, FiniteSets

CONSTANTS
    Obj,         \* the ShmOperator objects, all with the same m_key
    Addr,        \* the addresses shmat() chooses from
    NULL,
    MAP_FAILED,  \* (char*)-1
    SegIds,      \* bound: segments are numbered 1..SegIds
    EXCL         \* m_flag has IPC_EXCL

ASSUME ShmAssumption ==
    /\ NULL \notin Addr /\ MAP_FAILED \notin Addr /\ NULL # MAP_FAILED
    /\ SegIds \in Nat
    /\ EXCL \in BOOLEAN

SegId == 1..SegIds

VARIABLES
    seg,           \* seg[s]: "unused", "live", "marked" for removal, "gone"
    keyed,         \* the segment that m_key names, 0 for none
    mappings,      \* what is attached: where, which segment, by whose call
    m_shmid,
    m_memoryAddr,
    pmemoryAddr,   \* the pointer the object's user got from AttachMemory()
    alive          \* the objects that are not destroyed

kernelVars == <<seg, keyed, mappings>>
vars == <<kernelVars, m_shmid, m_memoryAddr, pmemoryAddr, alive>>

Mapping == [addr : Addr, seg : SegId, by : Obj]

Init ==
    /\ seg = [s \in SegId |-> "unused"]
    /\ keyed = 0
    /\ mappings = {}
    /\ m_shmid = [o \in Obj |-> -1]
    /\ m_memoryAddr = [o \in Obj |-> NULL]
    /\ pmemoryAddr = [o \in Obj |-> NULL]
    /\ alive = Obj

-----------------------------------------------------------------------------
(* The system calls.                                                       *)

\* shmget() with IPC_CREAT makes the next segment the key's.
NewSegment(s) ==
    /\ keyed = 0 /\ s \in SegId
    /\ seg[s] = "unused" /\ \A r \in SegId : r < s => seg[r] # "unused"
    /\ seg' = [seg EXCEPT ![s] = "live"]
    /\ keyed' = s

\* What shmget() may return, and what it makes of the segments.
GetOrCreate(s) ==
    \/ NewSegment(s)
    \/ s = keyed /\ s # 0 /\ ~EXCL /\ UNCHANGED <<seg, keyed>>
    \/ s = -1 /\ UNCHANGED <<seg, keyed>>

\* m_memoryAddr = shmat(s, NULL, 0), where sg tells which segments exist: a
\* fresh address, or MAP_FAILED for any reason.
ShmAt(o, s, sg, a) ==
    /\ \/ a = MAP_FAILED /\ UNCHANGED mappings
       \/ /\ a \in Addr \ {m.addr : m \in mappings}
          /\ s \in SegId /\ sg[s] \in {"live", "marked"}
          /\ mappings' = mappings \cup {[addr |-> a, seg |-> s, by |-> o]}
    /\ m_memoryAddr' = [m_memoryAddr EXCEPT ![o] = a]

\* The mappings that shmdt(a) leaves.
Without(a) == {m \in mappings : m.addr # a}

\* A segment that is marked goes with its last mapping.
Settled(sg, ms) ==
    [s \in SegId |-> IF sg[s] = "marked" /\ \A m \in ms : m.seg # s
                     THEN "gone" ELSE sg[s]]

\* shmctl(s, IPC_RMID) with the mappings ms.
Removed(s, ms) ==
    /\ keyed' = IF keyed = s THEN 0 ELSE keyed
    /\ seg' = Settled([seg EXCEPT ![s] = "marked"], ms)

-----------------------------------------------------------------------------
(* The operations of an object.  Those that return at a first test change   *)
(* nothing and are not steps.                                              *)

CreateMemory(o) ==
    /\ o \in alive
    /\ \E s \in SegId \cup {-1} :
          /\ GetOrCreate(s)
          /\ m_shmid' = [m_shmid EXCEPT ![o] = s]
          /\ IF s = -1 THEN UNCHANGED <<mappings, m_memoryAddr>>
             ELSE \E a \in Addr \cup {MAP_FAILED} : ShmAt(o, s, seg', a)
    /\ UNCHANGED <<pmemoryAddr, alive>>

\* Mutant of DestroyMemory: m_memoryAddr is cleared at the end only.
DestroyMemoryLate(o) ==
    /\ o \in alive
    /\ m_shmid[o] # -1
    /\ m_memoryAddr[o] # MAP_FAILED
    /\ mappings' = Without(m_memoryAddr[o])
    /\ \/ /\ seg[m_shmid[o]] # "gone"
          /\ Removed(m_shmid[o], mappings')
          /\ m_shmid' = [m_shmid EXCEPT ![o] = -1]
          /\ m_memoryAddr' = [m_memoryAddr EXCEPT ![o] = NULL]
       \/ /\ seg' = Settled(seg, mappings')
          /\ UNCHANGED <<keyed, m_shmid, m_memoryAddr>>
    /\ UNCHANGED <<pmemoryAddr, alive>>

\* After a shmat() that failed, shmdt() fails and nothing is done.  shmctl()
\* fails when the segment is gone or belongs to another user: the object then
\* keeps its m_shmid and is detached all the same.
DestroyMemory(o) ==
    /\ o \in alive
    /\ m_shmid[o] # -1
    /\ m_memoryAddr[o] # MAP_FAILED
    /\ mappings' = Without(m_memoryAddr[o])
    /\ m_memoryAddr' = [m_memoryAddr EXCEPT ![o] = NULL]
    /\ \/ /\ Settled(seg, mappings')[m_shmid[o]] # "gone"
          /\ Removed(m_shmid[o], mappings')
          /\ m_shmid' = [m_shmid EXCEPT ![o] = -1]
       \/ /\ seg' = Settled(seg, mappings')
          /\ UNCHANGED <<keyed, m_shmid>>
    /\ UNCHANGED <<pmemoryAddr, alive>>

\* The key's segment, or -1: shmget(m_key, 0) creates nothing.
Lookup(o) ==
    IF m_shmid[o] # -1 THEN {m_shmid[o]} ELSE ({keyed} \ {0}) \cup {-1}

\* Mutant of AttachMemory: the pointer is handed out before it is checked.
AttachMemoryUnchecked(o) ==
    /\ o \in alive
    /\ \E s \in Lookup(o), a \in Addr \cup {MAP_FAILED} :
          /\ m_shmid' = [m_shmid EXCEPT ![o] = s]
          /\ ShmAt(o, s, seg, a)
          /\ pmemoryAddr' = [pmemoryAddr EXCEPT ![o] = a]
    /\ UNCHANGED <<seg, keyed, alive>>

\* The address that m_memoryAddr held before is forgotten.
AttachMemory(o) ==
    /\ o \in alive
    /\ \E s \in Lookup(o), a \in Addr \cup {MAP_FAILED} :
          /\ m_shmid' = [m_shmid EXCEPT ![o] = s]
          /\ ShmAt(o, s, seg, a)
          /\ pmemoryAddr' = [pmemoryAddr EXCEPT
                                ![o] = IF a = MAP_FAILED THEN NULL ELSE a]
    /\ UNCHANGED <<seg, keyed, alive>>

\* Mutant of Detach: the member is cleared before it is passed to shmdt().
DetachSwapped(o) ==
    /\ m_shmid[o] # -1 /\ m_memoryAddr[o] # NULL
    /\ m_memoryAddr' = [m_memoryAddr EXCEPT ![o] = NULL]
    /\ UNCHANGED kernelVars

\* The body of DetachMemory(m_memoryAddr): shmdt() succeeds or, with EINVAL,
\* finds nothing there.
Detach(o) ==
    /\ m_shmid[o] # -1 /\ m_memoryAddr[o] # NULL
    /\ m_memoryAddr' = [m_memoryAddr EXCEPT ![o] = NULL]
    /\ mappings' = Without(m_memoryAddr[o])
    /\ seg' = Settled(seg, mappings')
    /\ UNCHANGED keyed

\* The user passes the pointer that AttachMemory() gave; any other is refused.
DetachMemory(o) ==
    /\ o \in alive
    /\ pmemoryAddr[o] = m_memoryAddr[o]
    /\ Detach(o)
    /\ UNCHANGED <<m_shmid, pmemoryAddr, alive>>

Destructor(o) ==
    /\ o \in alive
    /\ alive' = alive \ {o}
    /\ \/ Detach(o)
       \/ /\ m_shmid[o] = -1 \/ m_memoryAddr[o] = NULL
          /\ UNCHANGED <<kernelVars, m_memoryAddr>>
    /\ UNCHANGED <<m_shmid, pmemoryAddr>>

\* The other process creates the key's segment, or removes it.
Other ==
    /\ \/ \E s \in SegId : NewSegment(s)
       \/ keyed # 0 /\ Removed(keyed, mappings)
    /\ UNCHANGED <<mappings, m_shmid, m_memoryAddr, pmemoryAddr, alive>>

Next ==
    \/ Other
    \/ \E o \in Obj : \/ CreateMemory(o) \/ DestroyMemory(o)
                     \/ AttachMemory(o) \/ DetachMemory(o) \/ Destructor(o)

Spec == Init /\ [][Next]_vars

-----------------------------------------------------------------------------

\* The user is never handed the address of a failed shmat().
TypeOK ==
    /\ seg \in [SegId -> {"unused", "live", "marked", "gone"}]
    /\ keyed \in SegId \cup {0}
    /\ mappings \subseteq Mapping
    /\ m_shmid \in [Obj -> SegId \cup {-1}]
    /\ m_memoryAddr \in [Obj -> Addr \cup {NULL, MAP_FAILED}]
    /\ pmemoryAddr \in [Obj -> Addr \cup {NULL}]
    /\ alive \subseteq Obj

\* m_memoryAddr never dangles: what it points to is attached, and by a call of
\* this very object, however often calls failed half-way and however soon the
\* kernel gives an address out again.
PointsToOwn ==
    \A o \in alive : m_memoryAddr[o] \in Addr =>
        \E m \in mappings : m.addr = m_memoryAddr[o] /\ m.by = o

\* No object pulls the memory from under another: a mapping goes only when
\* the object that made it points to it and lets it go.
UnmapsOnlyOwn ==
    [][\A m \in mappings \ mappings' :
          m_memoryAddr[m.by] = m.addr /\ m_memoryAddr'[m.by] = NULL]_vars

\* An object forgets an address only when nothing is attached there any more,
\* or when the next shmat() overwrites it.
ForgetsOnlyUnmapped ==
    [][\A m \in mappings \cap mappings' :
          m_memoryAddr[m.by] = m.addr => m_memoryAddr'[m.by] # NULL]_vars

\* shm_operator.cpp:23, "will call the detach method to leave the shared
\* memory": after the destructor the object has nothing attached.  (The code
\* does not detach when m_shmid is -1, after a second CreateMemory(), and
\* knows of the last mapping only, after CreateMemory() and AttachMemory().)
DestructorDetaches ==
    [][\A o \in alive \ alive' : \A m \in mappings' : m.by # o]_vars

=============================================================================
