--------------------------- MODULE ShmOperatorProofs ---------------------------
(***************************************************************************)
(* Proofs, for any number of objects, segments and addresses and with or   *)
(* without IPC_EXCL, that no ShmOperator holds a dangling address or       *)
(* unmaps another object's memory.                                         *)
(***************************************************************************)
EXTENDS ShmOperator, TLAPS

USE ShmAssumption DEF ShmAssumption

\* The kernel attaches at most one segment to an address.
OneAtAnAddress == \A m, n \in mappings : m.addr = n.addr => m = n

ShmInv == TypeOK /\ OneAtAnAddress /\ PointsToOwn

\* A shmat() by o: what is attached grows by o's new mapping, or by nothing.
LEMMA ShmAtKeeps ==
    ASSUME ShmInv, NEW o \in Obj, NEW s \in SegId \cup {-1}, NEW sg,
           NEW a \in Addr \cup {MAP_FAILED}, ShmAt(o, s, sg, a),
           UNCHANGED alive
    PROVE  /\ mappings \subseteq mappings'
           /\ mappings' \subseteq Mapping
           /\ m_memoryAddr' \in [Obj -> Addr \cup {NULL, MAP_FAILED}]
           /\ OneAtAnAddress'
           /\ PointsToOwn'
<1> USE DEF ShmInv, TypeOK
<1>1. m_memoryAddr' = [m_memoryAddr EXCEPT ![o] = a]
  BY DEF ShmAt
<1>2. CASE a = MAP_FAILED /\ mappings' = mappings
  BY <1>1, <1>2 DEF OneAtAnAddress, PointsToOwn
<1>3. CASE /\ a \in Addr \ {m.addr : m \in mappings}
           /\ s \in SegId
           /\ mappings' = mappings \cup {[addr |-> a, seg |-> s, by |-> o]}
  <2> DEFINE new == [addr |-> a, seg |-> s, by |-> o]
  <2>1. new \in Mapping /\ new.addr = a /\ new.by = o
    BY <1>3 DEF Mapping
  <2> HIDE DEF new
  <2>2. mappings' = mappings \cup {new} /\ \A m \in mappings : m.addr # a
    BY <1>3 DEF new
  <2>3. OneAtAnAddress'
    BY <2>1, <2>2 DEF OneAtAnAddress
  <2>4. PointsToOwn'
    BY <1>1, <2>1, <2>2 DEF PointsToOwn
  <2> QED BY <1>1, <1>3, <2>1, <2>2, <2>3, <2>4
<1> QED BY <1>2, <1>3 DEF ShmAt

\* A shmdt() of what the object o points to takes o's own mapping, or none.
LEMMA ShmDtKeeps ==
    ASSUME ShmInv, NEW o \in alive, mappings' = Without(m_memoryAddr[o]),
           m_memoryAddr' = [m_memoryAddr EXCEPT ![o] = NULL],
           alive' \subseteq alive
    PROVE  /\ \A m \in mappings \ mappings' :
                 m.by = o /\ m.addr = m_memoryAddr[o]
           /\ m_memoryAddr' \in [Obj -> Addr \cup {NULL, MAP_FAILED}]
           /\ OneAtAnAddress'
           /\ PointsToOwn'
<1> USE DEF ShmInv, TypeOK
<1>1. \A m \in mappings \ mappings' : m.by = o /\ m.addr = m_memoryAddr[o]
  <2> SUFFICES ASSUME NEW m \in mappings, m.addr = m_memoryAddr[o]
               PROVE  m.by = o
    BY DEF Without
  <2>1. m.addr \in Addr
    BY DEF Mapping
  <2>2. PICK n \in mappings : n.addr = m_memoryAddr[o] /\ n.by = o
    BY <2>1 DEF PointsToOwn
  <2> QED BY <2>2 DEF OneAtAnAddress
<1>2. OneAtAnAddress'
  BY DEF OneAtAnAddress, Without
<1>3. PointsToOwn'
  <2> SUFFICES ASSUME NEW p \in alive', m_memoryAddr'[p] \in Addr
               PROVE  \E m \in mappings' : m.addr = m_memoryAddr'[p] /\ m.by = p
    BY DEF PointsToOwn
  <2>1. p # o /\ p \in alive /\ m_memoryAddr'[p] = m_memoryAddr[p]
    OBVIOUS
  <2>2. PICK m \in mappings : m.addr = m_memoryAddr[p] /\ m.by = p
    BY <2>1 DEF PointsToOwn
  <2>3. m \in mappings'
    BY <1>1, <2>1, <2>2
  <2> QED BY <2>1, <2>2, <2>3
<1> QED BY <1>1, <1>2, <1>3

\* Removing and settling leave segments that are segments.
LEMMA SegmentTypes ==
    ASSUME TypeOK, NEW ms, NEW s \in SegId
    PROVE  /\ Settled(seg, ms) \in [SegId -> {"unused", "live", "marked", "gone"}]
           /\ Removed(s, ms) =>
                 /\ seg' \in [SegId -> {"unused", "live", "marked", "gone"}]
                 /\ keyed' \in SegId \cup {0}
  BY DEF TypeOK, Settled, Removed

\* What every step of Next keeps, and what it does to the mappings.
LEMMA NextKeeps ==
    ASSUME ShmInv, Next
    PROVE  /\ ShmInv'
           /\ \A m \in mappings \ mappings' :
                 m_memoryAddr[m.by] = m.addr /\ m_memoryAddr'[m.by] = NULL
<1> USE DEF ShmInv
<1>1. ASSUME NEW o \in Obj, CreateMemory(o)
      PROVE  ShmInv' /\ mappings \subseteq mappings'
  <2>1. PICK s \in SegId \cup {-1} :
           /\ GetOrCreate(s)
           /\ m_shmid' = [m_shmid EXCEPT ![o] = s]
           /\ IF s = -1 THEN UNCHANGED <<mappings, m_memoryAddr>>
              ELSE \E a \in Addr \cup {MAP_FAILED} : ShmAt(o, s, seg', a)
    BY <1>1 DEF CreateMemory
  <2>2. /\ seg' \in [SegId -> {"unused", "live", "marked", "gone"}]
        /\ keyed' \in SegId \cup {0}
        /\ m_shmid' \in [Obj -> SegId \cup {-1}]
        /\ UNCHANGED <<pmemoryAddr, alive>>
    BY <1>1, <2>1 DEF GetOrCreate, NewSegment, CreateMemory, TypeOK
  <2>3. CASE UNCHANGED <<mappings, m_memoryAddr>>
    BY <2>2, <2>3 DEF TypeOK, OneAtAnAddress, PointsToOwn
  <2>4. CASE \E a \in Addr \cup {MAP_FAILED} : ShmAt(o, s, seg', a)
    <3>1. PICK a \in Addr \cup {MAP_FAILED} : ShmAt(o, s, seg', a)
      BY <2>4
    <3>2. /\ mappings \subseteq mappings'
          /\ mappings' \subseteq Mapping
          /\ m_memoryAddr' \in [Obj -> Addr \cup {NULL, MAP_FAILED}]
          /\ OneAtAnAddress' /\ PointsToOwn'
      BY <2>2, <3>1, ShmAtKeeps
    <3> QED BY <2>2, <3>2 DEF TypeOK
  <2> QED BY <2>1, <2>3, <2>4
<1>2. ASSUME NEW o \in Obj, AttachMemory(o)
      PROVE  ShmInv' /\ mappings \subseteq mappings'
  <2>1. PICK s \in Lookup(o), a \in Addr \cup {MAP_FAILED} :
           /\ m_shmid' = [m_shmid EXCEPT ![o] = s]
           /\ ShmAt(o, s, seg, a)
           /\ pmemoryAddr' = [pmemoryAddr EXCEPT
                                ![o] = IF a = MAP_FAILED THEN NULL ELSE a]
    BY <1>2 DEF AttachMemory
  <2>2. s \in SegId \cup {-1}
    BY DEF Lookup, TypeOK
  <2>3. /\ m_shmid' \in [Obj -> SegId \cup {-1}]
        /\ pmemoryAddr' \in [Obj -> Addr \cup {NULL}]
        /\ UNCHANGED <<seg, keyed, alive>>
    BY <1>2, <2>1, <2>2 DEF AttachMemory, TypeOK
  <2>4. /\ mappings \subseteq mappings'
        /\ mappings' \subseteq Mapping
        /\ m_memoryAddr' \in [Obj -> Addr \cup {NULL, MAP_FAILED}]
        /\ OneAtAnAddress' /\ PointsToOwn'
    BY <2>1, <2>2, <2>3, ShmAtKeeps
  <2> QED BY <2>3, <2>4 DEF TypeOK
<1>3. ASSUME NEW o \in alive, mappings' = Without(m_memoryAddr[o]),
             m_memoryAddr' = [m_memoryAddr EXCEPT ![o] = NULL],
             alive' \subseteq alive, UNCHANGED pmemoryAddr,
             seg' \in [SegId -> {"unused", "live", "marked", "gone"}],
             keyed' \in SegId \cup {0}, m_shmid' \in [Obj -> SegId \cup {-1}]
      PROVE  /\ ShmInv'
             /\ \A m \in mappings \ mappings' :
                   m_memoryAddr[m.by] = m.addr /\ m_memoryAddr'[m.by] = NULL
  <2>1. /\ \A m \in mappings \ mappings' :
              m.by = o /\ m.addr = m_memoryAddr[o]
        /\ m_memoryAddr' \in [Obj -> Addr \cup {NULL, MAP_FAILED}]
        /\ OneAtAnAddress' /\ PointsToOwn'
    BY <1>3, ShmDtKeeps
  <2>2. o \in Obj /\ m_memoryAddr'[o] = NULL
    BY <1>3 DEF TypeOK
  <2>3. mappings' \subseteq Mapping /\ alive' \subseteq Obj
    BY <1>3 DEF Without, TypeOK
  <2>4. TypeOK'
    BY <1>3, <2>1, <2>3 DEF TypeOK
  <2> QED BY <2>1, <2>2, <2>4
<1>4. ASSUME NEW o \in Obj, DestroyMemory(o)
      PROVE  /\ ShmInv'
             /\ \A m \in mappings \ mappings' :
                   m_memoryAddr[m.by] = m.addr /\ m_memoryAddr'[m.by] = NULL
  <2>1. m_shmid[o] \in SegId
    BY <1>4 DEF DestroyMemory, TypeOK
  <2>2. /\ seg' \in [SegId -> {"unused", "live", "marked", "gone"}]
        /\ keyed' \in SegId \cup {0}
        /\ m_shmid' \in [Obj -> SegId \cup {-1}]
    BY <1>4, <2>1, SegmentTypes DEF DestroyMemory, TypeOK
  <2> QED BY <1>3, <1>4, <2>2 DEF DestroyMemory
<1>5. ASSUME NEW o \in alive, Detach(o), alive' \subseteq alive,
             UNCHANGED <<m_shmid, pmemoryAddr>>
      PROVE  /\ ShmInv'
             /\ \A m \in mappings \ mappings' :
                   m_memoryAddr[m.by] = m.addr /\ m_memoryAddr'[m.by] = NULL
  <2>1. /\ seg' \in [SegId -> {"unused", "live", "marked", "gone"}]
        /\ keyed' \in SegId \cup {0}
        /\ m_shmid' \in [Obj -> SegId \cup {-1}]
    BY <1>5 DEF Detach, Settled, TypeOK
  <2> QED BY <1>3, <1>5, <2>1 DEF Detach
<1>6. ASSUME UNCHANGED <<mappings, m_shmid, m_memoryAddr, pmemoryAddr>>,
             alive' \subseteq alive,
             seg' \in [SegId -> {"unused", "live", "marked", "gone"}],
             keyed' \in SegId \cup {0}
      PROVE  ShmInv'
  BY <1>6 DEF TypeOK, OneAtAnAddress, PointsToOwn
<1>7. CASE Other
  <2>1. /\ seg' \in [SegId -> {"unused", "live", "marked", "gone"}]
        /\ keyed' \in SegId \cup {0}
    BY <1>7, SegmentTypes DEF Other, NewSegment, TypeOK
  <2> QED BY <1>6, <1>7, <2>1 DEF Other
<1>8. ASSUME NEW o \in Obj, DetachMemory(o) \/ Destructor(o)
      PROVE  /\ ShmInv'
             /\ \A m \in mappings \ mappings' :
                   m_memoryAddr[m.by] = m.addr /\ m_memoryAddr'[m.by] = NULL
  <2>1. CASE UNCHANGED <<kernelVars, m_memoryAddr>> /\ Destructor(o)
    BY <1>6, <2>1 DEF Destructor, kernelVars, TypeOK
  <2>2. o \in alive /\ alive' \subseteq alive /\ UNCHANGED <<m_shmid, pmemoryAddr>>
    BY <1>8 DEF DetachMemory, Destructor
  <2> QED BY <1>5, <1>8, <2>1, <2>2 DEF DetachMemory, Destructor
<1> QED BY <1>1, <1>2, <1>4, <1>7, <1>8 DEF Next, Other

\* The invariant holds in every reachable state.
THEOREM ShmInvariant == Spec => []ShmInv
<1>1. Init => ShmInv
  BY DEF Init, ShmInv, TypeOK, OneAtAnAddress, PointsToOwn
<1>2. ShmInv /\ [Next]_vars => ShmInv'
  <2>1. ASSUME ShmInv, UNCHANGED vars PROVE ShmInv'
    BY <2>1
    DEF vars, kernelVars, ShmInv, TypeOK, OneAtAnAddress, PointsToOwn
  <2> QED BY <2>1, NextKeeps
<1> QED BY <1>1, <1>2, PTL DEF Spec

\* No object holds a dangling address.
THEOREM NeverDangling == Spec => []PointsToOwn
  BY ShmInvariant, PTL DEF ShmInv

\* The user is never handed the address of a failed shmat().
THEOREM ShmTypes == Spec => []TypeOK
  BY ShmInvariant, PTL DEF ShmInv

\* No object unmaps another's memory.
THEOREM NeverUnmapsOthers == Spec => UnmapsOnlyOwn
<1>1. ShmInv /\ [Next]_vars =>
         [\A m \in mappings \ mappings' :
             m_memoryAddr[m.by] = m.addr /\ m_memoryAddr'[m.by] = NULL]_vars
  BY NextKeeps
<1> QED BY <1>1, ShmInvariant, PTL DEF Spec, UnmapsOnlyOwn

\* The pointer of an object goes to NULL only together with what is attached
\* there.
LEMMA NextForgets ==
    ASSUME ShmInv, Next, NEW m \in mappings \cap mappings',
           m_memoryAddr[m.by] = m.addr
    PROVE  m_memoryAddr'[m.by] # NULL
<1>1. /\ m.by \in Obj /\ m.addr \in Addr
      /\ m_memoryAddr \in [Obj -> Addr \cup {NULL, MAP_FAILED}]
      /\ NULL \notin Addr /\ MAP_FAILED # NULL
  BY ShmAssumption DEF ShmAssumption, ShmInv, TypeOK, Mapping
<1>2. CASE m_memoryAddr' = m_memoryAddr
  BY <1>1, <1>2
<1>3. ASSUME NEW o \in Obj, NEW a \in Addr \cup {MAP_FAILED},
             m_memoryAddr' = [m_memoryAddr EXCEPT ![o] = a]
      PROVE  m_memoryAddr'[m.by] # NULL
  BY <1>1, <1>3
<1>4. ASSUME NEW o \in Obj, mappings' = Without(m_memoryAddr[o]),
             m_memoryAddr' = [m_memoryAddr EXCEPT ![o] = NULL]
      PROVE  m_memoryAddr'[m.by] # NULL
  <2>1. m.addr # m_memoryAddr[o]
    BY <1>4 DEF Without
  <2> QED BY <1>1, <1>4, <2>1
<1>5. CASE Other
  BY <1>2, <1>5 DEF Other
<1>6. ASSUME NEW o \in Obj, CreateMemory(o) PROVE m_memoryAddr'[m.by] # NULL
  BY <1>2, <1>3, <1>6, Zenon DEF CreateMemory, ShmAt
<1>7. ASSUME NEW o \in Obj, AttachMemory(o) PROVE m_memoryAddr'[m.by] # NULL
  BY <1>3, <1>7, Zenon DEF AttachMemory, ShmAt
<1>8. ASSUME NEW o \in Obj, DestroyMemory(o) PROVE m_memoryAddr'[m.by] # NULL
  BY <1>4, <1>8, Zenon DEF DestroyMemory
<1>9. ASSUME NEW o \in Obj, DetachMemory(o) \/ Destructor(o)
      PROVE  m_memoryAddr'[m.by] # NULL
  BY <1>2, <1>4, <1>9, Zenon DEF DetachMemory, Destructor, Detach
<1> QED BY <1>5, <1>6, <1>7, <1>8, <1>9 DEF Next

\* No object loses sight of memory that it could still have detached.
THEOREM ForgetsNothingMapped == Spec => ForgetsOnlyUnmapped
<1>1. ShmInv /\ [Next]_vars =>
         [\A m \in mappings \cap mappings' :
             m_memoryAddr[m.by] = m.addr => m_memoryAddr'[m.by] # NULL]_vars
  BY NextForgets
<1> QED BY <1>1, ShmInvariant, PTL DEF Spec, ForgetsOnlyUnmapped

=============================================================================
