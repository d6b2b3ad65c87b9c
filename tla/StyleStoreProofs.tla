-------------------------- MODULE StyleStoreProofs --------------------------
(***************************************************************************)
(* For any number of handlers, cars and styles and any limit: the file is  *)
(* never torn, is current after a save that succeeded, and the store       *)
(* implements DurableMap.                                                  *)
(***************************************************************************)
EXTENDS StyleStore, FiniteSetTheorems, TLAPS

(* Whoever is inside save() holds the mutex, alone, so the map it          *)
(* marshalled is still the map in memory and the temporary file it is      *)
(* about to rename is its own.                                             *)
MutexInv ==
    /\ \A h \in Handlers : pc[h] \in InSave <=> mu = h
    /\ \A h \in Handlers : mu = h => doc[h] = mem
    /\ \A h \in Handlers : pc[h] = "rename" => tmp = doc[h]

(* What a request asks for, once it waits for the mutex, is a valid edit.  *)
RequestsValid ==
    \A h \in Handlers : pc[h] = "lock" => req[h].car \in Cars /\ req[h].style \in Entry

(* The inductive invariant of the store. *)
IInv == TypeOK /\ MutexInv /\ RequestsValid /\ FileNeverTorn /\ DiskIsCurrent

(* What a start loads is what Disk says, or nothing, and an unlogged start *)
(* loads all of it.                                                        *)
LEMMA LoadedIsDisk ==
    ASSUME NEW f \in Maps \cup {Absent, Torn}, NEW readable \in BOOLEAN
    PROVE  /\ EmptyMap \in Maps
           /\ Loaded(f, readable) \in Maps
           /\ LoadFails(f, readable) \in BOOLEAN
           /\ Loaded(f, readable) \in {IF f \in Maps THEN f ELSE EmptyMap, EmptyMap}
           /\ ~LoadFails(f, readable) =>
                 Loaded(f, readable) = IF f \in Maps THEN f ELSE EmptyMap
BY FileNames DEF Loaded, LoadFails, Maps, EmptyMap, Entry

(* A start, the first one or a restart, establishes the invariant. *)
LEMMA InitIInv == Init => IInv
<1> SUFFICES ASSUME Init PROVE IInv
  OBVIOUS
<1>1. file \in Maps \cup {Absent} /\ file # Torn
  BY FileNames DEF Init
<1>2. PICK readable \in BOOLEAN : mem = Loaded(file, readable) /\ saveErr = LoadFails(file, readable)
  BY DEF Init
<1>3. TypeOK
  BY <1>1, <1>2, LoadedIsDisk DEF Init, TypeOK, InSave, Requests, NoRequest, Entry
<1>4. MutexInv
  BY NobodyNames DEF Init, MutexInv, InSave
<1>5. RequestsValid
  BY DEF Init, RequestsValid
<1>6. DiskIsCurrent
  BY <1>1, <1>2, LoadedIsDisk DEF DiskIsCurrent, Disk
<1> QED
  BY <1>1, <1>3, <1>4, <1>5, <1>6 DEF IInv, FileNeverTorn

(* Outside save() a handler changes nothing but its own place and request. *)
LEMMA WaitingKeepsIInv ==
    ASSUME IInv, NEW h \in Handlers, NEW q, NEW r \in Requests,
           pc[h] \notin InSave, q \in {"idle", "lock", "refused"},
           q = "lock" => r.car \in Cars /\ r.style \in Entry,
           pc' = [pc EXCEPT ![h] = q], req' = [req EXCEPT ![h] = r],
           UNCHANGED <<mem, mu, file, tmp, saveErr, doc>>
    PROVE  IInv'
<1>1. TypeOK'
  BY DEF IInv, TypeOK, InSave
<1>2. MutexInv'
  BY DEF IInv, TypeOK, MutexInv, InSave
<1>3. RequestsValid'
  BY DEF IInv, TypeOK, RequestsValid
<1>4. FileNeverTorn' /\ DiskIsCurrent'
  BY DEF IInv, FileNeverTorn, DiskIsCurrent, Disk, Maps
<1> QED
  BY <1>1, <1>2, <1>3, <1>4 DEF IInv

(* Every return from save(): the error is recorded, or the file is current. *)
LEMMA FinishKeepsIInv ==
    ASSUME IInv, NEW h \in Handlers, NEW failed \in BOOLEAN,
           pc[h] \in InSave, Finish(h, failed),
           tmp' \in Maps \cup {Absent, Torn}, file' \in Maps \cup {Absent},
           failed \/ file' = mem
    PROVE  IInv'
<1>0. EmptyMap \in Maps
  BY LoadedIsDisk
<1>1. TypeOK'
  BY <1>0 DEF IInv, TypeOK, InSave, Finish, Return
<1>2. MutexInv'
  BY NobodyNames DEF IInv, TypeOK, MutexInv, InSave, Finish, Return
<1>3. RequestsValid'
  BY DEF IInv, TypeOK, RequestsValid, Finish, Return
<1>4. FileNeverTorn' /\ DiskIsCurrent'
  BY FileNames DEF IInv, TypeOK, FileNeverTorn, DiskIsCurrent, Disk, Finish, Return
<1> QED
  BY <1>1, <1>2, <1>3, <1>4 DEF IInv

(* The next system call of save(), the file not yet touched. *)
LEMMA GoOnKeepsIInv ==
    ASSUME IInv, NEW h \in Handlers, NEW q \in InSave,
           pc[h] \in InSave, GoOn(h, q), UNCHANGED file,
           tmp' \in Maps \cup {Absent, Torn}, q = "rename" => tmp' = doc[h]
    PROVE  IInv'
<1>1. TypeOK'
  BY DEF IInv, TypeOK, InSave, GoOn
<1>2. MutexInv'
  BY NobodyNames DEF IInv, TypeOK, MutexInv, InSave, GoOn
<1>3. RequestsValid'
  BY DEF IInv, TypeOK, RequestsValid, GoOn, InSave
<1>4. FileNeverTorn' /\ DiskIsCurrent'
  BY DEF IInv, FileNeverTorn, DiskIsCurrent, Disk, GoOn, Maps
<1> QED
  BY <1>1, <1>2, <1>3, <1>4 DEF IInv

(* The edit takes the mutex and marshals what it leaves in memory. *)
LEMMA EditKeepsIInv ==
    ASSUME IInv, NEW h \in Handlers, Edit(h)
    PROVE  IInv'
<1>1. Edited(h) \in Maps
  BY DEF IInv, TypeOK, RequestsValid, Edit, EditAndMarshal, Edited, Maps
<1>2. TypeOK'
  BY <1>1 DEF IInv, TypeOK, InSave, Edit, EditAndMarshal
<1>3. MutexInv'
  BY NobodyNames DEF IInv, TypeOK, MutexInv, InSave, Edit, EditAndMarshal
<1>4. RequestsValid'
  BY DEF IInv, TypeOK, RequestsValid, Edit, EditAndMarshal
<1>5. FileNeverTorn' /\ DiskIsCurrent'
  BY NobodyNames DEF IInv, FileNeverTorn, DiskIsCurrent, Edit, EditAndMarshal
<1> QED
  BY <1>2, <1>3, <1>4, <1>5 DEF IInv

(* A start after a kill finds a whole file or none. *)
LEMMA RestartKeepsIInv ==
    ASSUME IInv, NEW readable \in BOOLEAN, Restart(readable)
    PROVE  IInv'
<1>0. file \in Maps \cup {Absent, Torn} /\ NoRequest \in Requests
  BY DEF IInv, TypeOK, NoRequest, Requests, Entry
<1>1. TypeOK'
  BY <1>0, LoadedIsDisk DEF IInv, TypeOK, InSave, Restart
<1>2. MutexInv'
  BY NobodyNames DEF MutexInv, InSave, Restart
<1>3. RequestsValid'
  BY DEF RequestsValid, Restart
<1>4. FileNeverTorn' /\ DiskIsCurrent'
  BY <1>0, LoadedIsDisk DEF IInv, FileNeverTorn, DiskIsCurrent, Disk, Restart, Maps
<1> QED
  BY <1>1, <1>2, <1>3, <1>4 DEF IInv

(* One case per action of the store. *)
LEMMA StepKeepsIInv == IInv /\ [Next]_vars => IInv'
<1> SUFFICES ASSUME IInv, [Next]_vars PROVE IInv'
  OBVIOUS
<1>0. /\ mem \in Maps /\ tmp \in Maps \cup {Absent, Torn} /\ file \in Maps \cup {Absent}
      /\ req \in [Handlers -> Requests] /\ doc \in [Handlers -> Maps]
      /\ NoRequest \in Requests
  BY DEF IInv, TypeOK, FileNeverTorn, NoRequest, Requests, Entry
<1>1. ASSUME NEW h \in Handlers, NEW path \in CarPaths, NEW s \in Entry \cup {BadStyle},
             Request(h, path, s)
      PROVE  IInv'
  <2>1. CASE Valid(path, s)
    <3>1. [car |-> Ordinal[path], style |-> s] \in Requests /\ Ordinal[path] \in Cars /\ s \in Entry
      BY <2>1, CarNames DEF Valid, Requests
    <3> QED
      BY <1>1, <2>1, <3>1, WaitingKeepsIInv DEF Request, InSave
  <2>2. CASE ~Valid(path, s)
    BY <1>0, <1>1, <2>2, WaitingKeepsIInv DEF Request, InSave
  <2> QED
    BY <2>1, <2>2
<1>2. ASSUME NEW h \in Handlers, Refuse(h) PROVE IInv'
  <2>1. req' = [req EXCEPT ![h] = req[h]] /\ req[h] \in Requests
    BY <1>0, <1>2 DEF Refuse
  <2>2. pc[h] \notin InSave /\ pc' = [pc EXCEPT ![h] = "refused"]
    BY <1>2 DEF Refuse, InSave
  <2> QED
    BY <1>2, <2>1, <2>2, WaitingKeepsIInv DEF Refuse
<1>3. ASSUME NEW h \in Handlers, Reply(h) PROVE IInv'
  <2>1. pc[h] \notin InSave /\ pc' = [pc EXCEPT ![h] = "idle"] /\ req' = [req EXCEPT ![h] = NoRequest]
    BY <1>3 DEF Reply, InSave
  <2> QED
    BY <1>0, <1>3, <2>1, WaitingKeepsIInv DEF Reply
<1>4. ASSUME NEW h \in Handlers, Edit(h) PROVE IInv'
  BY <1>4, EditKeepsIInv
<1>5. ASSUME NEW h \in Handlers, MkdirAll(h) PROVE IInv'
  BY <1>0, <1>5, GoOnKeepsIInv, FinishKeepsIInv DEF MkdirAll, InSave
<1>6. ASSUME NEW h \in Handlers, Create(h) PROVE IInv'
  BY <1>0, <1>6, GoOnKeepsIInv, FinishKeepsIInv DEF Create, InSave
<1>7. ASSUME NEW h \in Handlers, Fill(h) PROVE IInv'
  BY <1>0, <1>7, GoOnKeepsIInv, FinishKeepsIInv DEF Fill, InSave
<1>8. ASSUME NEW h \in Handlers, Rename(h) PROVE IInv'
  <2>1. tmp = mem
    BY <1>8 DEF IInv, MutexInv, Rename, InSave
  <2> QED
    BY <1>0, <1>8, <2>1, FinishKeepsIInv DEF Rename, InSave
<1>9. ASSUME NEW readable \in BOOLEAN, Restart(readable) PROVE IInv'
  BY <1>9, RestartKeepsIInv
<1>10. CASE UNCHANGED vars
  BY <1>10 DEF IInv, TypeOK, MutexInv, RequestsValid, FileNeverTorn, DiskIsCurrent, Disk, vars
<1> QED
  BY <1>1, <1>2, <1>3, <1>4, <1>5, <1>6, <1>7, <1>8, <1>9, <1>10 DEF Next, Save

(* The inductive invariant holds throughout. *)
LEMMA SpecIInv == Spec => []IInv
<1> QED
  BY InitIInv, StepKeepsIInv, PTL DEF Spec

(* Every variable of the store keeps its type (styles.go). *)
THEOREM StoreTypeCorrect == Spec => []TypeOK
BY SpecIInv, PTL DEF IInv

(* Whatever fails or is killed half way, the file a start reads is whole:  *)
(* save() writes a file of its own and renames it (styles.go:86-90).       *)
THEOREM FileIsNeverTorn == Spec => []FileNeverTorn
BY SpecIInv, PTL DEF IInv

(* At rest and without a logged error, the file is the map in memory       *)
(* (styles.go:61-76).                                                      *)
THEOREM FileIsCurrent == Spec => []DiskIsCurrent
BY SpecIInv, PTL DEF IInv

-----------------------------------------------------------------------------
(* The first start of the store is one of the durable map. *)
LEMMA InitIsDurable == IInv /\ Init => Durable!Init
<1> SUFFICES ASSUME IInv, Init PROVE Durable!Init
  OBVIOUS
<1>1. PICK readable \in BOOLEAN : mem = Loaded(file, readable)
  BY DEF Init
<1>2. file \in Maps \cup {Absent, Torn}
  BY DEF IInv, TypeOK
<1>3. mem \in {Disk, EmptyMap} /\ Disk \in Maps
  BY <1>1, <1>2, LoadedIsDisk DEF Disk
<1> QED
  BY <1>3 DEF Durable!Init, Durable!EmptyMap, EmptyMap, Maps, Entry

(* A step of a handler or a restart is a step of DurableMap or a stutter:  *)
(* the edit is its Set, the rename its Save.                               *)
LEMMA StepIsDurable == IInv /\ [Next]_vars => [Durable!Next]_(Durable!vars)
<1> SUFFICES ASSUME IInv, [Next]_vars PROVE [Durable!Next]_(Durable!vars)
  OBVIOUS
<1>0. ASSUME UNCHANGED <<mem, file>> PROVE UNCHANGED Durable!vars
  BY <1>0 DEF Durable!vars, Disk
<1>1. ASSUME NEW h \in Handlers, Edit(h) PROVE Durable!Next
  <2>1. /\ req[h].car \in Cars /\ req[h].style \in Styles \cup {NoStyle}
        /\ mem' = [mem EXCEPT ![req[h].car] = req[h].style] /\ UNCHANGED file
    BY <1>1 DEF IInv, RequestsValid, Edit, EditAndMarshal, Edited, Entry
  <2>2. Durable!Set(req[h].car, req[h].style)
    BY <2>1 DEF Durable!Set, Disk
  <2> QED
    BY <2>1, <2>2 DEF Durable!Next
<1>2. ASSUME NEW h \in Handlers, Rename(h) PROVE [Durable!Next]_(Durable!vars)
  <2>1. tmp = mem /\ mem \in Maps /\ mem' = mem
    BY <1>2 DEF IInv, TypeOK, MutexInv, Rename, InSave, Finish, Return
  <2>2. CASE file' = tmp
    BY <2>1, <2>2 DEF Durable!Next, Durable!Save, Disk, Maps
  <2>3. CASE file' = file
    BY <1>0, <2>1, <2>3
  <2> QED
    BY <1>2, <2>2, <2>3 DEF Rename
<1>3. ASSUME NEW readable \in BOOLEAN, Restart(readable) PROVE Durable!Next
  <2>1. mem' \in {Disk, EmptyMap} /\ UNCHANGED file
    BY <1>3, LoadedIsDisk DEF IInv, TypeOK, Restart, Disk
  <2> QED
    BY <2>1 DEF Durable!Next, Durable!Restart, Durable!EmptyMap, EmptyMap, Disk
<1>4. ASSUME NEW h \in Handlers, MkdirAll(h) \/ Create(h) \/ Fill(h) \/ Refuse(h) \/ Reply(h)
      PROVE  UNCHANGED Durable!vars
  BY <1>0, <1>4 DEF MkdirAll, Create, Fill, Refuse, Reply, GoOn, Finish, Return
<1>5. ASSUME NEW h \in Handlers, NEW path \in CarPaths, NEW s \in Entry \cup {BadStyle},
             Request(h, path, s)
      PROVE  UNCHANGED Durable!vars
  BY <1>0, <1>5 DEF Request
<1>6. CASE UNCHANGED vars
  BY <1>0, <1>6 DEF vars
<1> QED
  BY <1>1, <1>2, <1>3, <1>4, <1>5, <1>6 DEF Next, Save

(* The store implements DurableMap: edits of one car at a time, whole maps *)
(* on disk, and no start that brings back anything else.                   *)
THEOREM StoreRefinesDurableMap == Spec => StoreIsDurableMap
<1> QED
  BY SpecIInv, InitIInv, InitIsDurable, StepIsDurable, PTL DEF Spec, Durable!Spec, StoreIsDurableMap

-----------------------------------------------------------------------------
Small(m) == Cardinality(Entries(m)) <= MaxEntries

(* An empty map is within the limit. *)
LEMMA EmptyIsSmall == Small(EmptyMap)
<1>1. Entries(EmptyMap) = {}
  BY DEF Entries, EmptyMap
<1> QED
  BY <1>1, FS_EmptySet, MaxEntriesPositive DEF Small

(* A change that Full does not refuse keeps a map within the limit: only a *)
(* car without an entry adds one, and Full has counted the others.         *)
LEMMA EditStaysSmall ==
    ASSUME NEW m \in Maps, NEW c \in Cars, NEW s \in Entry, Small(m), ~Full(m, c, s)
    PROVE  Small([m EXCEPT ![c] = s])
<1> DEFINE e == [m EXCEPT ![c] = s]
<1>1. IsFiniteSet(Entries(m)) /\ IsFiniteSet(Cars)
  BY FS_Subset, MaxEntriesPositive DEF Entries
<1>2. Cardinality(Entries(m)) \in Nat
  BY <1>1, FS_CardinalityType
<1>3. CASE s = NoStyle \/ c \in Entries(m)
  <2>1. Entries(e) \subseteq Entries(m)
    BY <1>3 DEF Entries, Maps
  <2>2. Cardinality(Entries(e)) <= Cardinality(Entries(m)) /\ Cardinality(Entries(e)) \in Nat
    BY <1>1, <2>1, FS_Subset, FS_CardinalityType
  <2> QED
    BY <1>2, <2>2, MaxEntriesPositive DEF Small
<1>4. CASE s # NoStyle /\ c \notin Entries(m)
  <2>1. Entries(e) = Entries(m) \cup {c}
    BY <1>4 DEF Entries, Maps
  <2>2. Cardinality(Entries(e)) = Cardinality(Entries(m)) + 1
    BY <1>1, <1>4, <2>1, FS_AddElement
  <2> QED
    BY <1>2, <1>4, <2>2, MaxEntriesPositive DEF Small, Full
<1> QED
  BY <1>3, <1>4

(* Every step keeps the map and the file within the limit. *)
LEMMA StepKeepsLimit == IInv /\ IInv' /\ WithinLimit /\ [Next]_vars => WithinLimit'
<1> SUFFICES ASSUME IInv, IInv', WithinLimit, [Next]_vars PROVE WithinLimit'
  OBVIOUS
<1>0. Small(mem) /\ Small(Disk)
  BY DEF WithinLimit, Small
<1>1. ASSUME NEW h \in Handlers, Edit(h) PROVE Small(mem') /\ Disk' = Disk
  <2>1. /\ req[h].car \in Cars /\ req[h].style \in Entry /\ mem \in Maps
        /\ mem' = [mem EXCEPT ![req[h].car] = req[h].style]
        /\ ~Full(mem, req[h].car, req[h].style) /\ UNCHANGED file
    BY <1>1 DEF IInv, TypeOK, RequestsValid, Edit, EditAndMarshal, Edited
  <2> QED
    BY <1>0, <2>1, EditStaysSmall DEF Disk
<1>2. ASSUME NEW h \in Handlers, Rename(h) PROVE Small(mem') /\ Small(Disk')
  <2>1. tmp = mem /\ mem \in Maps /\ mem' = mem
    BY <1>2 DEF IInv, TypeOK, MutexInv, Rename, InSave, Finish, Return
  <2>2. Disk' = mem \/ Disk' = Disk
    BY <1>2, <2>1 DEF Rename, Disk
  <2> QED
    BY <1>0, <2>1, <2>2
<1>3. ASSUME NEW readable \in BOOLEAN, Restart(readable) PROVE Small(mem') /\ Disk' = Disk
  <2>1. mem' \in {Disk, EmptyMap} /\ UNCHANGED file
    BY <1>3, LoadedIsDisk DEF IInv, TypeOK, Restart, Disk
  <2> QED
    BY <1>0, <2>1, EmptyIsSmall DEF Disk
<1>4. ASSUME NEW h \in Handlers, MkdirAll(h) \/ Create(h) \/ Fill(h) \/ Refuse(h) \/ Reply(h)
      PROVE  UNCHANGED <<mem, Disk>>
  BY <1>4 DEF MkdirAll, Create, Fill, Refuse, Reply, GoOn, Finish, Return, Disk
<1>5. ASSUME NEW h \in Handlers, NEW path \in CarPaths, NEW s \in Entry \cup {BadStyle},
             Request(h, path, s)
      PROVE  UNCHANGED <<mem, Disk>>
  BY <1>5 DEF Request, Disk
<1>6. CASE UNCHANGED vars
  BY <1>6 DEF vars, WithinLimit, Disk
<1>7. Small(mem') /\ Small(Disk')
  BY <1>0, <1>1, <1>2, <1>3, <1>4, <1>5, <1>6 DEF Next, Save, vars, Disk
<1> QED
  BY <1>7 DEF WithinLimit, Small

(* And so does the first start. *)
LEMMA InitWithinLimit == Init => WithinLimit
<1> SUFFICES ASSUME Init PROVE WithinLimit
  OBVIOUS
<1>1. Disk = EmptyMap \/ Small(Disk)
  BY FileNames DEF Init, Disk, Small
<1>2. mem = EmptyMap \/ mem = Disk
  BY DEF Init, Loaded, Disk
<1> QED
  BY <1>1, <1>2, EmptyIsSmall DEF WithinLimit, Small

(* However many PUTs add cars at once, neither the map nor the file ever   *)
(* holds more than maxStyleEntries (styles.go:66).                         *)
THEOREM StoreStaysWithinLimit == Spec => []WithinLimit
BY InitWithinLimit, SpecIInv, StepKeepsLimit, PTL DEF Spec
=============================================================================
