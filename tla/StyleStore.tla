----------------------------- MODULE StyleStore -----------------------------
(***************************************************************************)
(* styles.go: the CarOrdinal -> dash style map, kept in memory and written *)
(* to DATA_DIR/car-styles.json on every change, and the PUT handlers of    *)
(* hub.go that edit it.  A save is several system calls under the store's  *)
(* mutex (make the directory, truncate the temporary file, fill it, rename *)
(* it); each may fail, and the process may be killed between any two.      *)
(*                                                                         *)
(* A Go map is a total function to Styles \cup {NoStyle}; the JSON text of *)
(* a map is the map.  The texts of {car} in the URL stay apart from the    *)
(* ordinals they parse to, since "7" and "007" name one car.               *)
(***************************************************************************)
EXTENDS Naturals, FiniteSets

CONSTANTS
    Handlers,    \* goroutines serving PUT /api/styles/{car}
    Cars,        \* CarOrdinals
    Styles,      \* style ids that styleIDRe accepts
    NoStyle,     \* the empty style: a car without an entry, or a removal
    BadStyle,    \* a style id that styleIDRe refuses
    CarPaths,    \* texts of {car} in the URL
    Ordinal,     \* the number strconv.ParseInt makes of each of them
    NoCar,       \* ParseInt failed, or the number is negative
    MaxEntries,  \* maxStyleEntries
    Absent,      \* no such file
    Torn,        \* a file cut short in the middle of a write
    Nobody       \* the mutex is free

Entry == Styles \cup {NoStyle}
Maps == [Cars -> Entry]
EmptyMap == [c \in Cars |-> NoStyle]
Entries(m) == {c \in Cars : m[c] # NoStyle}

ASSUME StyleNames == NoStyle \notin Styles /\ BadStyle \notin Entry
ASSUME CarNames == Ordinal \in [CarPaths -> Cars \cup {NoCar}] /\ NoCar \notin Cars
ASSUME FileNames == Absent \notin Maps /\ Torn \notin Maps /\ Absent # Torn
ASSUME NobodyNames == Nobody \notin Handlers
ASSUME MaxEntriesPositive == MaxEntries \in Nat \ {0} /\ IsFiniteSet(Cars)

VARIABLES
    mem,      \* styleStore.m
    mu,       \* styleStore.mu: the handler that holds it
    file,     \* car-styles.json
    tmp,      \* car-styles.json.tmp
    saveErr,  \* the last save, or the load at start, was logged as failed
    pc,       \* where each handler is
    req,      \* the car and style it was asked for
    doc       \* the bytes its save() marshalled

vars == <<mem, mu, file, tmp, saveErr, pc, req, doc>>

Requests == [car : Cars \cup {NoCar}, style : Entry \cup {BadStyle}]
NoRequest == [car |-> NoCar, style |-> NoStyle]

(* Holding the mutex: from the edit to the end of save(). *)
InSave == {"mkdir", "create", "fill", "rename"}

(* loadStyles: what a start makes of the file, and whether it logs.  A     *)
(* read error leaves the map empty and the file in place.                  *)
Loaded(f, readable) == IF readable /\ f \in Maps THEN f ELSE EmptyMap
LoadFails(f, readable) == ~readable \/ f = Torn

Init ==
    /\ file \in {Absent} \cup {m \in Maps : Cardinality(Entries(m)) <= MaxEntries}
    /\ tmp = Absent
    /\ \E readable \in BOOLEAN :
          /\ mem = Loaded(file, readable)
          /\ saveErr = LoadFails(file, readable)
    /\ mu = Nobody
    /\ pc = [h \in Handlers |-> "idle"]
    /\ req = [h \in Handlers |-> NoRequest]
    /\ doc = [h \in Handlers |-> EmptyMap]

-----------------------------------------------------------------------------
(* Bug: the limit compares with > instead of >=. *)
FullOffByOne(m, c, s) ==
    s # NoStyle /\ c \notin Entries(m) /\ Cardinality(Entries(m)) > MaxEntries

(* A new car does not fit once the map holds maxStyleEntries. *)
Full(m, c, s) ==
    /\ s # NoStyle
    /\ c \notin Entries(m)
    /\ Cardinality(Entries(m)) >= MaxEntries

(* save() returns: set() logs an error, unlocks and reports success. *)
Return(h, failed, holder) ==
    /\ saveErr' = failed
    /\ mu' = holder
    /\ pc' = [pc EXCEPT ![h] = "done"]
    /\ doc' = [doc EXCEPT ![h] = EmptyMap]
    /\ UNCHANGED <<mem, req>>

(* Bug: a failed save returns without unlocking. *)
FinishKeepsLock(h, failed) == Return(h, failed, IF failed THEN mu ELSE Nobody)

Finish(h, failed) == Return(h, failed, Nobody)

GoOn(h, next) ==
    /\ pc' = [pc EXCEPT ![h] = next]
    /\ UNCHANGED <<mem, mu, saveErr, req, doc>>

(* The edit under the lock, and save() marshalling a map. *)
EditAndMarshal(h, edited, marshalled) ==
    /\ pc[h] = "lock"
    /\ ~Full(mem, req[h].car, req[h].style)
    /\ mu' = h
    /\ mem' = edited
    /\ doc' = [doc EXCEPT ![h] = marshalled]
    /\ pc' = [pc EXCEPT ![h] = "mkdir"]
    /\ UNCHANGED <<file, tmp, saveErr, req>>

Edited(h) == [mem EXCEPT ![req[h].car] = req[h].style]

(* Bug: the edit does not wait for the mutex, so two saves share one .tmp. *)
EditUnlocked(h) == EditAndMarshal(h, Edited(h), Edited(h))

(* Bug: save() marshals the map as it was before the edit. *)
EditMarshalsFirst(h) == mu = Nobody /\ EditAndMarshal(h, Edited(h), mem)

(* Bug: save() ignores WriteFile's error and renames what there is. *)
FillUnchecked(h) ==
    /\ pc[h] = "fill"
    /\ tmp' \in {doc[h], Torn}
    /\ GoOn(h, "rename")
    /\ UNCHANGED file

-----------------------------------------------------------------------------
(* set() before the lock: both texts are checked, the car is reduced to    *)
(* its canonical number.                                                   *)
Valid(path, s) == Ordinal[path] # NoCar /\ s \in Entry

Request(h, path, s) ==
    /\ pc[h] = "idle"
    /\ pc' = [pc EXCEPT ![h] = IF Valid(path, s) THEN "lock" ELSE "refused"]
    /\ req' = [req EXCEPT ![h] = IF Valid(path, s)
                                 THEN [car |-> Ordinal[path], style |-> s]
                                 ELSE NoRequest]
    /\ UNCHANGED <<mem, mu, file, tmp, saveErr, doc>>

Refuse(h) ==
    /\ pc[h] = "lock"
    /\ mu = Nobody
    /\ Full(mem, req[h].car, req[h].style)
    /\ pc' = [pc EXCEPT ![h] = "refused"]
    /\ UNCHANGED <<mem, mu, file, tmp, saveErr, req, doc>>

Edit(h) == mu = Nobody /\ EditAndMarshal(h, Edited(h), Edited(h))

MkdirAll(h) ==
    /\ pc[h] = "mkdir"
    /\ GoOn(h, "create") \/ Finish(h, TRUE)
    /\ UNCHANGED <<file, tmp>>

(* os.WriteFile opens the temporary file with O_TRUNC, then fills it. *)
Create(h) ==
    /\ pc[h] = "create"
    /\ \/ tmp' = Torn /\ GoOn(h, "fill")
       \/ tmp' = tmp /\ Finish(h, TRUE)
    /\ UNCHANGED file

Fill(h) ==
    /\ pc[h] = "fill"
    /\ \/ tmp' = doc[h] /\ GoOn(h, "rename")
       \/ tmp' = Torn /\ Finish(h, TRUE)
    /\ UNCHANGED file

Rename(h) ==
    /\ pc[h] = "rename"
    /\ \/ file' = tmp /\ tmp' = Absent /\ Finish(h, FALSE)
       \/ UNCHANGED <<file, tmp>> /\ Finish(h, TRUE)

Reply(h) ==
    /\ pc[h] \in {"done", "refused"}
    /\ pc' = [pc EXCEPT ![h] = "idle"]
    /\ req' = [req EXCEPT ![h] = NoRequest]
    /\ UNCHANGED <<mem, mu, file, tmp, saveErr, doc>>

(* The process is killed wherever it is and started again: loadStyles.     *)
(* Requests in flight are gone; the files stay as they were.               *)
Restart(readable) ==
    /\ mem' = Loaded(file, readable)
    /\ saveErr' = LoadFails(file, readable)
    /\ mu' = Nobody
    /\ pc' = [h \in Handlers |-> "idle"]
    /\ req' = [h \in Handlers |-> NoRequest]
    /\ doc' = [h \in Handlers |-> EmptyMap]
    /\ UNCHANGED <<file, tmp>>

Save(h) == MkdirAll(h) \/ Create(h) \/ Fill(h) \/ Rename(h)

Next ==
    \/ \E h \in Handlers, path \in CarPaths, s \in Entry \cup {BadStyle} : Request(h, path, s)
    \/ \E h \in Handlers : Refuse(h) \/ Edit(h) \/ Save(h) \/ Reply(h)
    \/ \E readable \in BOOLEAN : Restart(readable)

(* System calls return and handlers are scheduled (weak fairness); the     *)
(* mutex is starvation-free (strong fairness for whoever waits for it).    *)
Fairness ==
    \A h \in Handlers :
        /\ WF_vars(Save(h))
        /\ WF_vars(Reply(h))
        /\ SF_vars(Refuse(h) \/ Edit(h))

Spec == Init /\ [][Next]_vars /\ Fairness
-----------------------------------------------------------------------------
TypeOK ==
    /\ mem \in Maps
    /\ mu \in Handlers \cup {Nobody}
    /\ file \in Maps \cup {Absent, Torn}
    /\ tmp \in Maps \cup {Absent, Torn}
    /\ saveErr \in BOOLEAN
    /\ pc \in [Handlers -> {"idle", "lock", "done", "refused"} \cup InSave]
    /\ req \in [Handlers -> Requests]
    /\ doc \in [Handlers -> Maps]

(* car-styles.json always holds a whole map: whatever fails or is killed   *)
(* half way, the file a start reads is never cut short.  (DESIGN.md:78,    *)
(* "written atomically".)                                                  *)
FileNeverTorn == file # Torn

(* The map the next start reads. *)
Disk == IF file \in Maps THEN file ELSE EmptyMap

(* Once the store is at rest and its last save did not log an error, the   *)
(* file holds exactly the map in memory, the changes of earlier saves that *)
(* failed included: a restart then loses nothing (styles.go:71).           *)
DiskIsCurrent == mu = Nobody /\ ~saveErr => Disk = mem

(* Nothing but a PUT or a restart changes the map, one PUT changes one     *)
(* car, and every map ever saved is a map every device was shown: the      *)
(* store implements DurableMap.                                            *)
Durable == INSTANCE DurableMap WITH disk <- Disk
StoreIsDurableMap == Durable!Spec

(* However many devices add cars at once, the file and the map stay within *)
(* maxStyleEntries.                                                        *)
WithinLimit ==
    /\ Cardinality(Entries(mem)) <= MaxEntries
    /\ Cardinality(Entries(Disk)) <= MaxEntries

(* A PUT that waits for the store gets its answer, although every one      *)
(* before it wrote the disk under the same mutex and may have failed to:   *)
(* no error path leaves the mutex held.                                    *)
PutAnswered == \A h \in Handlers : pc[h] = "lock" ~> pc[h] \in {"done", "refused", "idle"}
=============================================================================
