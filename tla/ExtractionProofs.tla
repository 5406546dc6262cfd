-------------------------- MODULE ExtractionProofs --------------------------
(***************************************************************************)
(* Proofs about the brownfield extractor, for any set of objects and any   *)
(* number of extracts and edits.                                           *)
(***************************************************************************)
EXTENDS Extraction, TLAPS

(***************************************************************************)
(* How far the walk is: pools wait for their members in one place only,    *)
(* and what follows the walk follows all of it.                            *)
(***************************************************************************)
WalkOK ==
    /\ step = "walk" => pending = {}
    /\ step = "members" => at = 2 /\ pending # {}
    /\ step \in {"emit", "write", "written", "printed"} => at = 7
    /\ step \in {"walk", "members", "emit"} => next = 1
    /\ step = "write" => next <= 5

Inv == TypeOK /\ WalkOK

LEMMA Lengths == /\ Len(Families) = 6 /\ Len(Files) = 5
                 /\ \A i \in 1..6 : Families[i] \in Kinds
                 /\ \A i \in 1..6 : Families[i] = "pool" <=> i = 2
                 /\ \A i \in 1..5 : Files[i] \in FileNames
BY DEF Families, Files, Kinds, FileNames

LEMMA InitInv == Init => Inv
<1> SUFFICES ASSUME Init PROVE Inv
  OBVIOUS
<1>1. edits \in 0..MaxEdits /\ extracts \in 0..MaxExtracts
  BY ObjectsAssumption DEF Init
<1>2. files \in [FileNames -> [by : 0..MaxExtracts, whole : BOOLEAN]]
  BY ObjectsAssumption DEF Init
<1>3. DOMAIN entries \subseteq NamesOf(walked)
  BY DEF Init, NamesOf
<1> QED
  BY <1>1, <1>2, <1>3, Lengths DEF Init, Inv, TypeOK, WalkOK, Resting

LEMMA StepInv == Inv /\ [Next]_vars => Inv'
<1> SUFFICES ASSUME Inv, [Next]_vars PROVE Inv'
  OBVIOUS
<1> USE Lengths, ObjectsAssumption
<1>1. ASSUME NEW old \in SUBSET device, NEW new \in SUBSET Objects, Edited(old, new) PROVE Inv'
  <2>1. /\ device' \subseteq Objects /\ removed' \subseteq Objects /\ lacked' \subseteq Objects
        /\ edits' \in 0..MaxEdits
    BY <1>1 DEF Edited, Inv, TypeOK
  <2> QED
    BY <1>1, <2>1 DEF Edited, extractor, Inv, TypeOK, WalkOK
<1>2. CASE Begin
  <2>1. DOMAIN entries' \subseteq NamesOf(walked')
    BY <1>2 DEF Begin, NamesOf
  <2> QED
    BY <1>2, <2>1 DEF Begin, Inv, TypeOK, WalkOK, Resting
<1>3. CASE WalkFamily
  <2>0. PICK got \in Items(Families[at]) :
        /\ walked' = walked \cup got
        /\ lacked' = lacked \cup (OnDevice(Families[at]) \ got)
        /\ IF Families[at] = "pool" /\ got # {}
             THEN step' = "members" /\ pending' = got /\ at' = at
             ELSE at' = at + 1 /\ UNCHANGED <<step, pending>>
    BY <1>3 DEF WalkFamily
  <2>1. /\ walked' \subseteq Objects /\ walked \subseteq walked' /\ got \subseteq walked'
        /\ lacked' \subseteq Objects
    BY <2>0 DEF Items, OnDevice, Inv, TypeOK
  <2>2. DOMAIN entries' \subseteq NamesOf(walked')
    BY <1>3, <2>1 DEF WalkFamily, NamesOf, Inv, TypeOK
  <2>3. CASE Families[at] = "pool" /\ got # {}
    <3>1. at = 2 /\ at' = 2 /\ step' = "members" /\ pending' = got
      BY <1>3, <2>0, <2>3 DEF WalkFamily, Inv, TypeOK
    <3> QED
      BY <1>3, <2>1, <2>2, <2>3, <3>1 DEF WalkFamily, Inv, TypeOK, WalkOK
  <2>4. CASE ~ (Families[at] = "pool" /\ got # {})
    <3>1. at' \in 1..7 /\ step' = "walk" /\ pending' = {}
      BY <1>3, <2>0, <2>4 DEF WalkFamily, Inv, TypeOK, WalkOK
    <3>2. UNCHANGED <<device, edits, extracts, entries, next, files, before, removed>>
      BY <1>3 DEF WalkFamily
    <3>3. step' = step /\ next' = 1
      BY <1>3, <3>1, <3>2 DEF WalkFamily, Inv, WalkOK
    <3>4. TypeOK'
      BY <2>1, <2>2, <3>1, <3>2, <3>3 DEF Inv, TypeOK
    <3>5. WalkOK'
      BY <3>1, <3>3 DEF WalkOK
    <3> QED
      BY <3>4, <3>5 DEF Inv
  <2> QED
    BY <2>3, <2>4
<1>4. ASSUME NEW o \in pending, FollowMembers(o) PROVE Inv'
  <2>1. lacked' \subseteq Objects
    BY <1>4 DEF FollowMembers, Inv, TypeOK
  <2> QED
    BY <1>4, <2>1 DEF FollowMembers, MembersDone, Inv, TypeOK, WalkOK, Resting
<1>5. CASE WalkInspect
  BY <1>5 DEF WalkInspect, history, Inv, TypeOK, WalkOK
<1>6. ASSUME NEW how \in {"failed", "killed"}, Gone(how),
             files' \in [FileNames -> [by : 0..MaxExtracts, whole : BOOLEAN]]
      PROVE  Inv'
  <2>1. DOMAIN entries' \subseteq NamesOf(walked')
    BY <1>6 DEF Gone, NamesOf
  <2> QED
    BY <1>6, <2>1 DEF Gone, Inv, TypeOK, WalkOK, Resting
<1>7. ASSUME NEW dryRun \in BOOLEAN, Emit(dryRun) PROVE Inv'
  <2>1. DOMAIN entries' \subseteq NamesOf(walked')
    BY <1>7 DEF Emit, Applications, Emitted, NamesOf
  <2> QED
    BY <1>7, <2>1 DEF Emit, history, Inv, TypeOK, WalkOK, Resting
<1>8. CASE FailWalk \/ FailEmit
  BY <1>6, <1>8 DEF FailWalk, FailEmit, Inv, TypeOK
<1>9. CASE WriteFile
  <2>1. next \in 1..5 /\ next' = next + 1 /\ step' = (IF next' > 5 THEN "written" ELSE "write")
    BY <1>9 DEF WriteFile, Inv, TypeOK, WalkOK
  <2>2. files' \in [FileNames -> [by : 0..MaxExtracts, whole : BOOLEAN]]
    BY <1>9, <2>1 DEF WriteFile, Written, Inv, TypeOK
  <2> QED
    BY <1>9, <2>1, <2>2 DEF WriteFile, history, Inv, TypeOK, WalkOK, Resting
<1>10. ASSUME NEW torn \in BOOLEAN, Kill(torn) PROVE Inv'
  <2>1. files' \in [FileNames -> [by : 0..MaxExtracts, whole : BOOLEAN]]
    <3>1. CASE torn
      <4>1. next \in 1..5 /\ Files[next] \in FileNames
        BY <1>10, <3>1 DEF Kill, Inv, TypeOK, WalkOK
      <4>2. files' = [files EXCEPT ![Files[next]] = [by |-> extracts, whole |-> FALSE]]
        BY <1>10, <3>1 DEF Kill
      <4> QED
        BY <4>1, <4>2 DEF Inv, TypeOK
    <3>2. CASE ~ torn
      BY <1>10, <3>2 DEF Kill, Inv, TypeOK
    <3> QED
      BY <3>1, <3>2
  <2> QED
    BY <1>6, <1>10, <2>1 DEF Kill
<1>11. CASE UNCHANGED vars
  BY <1>11 DEF vars, extractor, history, Inv, TypeOK, WalkOK
<1> QED
  <2>1. ASSUME NEW o \in Objects, Create(o) PROVE Inv'
    BY <1>1, <2>1 DEF Create
  <2>2. ASSUME NEW o \in Objects, Delete(o) PROVE Inv'
    BY <1>1, <2>2 DEF Delete
  <2>3. ASSUME NEW o \in Objects, NEW new \in Objects, Modify(o, new) PROVE Inv'
    BY <1>1, <2>3 DEF Modify
  <2> QED
    BY <1>2, <1>3, <1>4, <1>5, <1>7, <1>8, <1>9, <1>10, <1>11, <2>1, <2>2, <2>3 DEF Next

\* Every variable keeps its type, for any device and any number of extracts.
THEOREM ExtractionTypeCorrect == Spec => []TypeOK
<1>1. Inv => TypeOK
  BY DEF Inv
<1> QED
  BY InitInv, StepInv, <1>1, PTL DEF Spec

----------------------------------------------------------------------------
(***************************************************************************)
(* Files.  The newest extract opened none before it writes, and while it   *)
(* writes, those before `next` are its own.                                *)
(***************************************************************************)
FilesOK ==
    /\ step \in {"walk", "members", "emit", "failed"} => \A f \in FileNames : files[f].by # extracts
    /\ \A f \in FileNames : files[f].by <= extracts
    /\ step = "write" => \A i \in 1..(next - 1) : files[Files[i]] = [by |-> extracts, whole |-> TRUE]
    /\ step = "written" => \A i \in 1..5 : files[Files[i]] = [by |-> extracts, whole |-> TRUE]

LEMMA DistinctFiles == /\ \A i, j \in 1..5 : Files[i] = Files[j] => i = j
                       /\ \A f \in FileNames : \E i \in 1..5 : f = Files[i]
BY DEF Files, FileNames

LEMMA InitFiles == Init => FilesOK
BY DEF Init, FilesOK

LEMMA StepFiles == Inv /\ FilesOK /\ [Next]_vars => FilesOK'
<1> SUFFICES ASSUME Inv, FilesOK, [Next]_vars PROVE FilesOK'
  OBVIOUS
<1> USE Lengths
<1>1. ASSUME step' = step \/ step' \in Resting \ {"written", "failed"}, UNCHANGED <<extracts, next, files>>
      PROVE FilesOK'
  BY <1>1 DEF FilesOK, Resting
<1>2. CASE Begin
  <2>1. extracts \in Int /\ \A f \in FileNames : files[f].by \in Int
    BY DEF Inv, TypeOK
  <2>2. extracts' = extracts + 1 /\ step' = "walk" /\ files' = files
    BY <1>2 DEF Begin
  <2> QED
    BY <2>1, <2>2 DEF FilesOK
<1>3. CASE WalkFamily \/ WalkInspect \/ FailWalk \/ FailEmit \/ (\E o \in pending : FollowMembers(o))
  <2>1. /\ step \in {"walk", "members", "emit"} /\ step' \in {"walk", "members", "emit", "failed"}
        /\ UNCHANGED <<extracts, files>>
    BY <1>3 DEF WalkFamily, WalkInspect, FailWalk, FailEmit, Gone, Walking, FollowMembers
  <2> QED
    BY <2>1 DEF FilesOK
<1>4. ASSUME NEW dryRun \in BOOLEAN, Emit(dryRun) PROVE FilesOK'
  <2>1. step = "emit" /\ step' \in {"printed", "write"} /\ UNCHANGED <<extracts, next, files>> /\ next = 1
    BY <1>4 DEF Emit, Inv, WalkOK
  <2> QED
    BY <2>1 DEF FilesOK
<1>5. CASE WriteFile
  <2>1. /\ next \in 1..5 /\ next' = next + 1 /\ extracts' = extracts /\ step = "write"
        /\ step' = (IF next' > 5 THEN "written" ELSE "write")
        /\ files' = [files EXCEPT ![Files[next]] = [by |-> extracts, whole |-> TRUE]]
    BY <1>5 DEF WriteFile, Written, Inv, TypeOK, WalkOK
  <2>2. extracts \in Int /\ DOMAIN files = FileNames
    BY DEF Inv, TypeOK
  <2>3. files'[Files[next]] = [by |-> extracts, whole |-> TRUE]
    BY <2>1, <2>2
  <2>4. \A f \in FileNames : f # Files[next] => files'[f] = files[f]
    BY <2>1, <2>2
  <2>5. \A i \in 1..next : files'[Files[i]] = [by |-> extracts, whole |-> TRUE]
    <3> SUFFICES ASSUME NEW i \in 1..next, i # next
                 PROVE  files'[Files[i]] = [by |-> extracts, whole |-> TRUE]
      BY <2>3
    <3>1. i \in 1..(next - 1) /\ i \in 1..5 /\ Files[i] # Files[next]
      BY <2>1, DistinctFiles
    <3> QED
      BY <3>1, <2>1, <2>4 DEF FilesOK
  <2>6. \A f \in FileNames : files'[f].by <= extracts
    BY <2>2, <2>3, <2>4 DEF FilesOK
  <2>7. CASE step' = "write"
    <3>1. next' - 1 = next
      BY <2>1
    <3> QED
      BY <2>1, <2>5, <2>6, <2>7, <3>1 DEF FilesOK
  <2>8. CASE step' = "written"
    <3>1. next = 5
      BY <2>1, <2>8
    <3> QED
      BY <2>1, <2>5, <2>6, <2>8, <3>1 DEF FilesOK
  <2> QED
    BY <2>1, <2>7, <2>8
<1>6. ASSUME NEW torn \in BOOLEAN, Kill(torn) PROVE FilesOK'
  <2>1. CASE torn
    <3>1. /\ step' = "killed" /\ extracts' = extracts /\ step = "write"
          /\ files' = [files EXCEPT ![Files[next]] = [by |-> extracts, whole |-> FALSE]]
      BY <1>6, <2>1 DEF Kill, Gone
    <3>2. extracts \in Int /\ DOMAIN files = FileNames
      BY DEF Inv, TypeOK
    <3> QED
      BY <3>1, <3>2 DEF FilesOK
  <2>2. CASE ~ torn
    <3>1. step' = "killed" /\ UNCHANGED <<extracts, files>>
      BY <1>6, <2>2 DEF Kill, Gone
    <3> QED
      BY <3>1 DEF FilesOK
  <2> QED
    BY <2>1, <2>2
<1>7. CASE \E o \in Objects : Create(o) \/ Delete(o) \/ (\E new \in Objects : Modify(o, new))
  <2>1. step' = step /\ UNCHANGED <<extracts, next, files>>
    BY <1>7 DEF Create, Delete, Modify, Edited, extractor
  <2> QED
    BY <2>1, <1>1
<1>8. CASE UNCHANGED vars
  BY <1>1, <1>8 DEF vars, extractor
<1> QED
  BY <1>2, <1>3, <1>4, <1>5, <1>6, <1>7, <1>8 DEF Next

\* A failed extract has touched no file.
THEOREM NoFileTouchedByFailure == Spec => []FailureKeepsFiles
<1>1. Inv /\ FilesOK => FailureKeepsFiles
  BY DEF FilesOK, FailureKeepsFiles
<1> QED
  BY InitInv, StepInv, InitFiles, StepFiles, <1>1, PTL DEF Spec

\* A successful extract leaves five complete files of its own, whatever failed
\* or was killed before it.
THEOREM AllFilesWritten == Spec => []SuccessWritesAll
<1>1. Inv /\ FilesOK => SuccessWritesAll
  BY DistinctFiles DEF FilesOK, SuccessWritesAll
<1> QED
  BY InitInv, StepInv, InitFiles, StepFiles, <1>1, PTL DEF Spec

----------------------------------------------------------------------------
(***************************************************************************)
(* The walk.  While it lasts, what was read or was there at the beginning, *)
(* and was not touched since, is on the device, and so is what it refers   *)
(* to.  Of the families read so far nothing of that is missing, except     *)
(* what the answers lacked.                                                *)
(***************************************************************************)
HasRead(kind) ==
    \/ \E i \in 1..6 : i < at /\ Families[i] = kind
    \/ pending # {} /\ kind = "pool"

Untouched == (before \cup walked) \ removed

DeviceOK ==
    /\ \A o \in device : o.uses \subseteq Paths(device)
    /\ step \in Walking => Untouched \subseteq device

ReadOK ==
    /\ \A o \in before \ removed : HasRead(o.kind) => o \in walked \cup lacked
    /\ \A o \in walked \ removed : \A p \in Referenced(o) :
            HasRead(p.kind) => p \in Paths(walked \cup lacked)
    /\ HasDeclaration => entries \in Applications(Emitted(walked))

LEMMA Kept ==
  ASSUME NEW set, NEW old, NEW new, NEW p \in Paths(set),
         \A o \in old : PathOf(o) = p => PathOf(o) \in Paths(new)
  PROVE  p \in Paths((set \ old) \cup new)
BY DEF Paths

LEMMA InitWalk == Init => DeviceOK /\ ReadOK
BY DEF Init, DeviceOK, ReadOK, Untouched, HasDeclaration

LEMMA StepDevice == Inv /\ DeviceOK /\ [Next]_vars => DeviceOK'
<1> SUFFICES ASSUME Inv, DeviceOK, [Next]_vars PROVE DeviceOK'
  OBVIOUS
<1>1. ASSUME NEW old \in SUBSET device, NEW new \in SUBSET Objects, Edited(old, new),
             \A o \in new : o.uses \subseteq Paths(device),
             \A o \in old : \/ PathOf(o) \in Paths(new)
                            \/ \A q \in device \cup new : PathOf(o) \notin q.uses
      PROVE  DeviceOK'
  <2>1. /\ device' = (device \ old) \cup new /\ UNCHANGED <<step, before, walked>>
        /\ step \in Walking => removed' = removed \cup old
    BY <1>1 DEF Edited, extractor
  <2>2. ASSUME NEW o \in device', NEW p \in o.uses PROVE p \in Paths(device')
    <3>1. o \in device \cup new /\ p \in Paths(device)
      BY <1>1, <2>1, <2>2 DEF DeviceOK
    <3>2. \A q \in old : PathOf(q) = p => PathOf(q) \in Paths(new)
      BY <1>1, <2>2, <3>1
    <3> QED
      BY <2>1, <3>1, <3>2, Kept
  <2> QED
    BY <2>1, <2>2 DEF DeviceOK, Untouched, Paths
<1>2. ASSUME NEW o \in Objects, Create(o) PROVE DeviceOK'
  BY <1>1, <1>2 DEF Create
<1>3. ASSUME NEW o \in Objects, Delete(o) PROVE DeviceOK'
  BY <1>1, <1>3 DEF Delete
<1>4. ASSUME NEW o \in Objects, NEW new \in Objects, Modify(o, new) PROVE DeviceOK'
  <2>1. PathOf(o) \in Paths({new}) /\ o \in device /\ new.uses \subseteq Paths(device)
    BY <1>4 DEF Modify, Paths
  <2> QED
    BY <1>1, <1>4, <2>1 DEF Modify
<1>5. CASE Begin
  BY <1>5 DEF Begin, DeviceOK, Untouched, Paths
<1>6. CASE WalkFamily
  <2>1. device' = device /\ step \in Walking /\ UNCHANGED <<before, removed>>
    BY <1>6 DEF WalkFamily, Walking
  <2>2. walked' \subseteq walked \cup device
    BY <1>6 DEF WalkFamily, Items, OnDevice
  <2> QED
    BY <2>1, <2>2 DEF DeviceOK, Untouched, Paths
<1>7. ASSUME UNCHANGED device, step' \in Walking => UNCHANGED <<walked, before, removed>> /\ step \in Walking
      PROVE  DeviceOK'
  BY <1>7 DEF DeviceOK, Untouched, Paths
<1>8. ASSUME NEW o \in pending, FollowMembers(o) PROVE DeviceOK'
  BY <1>7, <1>8 DEF FollowMembers, Walking
<1>9. CASE WalkInspect \/ FailWalk \/ FailEmit \/ WriteFile \/ (\E b \in BOOLEAN : Emit(b) \/ Kill(b))
  BY <1>7, <1>9 DEF WalkInspect, FailWalk, Emit, FailEmit, WriteFile, Kill, Gone, Walking
<1>10. CASE UNCHANGED vars
  BY <1>7, <1>10 DEF vars, extractor, history
<1> QED
  BY <1>2, <1>3, <1>4, <1>5, <1>6, <1>8, <1>9, <1>10 DEF Next

\* What an object refers to is read after it.
LEMMA ReferredLater ==
  ASSUME NEW o, NEW p \in Referenced(o), NEW i \in 1..6, NEW j \in 1..6,
         Families[i] = o.kind, Families[j] = p.kind
  PROVE  i < j
BY DEF Families, Referenced

LEMMA FamiliesDistinct == \A i, j \in 1..6 : Families[i] = Families[j] => i = j
BY DEF Families

\* Reading the next family: it is the only one that is new.
LEMMA ReadsOne ==
  ASSUME Inv, WalkFamily, NEW kind, HasRead(kind)'
  PROVE  HasRead(kind) \/ kind = Families[at]
<1> USE Lengths DEF HasRead
<1>1. at \in 1..6 /\ pending = {}
  BY DEF WalkFamily, Inv, TypeOK, WalkOK
<1>2. CASE Families[at] = "pool" /\ at' = at
  BY <1>1, <1>2
<1>3. CASE at' = at + 1 /\ pending' = pending
  BY <1>1, <1>3
<1> QED
  BY <1>2, <1>3 DEF WalkFamily

LEMMA WalkedUpToNow ==
  ASSUME Inv, WalkFamily
  PROVE  \A kind : HasRead(kind) => \E i \in 1..6 : i < at /\ Families[i] = kind
BY DEF Inv, WalkOK, WalkFamily, HasRead

LEMMA StepRead == Inv /\ DeviceOK /\ ReadOK /\ [Next]_vars => ReadOK'
<1> SUFFICES ASSUME Inv, DeviceOK, ReadOK, [Next]_vars PROVE ReadOK'
  OBVIOUS
<1>1. ASSUME UNCHANGED <<walked, before>>, removed \subseteq removed', lacked \subseteq lacked',
             \A kind : HasRead(kind)' => HasRead(kind),
             HasDeclaration' => HasDeclaration /\ entries' = entries
      PROVE  ReadOK'
  <2>1. Paths(walked \cup lacked) \subseteq Paths(walked' \cup lacked')
    BY <1>1 DEF Paths
  <2> QED
    BY <1>1, <2>1 DEF ReadOK
<1>2. CASE \E o \in Objects : Create(o) \/ Delete(o) \/ (\E new \in Objects : Modify(o, new))
  <2>1. UNCHANGED extractor /\ UNCHANGED <<before, lacked>> /\ removed \subseteq removed'
    BY <1>2 DEF Create, Delete, Modify, Edited
  <2> QED
    BY <2>1, <1>1 DEF extractor, HasRead, HasDeclaration
<1>3. CASE Begin
  <2>1. walked' = {} /\ step' = "walk" /\ at' = 1 /\ pending' = {}
    BY <1>3 DEF Begin
  <2> QED
    BY <2>1 DEF ReadOK, HasRead, HasDeclaration
<1>4. CASE WalkFamily
  <2>1. /\ walked' \cup lacked' = (walked \cup lacked) \cup OnDevice(Families[at])
        /\ walked' \ walked \subseteq OnDevice(Families[at])
        /\ UNCHANGED <<device, before, removed>> /\ step \in Walking
        /\ step' \in {"walk", "members"} /\ at \in 1..6
    BY <1>4, Lengths DEF WalkFamily, Items, Walking, Inv, TypeOK
  <2>2. ASSUME NEW o \in before \ removed, HasRead(o.kind)' PROVE o \in walked' \cup lacked'
    <3>1. o \in device
      BY <2>1, <2>2 DEF DeviceOK, Untouched
    <3>2. HasRead(o.kind) \/ o.kind = Families[at]
      BY <1>4, <2>2, ReadsOne
    <3> QED
      BY <2>1, <2>2, <3>1, <3>2 DEF ReadOK, OnDevice
  <2>3. ASSUME NEW o \in walked' \ removed, NEW p \in Referenced(o), HasRead(p.kind)'
        PROVE  p \in Paths(walked' \cup lacked')
    <3>1. HasRead(p.kind) \/ p.kind = Families[at]
      BY <1>4, <2>3, ReadsOne
    <3>2. o \in device /\ o \in Objects /\ p \in Paths(device)
      BY <2>1, <2>3 DEF DeviceOK, Untouched, OnDevice, Inv, TypeOK, Referenced
    <3>3. CASE p.kind = Families[at]
      <4>1. PICK q \in device : PathOf(q) = p
        BY <3>2 DEF Paths
      <4>2. q.kind = p.kind
        BY <4>1 DEF PathOf
      <4> QED
        BY <2>1, <3>3, <4>1, <4>2 DEF OnDevice, Paths
    <3>4. CASE HasRead(p.kind) /\ p.kind # Families[at]
      <4>1. PICK j \in 1..6 : j < at /\ Families[j] = p.kind
        BY <1>4, <3>4, WalkedUpToNow
      <4>2. o \in walked
        BY <2>1, <2>3, <3>2, <4>1, ReferredLater DEF OnDevice
      <4> QED
        BY <2>1, <2>3, <3>4, <4>2 DEF ReadOK, Paths
    <3> QED
      BY <3>1, <3>3, <3>4
  <2> QED
    BY <2>1, <2>2, <2>3 DEF ReadOK, HasDeclaration
<1>5. ASSUME NEW o \in pending, FollowMembers(o) PROVE ReadOK'
  <2>1. /\ at = 2 /\ at' \in {2, 3} /\ pending # {} /\ UNCHANGED <<walked, before, removed>>
        /\ lacked \subseteq lacked' /\ step' \in {"walk", "members"}
    BY <1>5 DEF FollowMembers, Inv, WalkOK
  <2>2. \A kind : HasRead(kind)' => HasRead(kind)
    BY <2>1 DEF HasRead, Families
  <2> QED
    BY <1>1, <2>1, <2>2 DEF HasDeclaration
<1>6. CASE WalkInspect
  <2>1. UNCHANGED <<walked, before, removed, lacked, at, pending>> /\ step' = "emit"
    BY <1>6 DEF WalkInspect, history
  <2> QED
    BY <1>1, <2>1 DEF HasRead, HasDeclaration
<1>7. CASE FailWalk \/ FailEmit \/ \E torn \in BOOLEAN : Kill(torn)
  <2>1. walked' = {} /\ before' = {} /\ step' \in {"failed", "killed"}
    BY <1>7 DEF FailWalk, FailEmit, Kill, Gone
  <2> QED
    BY <2>1 DEF ReadOK, HasDeclaration
<1>8. ASSUME NEW dryRun \in BOOLEAN, Emit(dryRun) PROVE ReadOK'
  <2>1. /\ UNCHANGED <<walked, before, removed, lacked, at, pending>>
        /\ entries' \in Applications(Emitted(walked))
    BY <1>8 DEF Emit, history
  <2>2. Emitted(walked') = Emitted(walked)
    BY <2>1
  <2>3. \A kind : HasRead(kind)' => HasRead(kind)
    BY <2>1 DEF HasRead
  <2> QED
    BY <2>1, <2>2, <2>3 DEF ReadOK
<1>9. CASE WriteFile
  <2>1. UNCHANGED <<walked, before, removed, lacked, at, pending, entries>> /\ step = "write"
    BY <1>9 DEF WriteFile, history
  <2> QED
    BY <1>1, <2>1 DEF HasRead, HasDeclaration
<1>10. CASE UNCHANGED vars
  BY <1>1, <1>10 DEF vars, extractor, history, HasRead, HasDeclaration
<1> QED
  BY <1>2, <1>3, <1>4, <1>5, <1>6, <1>7, <1>8, <1>9, <1>10 DEF Next

LEMMA AllRead ==
  ASSUME Inv, HasDeclaration
  PROVE  \A kind \in Kinds : HasRead(kind)
<1>1. at = 7
  BY DEF Inv, WalkOK, HasDeclaration
<1>2. \A kind \in Kinds : \E i \in 1..6 : Families[i] = kind
  BY DEF Kinds, Families
<1> QED
  BY <1>1, <1>2 DEF HasRead

\* No edit between two requests makes a reference dangle of an object that was
\* left as it was read; what is left dangling was so on any device at rest.
THEOREM NoDanglingReference == Spec => []ReferencesResolve
<1>1. ASSUME Inv, DeviceOK, ReadOK, HasDeclaration,
             NEW o \in Emitted(walked) \ removed, NEW p \in Referenced(o),
             o \notin MinOf, p.kind \notin KindsNotRead, p \notin Paths(lacked \ walked)
      PROVE  Resolves(o, p) \/ OnTheList(p)
  <2>1. o \in walked \ removed
    BY <1>1 DEF Emitted
  <2>2. p.kind \in Kinds
    BY <1>1 DEF Kinds, KindsNotRead, Referenced
  <2>3. p \in Paths(walked)
    <3>1. p \in Paths(walked \cup lacked)
      BY <1>1, <2>1, <2>2, AllRead DEF ReadOK
    <3> QED
      BY <1>1, <3>1 DEF Paths
  <2>4. PICK q \in walked : PathOf(q) = p
    BY <2>3 DEF Paths
  <2>5. q.name = p.name /\ q.kind = p.kind /\ q.partition = p.partition
    BY <2>4 DEF PathOf
  <2>6. DOMAIN entries = NamesOf(Emitted(walked))
    BY <1>1 DEF ReadOK, Applications
  <2>7. q \in Emitted(walked) \/ OnTheList(p)
    BY <2>4, <2>5 DEF Emitted, IsBuiltin, OnTheList
  <2> QED
    BY <1>1, <2>5, <2>6, <2>7 DEF NamesOf, Resolves
<1>2. Inv /\ DeviceOK /\ ReadOK => ReferencesResolve
  BY <1>1 DEF ReferencesResolve
<1> QED
  BY InitInv, StepInv, InitWalk, StepDevice, StepRead, <1>2, PTL DEF Spec

\* Whatever was on the device for the whole walk, of a kind that is read, has its
\* entry or lost its name to an object emitted no earlier, unless its path is on
\* the list or an answer lacked it.
THEOREM WholeWalkIsKept == Spec => []NothingLost
<1>1. ASSUME Inv, DeviceOK, ReadOK, HasDeclaration,
             NEW o \in before \ (removed \cup lacked), o.kind \in Kinds, ~ OnTheList(o)
      PROVE  /\ o.name \in DOMAIN entries
             /\ \/ entries[o.name] = o
                \/ \E q \in walked \ {o} : q.name = o.name /\ ~ EmittedBefore(q.kind, o.kind)
  <2>1. o \in walked
    BY <1>1, AllRead DEF ReadOK
  <2>2. o \in Emitted(walked)
    BY <1>1, <2>1 DEF Emitted, IsBuiltin, OnTheList, PathOf
  <2>3. /\ entries \in [NamesOf(Emitted(walked)) -> Emitted(walked)]
        /\ entries[o.name].name = o.name /\ ~ EmittedBefore(entries[o.name].kind, o.kind)
    BY <1>1, <2>2 DEF ReadOK, Applications
  <2>4. o.name \in NamesOf(Emitted(walked))
    BY <2>2 DEF NamesOf
  <2>5. entries[o.name] \in walked
    BY <2>3, <2>4 DEF Emitted
  <2> QED
    BY <2>3, <2>4, <2>5
<1>2. Inv /\ DeviceOK /\ ReadOK => NothingLost
  BY <1>1 DEF NothingLost
<1> QED
  BY InitInv, StepInv, InitWalk, StepDevice, StepRead, <1>2, PTL DEF Spec
=============================================================================
