----------------------------- MODULE Extraction -----------------------------
(***************************************************************************)
(* The brownfield extractor tools/brownfield: `extract` reads a live       *)
(* device one collection after the other (walker.py), turns what it read   *)
(* into one AS3 declaration (emit/as3.py, builtins.py) and writes five     *)
(* files (cli.py).  Meanwhile the device is edited, and the extractor may  *)
(* fail or be killed and be run again over the same directory.             *)
(***************************************************************************)
EXTENDS Integers, Sequences, FiniteSets

CONSTANTS
    Objects,        \* LTM objects: [kind, partition, name, uses], see PathOf
    Stock,          \* those that the vendor puts on every device
    Listed,         \* names n with /Common/n in BIGIP_BUILTINS
    MinOf,          \* pools with a "min N of { ... }" monitor string
    BadDestination, \* virtuals with a destination that parse_destination refuses
    MaxExtracts,    \* bound: runs of extract
    MaxEdits,       \* bound: edits of the device
    MaxLacked       \* bound: objects that the answers of one walk lack

\* The order in which as3.py emits.
EmitOrder == <<"monitor", "persist", "profile", "rule", "pool", "virtual">>

\* Mutant of Families: read in that order too.
FamiliesAsEmitted == EmitOrder

\* The order in which walk_all reads.
Families == <<"virtual", "pool", "monitor", "profile", "persist", "rule">>

Kinds == {"virtual", "pool", "monitor", "profile", "persist", "rule"}

\* Monitors other than http, profiles other than client-ssl, persistence other
\* than cookie: an object may refer to one, but no request asks for them.
KindsNotRead == {"other_monitor", "other_profile", "other_persist"}

\* An object is known by its path; its uses are the paths that it refers to.
PathOf(o) == [kind |-> o.kind, partition |-> o.partition, name |-> o.name]

Paths(set) == {PathOf(o) : o \in set}

ASSUME ObjectsAssumption ==
    /\ \A o \in Objects : o.kind \in Kinds \cup KindsNotRead
    /\ Stock \subseteq Objects
    /\ MinOf \subseteq {o \in Objects : o.kind = "pool"}
    /\ BadDestination \subseteq {o \in Objects : o.kind = "virtual"}
    /\ MaxExtracts \in Nat /\ MaxEdits \in Nat /\ MaxLacked \in Nat

Files == <<"as3.json", "do.json", "main.tf", "imports.tf", "README.md">>

FileNames == {"as3.json", "do.json", "main.tf", "imports.tf", "README.md"}

VARIABLES
    device,     \* the objects on the device
    edits,      \* edits so far
    step,       \* what extract is doing
    extracts,   \* runs of extract, the present one included
    at,         \* index of the family to read next
    pending,    \* pools whose members have not been read
    walked,     \* WalkerOutput: the objects read so far
    entries,    \* the AS3 application: the object that each name stands for
    next,       \* index of the file to write next
    files,      \* files[f].by: the extract that opened it last, 0 for none
    before,     \* history: the objects when the walk began
    removed,    \* history: objects deleted or modified during the walk
    lacked      \* history: objects that an answer should have had and lacked

extractor == <<step, extracts, at, pending, walked, entries, next, files>>
history == <<before, removed, lacked>>
vars == <<device, edits, extractor, history>>

Walking == {"walk", "members"}

Resting == {"idle", "written", "printed", "failed", "killed"}

Init ==
    /\ device \in SUBSET Objects /\ Stock \subseteq device
    /\ \A o, q \in device : PathOf(o) = PathOf(q) => o = q
    /\ \A o \in device : o.uses \subseteq Paths(device)
    /\ edits = 0 /\ step = "idle" /\ extracts = 0 /\ at = 1 /\ next = 1
    /\ pending = {} /\ walked = {} /\ entries = <<>>
    /\ files = [f \in FileNames |-> [by |-> 0, whole |-> FALSE]]
    /\ before = {} /\ removed = {} /\ lacked = {}

----------------------------------------------------------------------------
(***************************************************************************)
(* The device as others edit it: TMOS keeps references intact and does not *)
(* let its own objects go.                                                 *)
(***************************************************************************)
\* Mutant of IsBuiltin: the name alone decides.
IsBuiltinByName(p) == p.name \in Listed

IsBuiltin(p) == p.partition = "Common" /\ p.name \in Listed

Edited(old, new) ==
    /\ edits < MaxEdits /\ edits' = edits + 1
    /\ device' = (device \ old) \cup new
    /\ removed' = IF step \in Walking THEN removed \cup old ELSE removed
    /\ UNCHANGED <<extractor, before, lacked>>

Create(o) ==
    /\ PathOf(o) \notin Paths(device)
    /\ o.uses \subseteq Paths(device)
    /\ Edited({}, {o})

Delete(o) ==
    /\ o \in device
    /\ PathOf(o) \notin Paths(Stock)
    /\ \A q \in device : PathOf(o) \notin q.uses
    /\ Edited({o}, {})

Modify(o, new) ==
    /\ o \in device
    /\ o # new /\ PathOf(o) = PathOf(new)
    /\ new.uses \subseteq Paths(device)
    /\ Edited({o}, {new})

----------------------------------------------------------------------------
\* The process ends, and what it had read goes with it.
Gone(how) ==
    /\ step' = how
    /\ at' = 1 /\ next' = 1 /\ pending' = {} /\ walked' = {} /\ entries' = <<>>
    /\ before' = {} /\ removed' = {} /\ lacked' = {}
    /\ UNCHANGED <<device, edits, extracts>>

(***************************************************************************)
(* extract: the walk.                                                      *)
(***************************************************************************)
\* Mutant of Begin: the output file is opened up front.
BeginWithOpenFile ==
    /\ step \in Resting /\ extracts < MaxExtracts
    /\ extracts' = extracts + 1
    /\ step' = "walk" /\ at' = 1 /\ next' = 1
    /\ pending' = {} /\ walked' = {} /\ entries' = <<>>
    /\ files' = [files EXCEPT !["as3.json"] = [by |-> extracts + 1, whole |-> FALSE]]
    /\ before' = device /\ removed' = {} /\ lacked' = {}
    /\ UNCHANGED <<device, edits>>

Begin ==
    /\ step \in Resting /\ extracts < MaxExtracts
    /\ extracts' = extracts + 1
    /\ step' = "walk" /\ at' = 1 /\ next' = 1
    /\ pending' = {} /\ walked' = {} /\ entries' = <<>>
    /\ before' = device /\ removed' = {} /\ lacked' = {}
    /\ UNCHANGED <<device, edits, files>>

OnDevice(kind) == {o \in device : o.kind = kind}

\* _items: what is no object is dropped, and a body without a list of items
\* counts as an empty collection, so a request that succeeds gives any part.
Items(kind) == SUBSET OnDevice(kind)

\* One collection; for pools the members come next, pool by pool.
WalkFamily ==
    /\ step = "walk" /\ at <= Len(Families)
    /\ \E got \in Items(Families[at]) :
        /\ walked' = walked \cup got
        /\ lacked' = lacked \cup (OnDevice(Families[at]) \ got) /\ Cardinality(lacked') <= MaxLacked
        /\ IF Families[at] = "pool" /\ got # {}
             THEN step' = "members" /\ pending' = got /\ at' = at
             ELSE at' = at + 1 /\ UNCHANGED <<step, pending>>
    /\ UNCHANGED <<device, edits, extracts, entries, next, files, before, removed>>

\* Mutant of MembersDone: the loop is left with the first pool.
MembersDoneAtOnce(left) == TRUE

MembersDone(left) == left = {}

\* The link of a pool that is gone answers 404, see FailWalk, but a pool that came
\* without one is passed over; an answer may lack members (_items again).
FollowMembers(o) ==
    /\ step = "members" /\ o \in pending
    /\ pending' = pending \ {o}
    /\ lacked' \in {lacked, lacked \cup {o}} /\ Cardinality(lacked') <= MaxLacked
    /\ IF MembersDone(pending') THEN step' = "walk" /\ at' = at + 1
                                ELSE UNCHANGED <<step, at>>
    /\ UNCHANGED <<device, edits, extracts, walked, entries, next, files, before, removed>>

\* /inspect comes last; the DO declaration is not looked into.
WalkInspect ==
    /\ step = "walk" /\ at > Len(Families)
    /\ step' = "emit"
    /\ UNCHANGED <<device, edits, extracts, at, pending, walked, entries, next, files, history>>

\* A GET is refused (404 for a pool that is gone), times out or does not answer
\* JSON, or /inspect does not have its shape.  No other shape fails: see Items.
FailWalk == step \in Walking /\ Gone("failed") /\ UNCHANGED files

----------------------------------------------------------------------------
(***************************************************************************)
(* extract: declarations and files.                                        *)
(***************************************************************************)
Emitted(set) == {o \in set : o.kind \in {"pool", "virtual"} \/ ~ IsBuiltin(PathOf(o))}

\* What the entry of an object refers to, whether it is read or not.  Of the
\* profiles as3.py keeps the first with "clientssl" in its path that is not a
\* built-in one, and of monitors joined by "and" the last; here it keeps all.
Referenced(o) ==
    {p \in o.uses :
        \/ o.kind = "pool" /\ p.kind \in {"monitor", "other_monitor"}
        \/ /\ o.kind = "virtual"
           /\ p.kind \in {"pool", "rule", "profile", "other_profile", "persist", "other_persist"}}

\* References are names, cut off after the last slash; of "min 1 of { /Common/a }"
\* that leaves a text that no object has for a name.
Resolves(o, p) == o \notin MinOf /\ p.name \in DOMAIN entries

NamesOf(set) == {o.name : o \in set}

EmittedBefore(kind, other) ==
    \E i, j \in DOMAIN EmitOrder : i < j /\ EmitOrder[i] = kind /\ EmitOrder[j] = other

\* One dict, whatever the partition: a name stands for the object that was
\* emitted last; within a kind that is the order of the device's answer.
Applications(set) ==
    {a \in [NamesOf(set) -> set] :
        \A o \in set : a[o.name].name = o.name /\ ~ EmittedBefore(a[o.name].kind, o.kind)}

Emit(dryRun) ==
    /\ step = "emit" /\ walked \cap BadDestination = {}
    /\ \E a \in Applications(Emitted(walked)) : entries' = a
    /\ step' = IF dryRun THEN "printed" ELSE "write"
    /\ UNCHANGED <<device, edits, extracts, at, pending, walked, next, files, history>>

\* parse_destination refuses a virtual, or _member_port a member of a pool.
FailEmit ==
    /\ step = "emit"
    /\ walked \cap BadDestination # {} \/ \E o \in walked : o.kind = "pool"
    /\ Gone("failed") /\ UNCHANGED files

\* Mutant of Written: a file that is there already is kept.
WrittenOnce(f) == IF files[f].by # 0 THEN files[f] ELSE [by |-> extracts, whole |-> TRUE]

Written(f) == [by |-> extracts, whole |-> TRUE]

WriteFile ==
    /\ step = "write"
    /\ files' = [files EXCEPT ![Files[next]] = Written(Files[next])]
    /\ next' = next + 1
    /\ step' = IF next' > Len(Files) THEN "written" ELSE "write"
    /\ UNCHANGED <<device, edits, extracts, at, pending, walked, entries, history>>

\* The process dies, or the disk is full.  write_text truncates first.
Kill(torn) ==
    /\ step \notin Resting
    /\ Gone("killed")
    /\ IF torn THEN /\ step = "write"
                    /\ files' = [files EXCEPT ![Files[next]] = [by |-> extracts, whole |-> FALSE]]
               ELSE UNCHANGED files

Next ==
    \/ \E o \in Objects : Create(o) \/ Delete(o) \/ (\E new \in Objects : Modify(o, new))
    \/ Begin
    \/ WalkFamily
    \/ \E o \in pending : FollowMembers(o)
    \/ WalkInspect
    \/ FailWalk
    \/ \E dryRun \in BOOLEAN : Emit(dryRun)
    \/ FailEmit
    \/ WriteFile
    \/ \E torn \in BOOLEAN : Kill(torn)

Spec == Init /\ [][Next]_vars

----------------------------------------------------------------------------
(***************************************************************************)
(* Properties.                                                             *)
(***************************************************************************)
\* Every variable keeps its type; pools wait for their members only while
\* walk_pools follows the links.
TypeOK ==
    /\ device \subseteq Objects /\ before \subseteq Objects
    /\ removed \subseteq Objects /\ lacked \subseteq Objects
    /\ edits \in 0..MaxEdits /\ extracts \in 0..MaxExtracts
    /\ step \in Resting \cup {"walk", "members", "emit", "write"}
    /\ at \in 1..(Len(Families) + 1) /\ next \in 1..(Len(Files) + 1)
    /\ pending \subseteq walked /\ walked \subseteq Objects
    /\ pending # {} => at = 2
    /\ DOMAIN entries \subseteq NamesOf(walked)
    /\ files \in [FileNames -> [by : 0..MaxExtracts, whole : BOOLEAN]]

HasDeclaration == step \in {"write", "written", "printed"}

\* What filter_builtins drops, as builtins.py's list of /Common paths says it.
OnTheList(p) ==
    p.kind \notin {"pool", "virtual"} /\ p.partition = "Common" /\ p.name \in Listed

\* The filter never reaches into another partition, nor at pools and virtuals:
\* an object of a kind that is read, on the device and unchanged for the whole
\* walk, is what its name stands for in the declaration, unless its path is on
\* the list, an answer lacked it (or its members), or an object of the same kind
\* or of one emitted later took the name (walker.py walk_all, _items, builtins.py
\* is_builtin, as3.py _build_application).  Whether the list is what this device's
\* vendor ships, the code does not ask: an operator's object at a path on the
\* list is dropped, and one of the vendor's at another path is declared.
NothingLost ==
    HasDeclaration =>
        \A o \in before \ (removed \cup lacked) :
            o.kind \in Kinds /\ ~ OnTheList(o) =>
                /\ o.name \in DOMAIN entries
                /\ \/ entries[o.name] = o
                   \/ \E q \in walked \ {o} : q.name = o.name /\ ~ EmittedBefore(q.kind, o.kind)

\* The device is read in pieces while it changes, but referring objects before the
\* ones they refer to: a reference of an object that is still as it was read finds
\* an entry of its name, however the device was edited meanwhile.  It dangles only
\* where no edit is needed for that: what it refers to is of a kind that is not
\* read, is on the list of what is not declared, was left out of a successful
\* answer, or the monitor string is a "min N of" (walker.py walk_all, as3.py).
ReferencesResolve ==
    HasDeclaration =>
        \A o \in Emitted(walked) \ removed : \A p \in Referenced(o) :
            \/ Resolves(o, p)
            \/ p.kind \in KindsNotRead \/ o \in MinOf
            \/ OnTheList(p)
            \/ p \in Paths(lacked \ walked)

\* An extract that fails before its first write leaves the files of earlier ones
\* alone: nothing is opened before the whole walk and all emitters went well
\* (cli.py _cmd_extract).
FailureKeepsFiles ==
    step = "failed" => \A f \in FileNames : files[f].by # extracts

\* Exit status 0 without --dry-run: all five files are complete and of this
\* extract, whatever earlier ones left half written (cli.py _cmd_extract).
SuccessWritesAll ==
    step = "written" => \A f \in FileNames : files[f] = [by |-> extracts, whole |-> TRUE]
=============================================================================
