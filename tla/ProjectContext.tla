--------------------------- MODULE ProjectContext ---------------------------
(***************************************************************************)
(* One project record - its roots, default root and context sources - and  *)
(* the skills registered for it.                                           *)
(*                                                                         *)
(* Every helper that changes one root or source reads the project with     *)
(* GetProject, edits what it read, and writes the whole record back with   *)
(* UpdateProject, which compares nothing.  Only the two store calls hold a *)
(* lock, so a helper is a sequence of steps: GetProject, an edit, a write. *)
(*                                                                         *)
(* MemoryStore hands out the slices of the stored record, the SQLite store *)
(* decodes a copy.  "sharing" says which store runs; a helper holds a slot *)
(* with the lists it read, and with sharing this is the slot the stored    *)
(* record uses until the next write replaces it.                           *)
(***************************************************************************)
EXTENDS Naturals, Sequences, FiniteSets

CONSTANTS
    RootIds, SourceIds, Skills,
    Paths,          \* where an active root can point
    Inactive,       \* content of a root that is switched off
    Guide, Plain,   \* a source that points discovery at one more directory, or not
    Descriptions,   \* of a skill: the one field an operator can edit that may be blank
    Blank,
    SkillInputs,    \* skill records a host writes: a status may be Unset
    FileDescription,  \* what its SKILL.md says, which may be nothing
    HostProjects,   \* the roots and default root a host creates or replaces a project with
    FileSets,       \* what the directories may hold: sets of <<path, base, skill>>
    Edits,          \* what callers ask for: the operation, an id, and a content
    Callers,        \* calls in flight
    MaxCalls,       \* bound: helper calls started in a behaviour
    NoRoot, Absent, Idle, Unset

Bases == {"own", "guided"}
RootEntry == [id : RootIds, content : Paths \cup {Inactive}]
SourceEntry == [id : SourceIds, content : {Guide, Plain}]
Defaults == RootIds \cup {NoRoot}
Lists == {"roots", "sources"}

\* The lists each call holds, those stored, and those being written.
Slots == 1 .. Cardinality(Callers) + 2
Body == [roots : Seq(RootEntry), sources : Seq(SourceEntry), shifted : SUBSET Callers]
NoBody == [roots |-> <<>>, sources |-> <<>>, shifted |-> {}]
Project == [body : Slots, default : Defaults]

SkillStatuses == {"available", "conflict", "missing", "invalid"}
Skill == [description : Descriptions, status : SkillStatuses]

\* What is asked of a helper: the operation, the id and the content it is about.
RootEdit == [op : {"CreateRoot", "AttachProjectRoot", "UpdateRoot", "DeleteRoot",
                   "RemoveProjectRoot", "SetProjectDefaults"},
             id : RootIds, content : Paths \cup {Inactive}]
SourceEdit == [op : {"CreateContextSource", "UpdateContextSource", "DeleteContextSource"},
               id : SourceIds, content : {Guide, Plain}]
PatchEdit == [op : {"PatchRoots"}, id : {NoRoot}, content : Seq(RootEntry)]
WholeEdit == [op : {"RenameProject", "DiscoverProjectSkills"}, id : {NoRoot}, content : {Plain}]

\* A helper in flight: with what it read, moving entries in what it read, about
\* to write, or writing the skills it found.
Reading == [phase : {"read", "edited"}, edit : Edits, slot : Slots, default : Defaults,
            overtaken : BOOLEAN]
Removal == [phase : {"removing"}, edit : {e \in Edits : e.op = "RemoveProjectRoot"}, slot : Slots, default : Defaults,
            next : Nat, kept : Nat, overtaken : BOOLEAN]
Writing == [phase : {"ready"}, edit : Edits, roots : Seq(RootEntry), sources : Seq(SourceEntry),
            default : Defaults, overtaken : BOOLEAN]
Discovery == [phase : {"discovering"}, edit : Edits, prior : [Skills -> Skill \cup {Absent}],
              declared : [Skills -> SkillStatuses], todo : SUBSET Skills, overtaken : BOOLEAN]
Call == Reading \cup Removal \cup Writing \cup Discovery

ASSUME ContextAssumption ==
    /\ MaxCalls \in Nat
    /\ IsFiniteSet(Callers)
    /\ NoRoot \notin RootIds \cup SourceIds
    /\ Inactive \notin Paths
    /\ {Blank, FileDescription} \subseteq Descriptions
    /\ Unset \notin SkillStatuses
    /\ Absent \notin Project \cup Skill \cup Defaults \cup Callers
    /\ Idle \notin Call
    /\ Edits \subseteq RootEdit \cup SourceEdit \cup PatchEdit \cup WholeEdit
    /\ HostProjects \subseteq [roots : Seq(RootEntry), default : Defaults]
    /\ SkillInputs \subseteq [description : Descriptions, status : SkillStatuses \cup {Unset}]

\* Only the hosts answer for it: no operation compares the ids of a list it is given.
UniqueIds(list) == \A i, j \in DOMAIN list : list[i].id = list[j].id => i = j
ASSUME UniqueInputs ==
    /\ \A host \in HostProjects : UniqueIds(host.roots)
    /\ \A edit \in Edits : edit.op = "PatchRoots" => UniqueIds(edit.content)

VARIABLES
    sharing,    \* TRUE: MemoryStore; FALSE: the SQLite store
    project,    \* Absent, or the slot of its lists and its default root
    bodies,     \* the lists in use; "shifted" is history: whose removals moved entries
    skills,     \* the project's skill records
    files,      \* what the directories declare
    calls,      \* the helpers in flight
    started     \* helper calls begun so far

vars == <<sharing, project, bodies, skills, files, calls, started>>

(***************************************************************************)
(* Lists of entries with an id.                                            *)
(***************************************************************************)
Ids(list) == {list[i].id : i \in DOMAIN list}
First(list, id) == CHOOSE i \in DOMAIN list :
    list[i].id = id /\ \A j \in 1 .. i - 1 : list[j].id # id
Without(list, id) ==
    LET Kept[n \in 0 .. Len(list)] ==
            IF n = 0 THEN <<>>
            ELSE IF list[n].id = id THEN Kept[n - 1] ELSE Append(Kept[n - 1], list[n])
    IN  Kept[Len(list)]
Put(list, e) == [list EXCEPT ![First(list, e.id)] = e]

\* Defect: an unknown default root is stored as it is.
NormalizeDefaultRootID_Trusting(default, roots) ==
    IF default = NoRoot /\ roots # <<>> THEN roots[1].id ELSE default

\* normalizeDefaultRootID: the value stored, or Absent for ErrNotFound.
NormalizeDefaultRootID(default, roots) ==
    IF default = NoRoot THEN IF roots = <<>> THEN NoRoot ELSE roots[1].id
    ELSE IF default \in Ids(roots) THEN default ELSE Absent

(***************************************************************************)
(* The memory of the calls.                                                *)
(***************************************************************************)
Holds(call, s) == call # Idle /\ call.phase \in {"read", "edited", "removing"} /\ call.slot = s
InUse(p, cs, s) == (p # Absent /\ p.body = s) \/ \E c \in Callers : Holds(cs[c], s)
FreeSlot == CHOOSE s \in Slots : ~InUse(project, calls, s)

\* Lists that nobody refers to are gone.
Collect(bs, p, cs) == [s \in Slots |-> IF InUse(p, cs, s) THEN bs[s] ELSE NoBody]

\* History: from now on the other calls in flight work on something that changed.
Overtake(cs, c) == [d \in Callers |->
    IF d = c \/ cs[d] = Idle THEN cs[d] ELSE [cs[d] EXCEPT !.overtaken = TRUE]]

Stored == bodies[project.body]

Return(c) ==
    /\ calls' = [calls EXCEPT ![c] = Idle]
    /\ bodies' = Collect(bodies, project, calls')
    /\ UNCHANGED <<sharing, project, skills, files, started>>

Init ==
    /\ sharing \in BOOLEAN
    /\ project = Absent
    /\ bodies = [s \in Slots |-> NoBody]
    /\ skills = [k \in Skills |-> Absent]
    /\ files \in FileSets
    /\ calls = [c \in Callers |-> Idle]
    /\ started = 0
(***************************************************************************)
(* The store's operations on the project.                                  *)
(***************************************************************************)
\* Service.CreateProject with the host's roots and default root; no sources.
CreateProject(host) ==
    LET default == NormalizeDefaultRootID(host.default, host.roots)
    IN  /\ project = Absent
        /\ default # Absent
        /\ project' = [body |-> FreeSlot, default |-> default]
        /\ bodies' = [bodies EXCEPT ![FreeSlot] = [NoBody EXCEPT !.roots = host.roots]]
        /\ calls' = Overtake(calls, Absent)
        /\ UNCHANGED <<sharing, skills, files, started>>

\* The project and everything that belongs to it.
DeleteProject ==
    /\ project # Absent
    /\ project' = Absent
    /\ skills' = [k \in Skills |-> Absent]
    /\ calls' = Overtake(calls, Absent)
    /\ bodies' = Collect(bodies, Absent, calls)
    /\ UNCHANGED <<sharing, files, started>>

\* Defect: the stored lists are handed out by either store.
GetProject_Aliasing(c, edit) ==
    /\ calls[c] = Idle
    /\ project # Absent
    /\ started < MaxCalls
    /\ started' = started + 1
    /\ calls' = [calls EXCEPT ![c] =
           [phase |-> "read", edit |-> edit, slot |-> project.body,
            default |-> project.default, overtaken |-> FALSE]]
    /\ UNCHANGED <<sharing, project, bodies, skills, files>>

\* GetProject: with sharing, the lists read are the stored ones.
GetProject(c, edit) ==
    LET slot == IF sharing THEN project.body ELSE FreeSlot
    IN  /\ calls[c] = Idle
        /\ project # Absent
        /\ started < MaxCalls
        /\ started' = started + 1
        /\ bodies' = [bodies EXCEPT ![slot] = Stored]
        /\ calls' = [calls EXCEPT ![c] =
               [phase |-> "read", edit |-> edit, slot |-> slot,
                default |-> project.default, overtaken |-> FALSE]]
        /\ UNCHANGED <<sharing, project, skills, files>>

\* Defect: a record without roots keeps those that are stored.
UpdateProject_Merging(c) ==
    LET call == calls[c]
        body == [roots |-> IF call.roots = <<>> /\ project # Absent THEN Stored.roots ELSE call.roots,
                 sources |-> call.sources, shifted |-> {}]
    IN  /\ project # Absent
        /\ project' = [body |-> FreeSlot, default |-> call.default]
        /\ calls' = Overtake([calls EXCEPT ![c] = Idle], c)
        /\ bodies' = Collect([bodies EXCEPT ![FreeSlot] = body], project', calls')
        /\ UNCHANGED <<sharing, skills, files, started>>

\* UpdateProject of either store: the whole record, if the project is there.
UpdateProject(c) ==
    LET body == [roots |-> calls[c].roots, sources |-> calls[c].sources, shifted |-> {}]
    IN  /\ project # Absent
        /\ project' = [body |-> FreeSlot, default |-> calls[c].default]
        /\ calls' = Overtake([calls EXCEPT ![c] = Idle], c)
        /\ bodies' = Collect([bodies EXCEPT ![FreeSlot] = body], project', calls')
        /\ UNCHANGED <<sharing, skills, files, started>>

\* The last step of every helper; a project that is gone is ErrNotFound.
Write(c) ==
    /\ calls[c] # Idle
    /\ calls[c].phase = "ready"
    /\ IF project = Absent THEN Return(c) ELSE UpdateProject(c)

\* Service.UpdateProject up to its write: the lists are copied and normalised.
Normalized(c, roots, sources, default) ==
    LET stored == NormalizeDefaultRootID(default, roots)
    IN  IF stored = Absent THEN Return(c)
        ELSE /\ calls' = [calls EXCEPT ![c] =
                    [phase |-> "ready", edit |-> calls[c].edit, roots |-> roots,
                     sources |-> sources, default |-> stored, overtaken |-> calls[c].overtaken]]
             /\ bodies' = Collect(bodies, project, calls')
             /\ UNCHANGED <<sharing, project, skills, files, started>>

(***************************************************************************)
(* The helpers' edits of what they read.                                   *)
(***************************************************************************)
Editing(c, op) == calls[c] # Idle /\ calls[c].phase = "read" /\ calls[c].edit.op = op
Read(c) == bodies[calls[c].slot]
Target(c) == calls[c].edit.id

\* normalizeProjectRoot and normalizeContextSource: the entry asked for.
NormalizedRoot(c) == [id |-> Target(c), content |-> calls[c].edit.content]
NormalizedSource(c) == [id |-> Target(c), content |-> calls[c].edit.content]

\* Defect: the id is not looked up.
CreateRoot_Unchecked(c) ==
    /\ Editing(c, "CreateRoot")
    /\ Normalized(c, Append(Read(c).roots, NormalizedRoot(c)), Read(c).sources, calls[c].default)

CreateRoot(c) ==
    /\ Editing(c, "CreateRoot")
    /\ IF Target(c) \in Ids(Read(c).roots) THEN Return(c)
       ELSE Normalized(c, Append(Read(c).roots, NormalizedRoot(c)), Read(c).sources, calls[c].default)

\* The assistant's form of the same edit.
AttachProjectRoot(c) ==
    /\ Editing(c, "AttachProjectRoot")
    /\ IF Target(c) \in Ids(Read(c).roots) THEN Return(c)
       ELSE Normalized(c, Append(Read(c).roots, NormalizedRoot(c)), Read(c).sources, calls[c].default)

CreateContextSource(c) ==
    /\ Editing(c, "CreateContextSource")
    /\ IF Target(c) \in Ids(Read(c).sources) THEN Return(c)
       ELSE Normalized(c, Read(c).roots, Append(Read(c).sources, NormalizedSource(c)), calls[c].default)

DeleteRoot(c) ==
    LET id == Target(c)
    IN  /\ Editing(c, "DeleteRoot")
        /\ IF id \notin Ids(Read(c).roots) THEN Return(c)
           ELSE Normalized(c, Without(Read(c).roots, id), Read(c).sources,
                           IF calls[c].default = id THEN NoRoot ELSE calls[c].default)

DeleteContextSource(c) ==
    /\ Editing(c, "DeleteContextSource")
    /\ IF Target(c) \notin Ids(Read(c).sources) THEN Return(c)
       ELSE Normalized(c, Read(c).roots, Without(Read(c).sources, Target(c)), calls[c].default)

\* applySetProjectDefaults: the default root as given.
SetProjectDefaults(c) ==
    /\ Editing(c, "SetProjectDefaults")
    /\ Normalized(c, Read(c).roots, Read(c).sources, Target(c))

\* The tool projects.update: roots if they are given, with a default root that
\* is not among them cleared; a rename writes the lists back as they were read.
PatchProject(c) ==
    LET given == calls[c].edit.content
        default == calls[c].default
    IN  \/ /\ Editing(c, "RenameProject")
           /\ Normalized(c, Read(c).roots, Read(c).sources, default)
        \/ /\ Editing(c, "PatchRoots")
           /\ Normalized(c, given, Read(c).sources, IF default \in Ids(given) THEN default ELSE NoRoot)

(***************************************************************************)
(* Edits in place: the entry is assigned in the slice that was read.       *)
(***************************************************************************)
AssignEntry(c, list, entry) ==
    IF Target(c) \notin Ids(Read(c)[list]) THEN Return(c)
    ELSE /\ bodies' = [bodies EXCEPT ![calls[c].slot][list] = Put(@, entry)]
         /\ calls' = [IF sharing THEN Overtake(calls, c) ELSE calls
                      EXCEPT ![c].phase = "edited"]
         /\ UNCHANGED <<sharing, project, skills, files, started>>

UpdateRoot(c) == Editing(c, "UpdateRoot") /\ AssignEntry(c, "roots", NormalizedRoot(c))
UpdateContextSource(c) == Editing(c, "UpdateContextSource") /\ AssignEntry(c, "sources", NormalizedSource(c))

\* ... and what was assigned is then normalised for the write.
FinishUpdate(c) ==
    /\ calls[c] # Idle
    /\ calls[c].phase = "edited"
    /\ Normalized(c, Read(c).roots, Read(c).sources, calls[c].default)

\* applyRemoveProjectRoot filters into project.Roots[:0]: "next" is the entry
\* looked at, "kept" how many were moved to the front.
RemoveProjectRoot(c) ==
    /\ Editing(c, "RemoveProjectRoot")
    /\ calls' = [calls EXCEPT ![c] =
           [phase |-> "removing", edit |-> @.edit, slot |-> @.slot, default |-> @.default,
            next |-> 1, kept |-> 0, overtaken |-> @.overtaken]]
    /\ UNCHANGED <<sharing, project, bodies, skills, files, started>>

Removing(c) == calls[c] # Idle /\ calls[c].phase = "removing"

RemoveStep(c) ==
    LET call == calls[c]
        roots == Read(c).roots
        keep == roots[call.next].id # call.edit.id
        moves == keep /\ roots[call.kept + 1] # roots[call.next]
    IN  /\ Removing(c)
        /\ call.next <= Len(roots)
        /\ bodies' = IF moves
                     THEN [bodies EXCEPT ![call.slot].roots[call.kept + 1] = roots[call.next],
                                         ![call.slot].shifted = @ \cup {c}]
                     ELSE bodies
        /\ calls' = [IF moves /\ sharing THEN Overtake(calls, c) ELSE calls
                     EXCEPT ![c].next = @ + 1,
                            ![c].kept = IF keep THEN @ + 1 ELSE @]
        /\ UNCHANGED <<sharing, project, skills, files, started>>

FinishRemoval(c) ==
    LET call == calls[c]
        roots == SubSeq(Read(c).roots, 1, call.kept)
        default == IF call.default = call.edit.id THEN NoRoot ELSE call.default
    IN  /\ Removing(c)
        /\ call.next > Len(Read(c).roots)
        /\ IF call.kept = Len(Read(c).roots) THEN Return(c)
           ELSE Normalized(c, roots, Read(c).sources, default)

\* Service.UpdateProject called by a host with a record of its own.
ReplaceProject(host) ==
    LET default == NormalizeDefaultRootID(host.default, host.roots)
    IN  /\ project # Absent
        /\ default # Absent
        /\ project' = [body |-> FreeSlot, default |-> default]
        /\ calls' = Overtake(calls, Absent)
        /\ bodies' = Collect([bodies EXCEPT ![FreeSlot] = [NoBody EXCEPT !.roots = host.roots]], project', calls)
        /\ UNCHANGED <<sharing, skills, files, started>>

(***************************************************************************)
(* Skills.                                                                 *)
(***************************************************************************)
\* History: a discovery in flight listed the skills before this write.
OvertakeDiscoveries(cs, c) == [d \in Callers |->
    IF d # c /\ cs[d] # Idle /\ cs[d].phase = "discovering"
    THEN [cs[d] EXCEPT !.overtaken = TRUE] ELSE cs[d]]

\* normalizeProjectSkill: a status left out is "available".
NormalizeProjectSkill(input) ==
    [input EXCEPT !.status = IF @ = Unset THEN "available" ELSE @]

CreateProjectSkill(k, input) ==
    /\ project # Absent
    /\ skills[k] = Absent
    /\ skills' = [skills EXCEPT ![k] = NormalizeProjectSkill(input)]
    /\ calls' = OvertakeDiscoveries(calls, Absent)
    /\ UNCHANGED <<sharing, project, bodies, files, started>>

\* The whole record but its creation time, whatever was stored.
UpdateProjectSkill(k, input) ==
    /\ project # Absent
    /\ skills[k] # Absent
    /\ skills' = [skills EXCEPT ![k] = NormalizeProjectSkill(input)]
    /\ calls' = OvertakeDiscoveries(calls, Absent)
    /\ UNCHANGED <<sharing, project, bodies, files, started>>

\* The places where a skill is declared: the directories every root has, and
\* those an enabled guidance source names.
GuidedBy(sources) == \E i \in DOMAIN sources : sources[i].content = Guide
Places(body, k) ==
    {p \in (DOMAIN body.roots) \X Bases :
        /\ body.roots[p[1]].content # Inactive
        /\ <<body.roots[p[1]].content, p[2], k>> \in files
        /\ p[2] = "guided" => GuidedBy(body.sources)}

\* The first declaration makes a skill available, a second one a conflict.
DeclaredStatus(body, k) ==
    CASE Places(body, k) = {} -> "missing"
      [] Cardinality(Places(body, k)) = 1 -> "available"
      [] OTHER -> "conflict"

\* The list of registered skills, then the directories of the roots that were read.
ScanSkills(c) ==
    /\ Editing(c, "DiscoverProjectSkills")
    /\ IF project = Absent THEN Return(c)
       ELSE LET declared == [k \in Skills |-> DeclaredStatus(Read(c), k)]
            IN  /\ calls' = [calls EXCEPT ![c] =
                       [phase |-> "discovering", edit |-> calls[c].edit, prior |-> skills, declared |-> declared,
                        todo |-> {k \in Skills : IF declared[k] = "missing"
                                                 THEN skills[k] # Absent /\ skills[k].status # "missing"
                                                 ELSE TRUE},
                        overtaken |-> calls[c].overtaken]]
                /\ bodies' = Collect(bodies, project, calls')
                /\ UNCHANGED <<sharing, project, skills, files, started>>

\* Defect: a rediscovered skill gets the fields of its file.
Reconciled_FromFile(call, k) == [description |-> FileDescription, status |-> call.declared[k]]

\* The record discovery writes.  What the operator had is kept as it was listed,
\* but a found skill without a description takes the one of its file.  (The
\* other fields an operator edits are never blank, so firstNonEmpty keeps them.)
Reconciled(call, k) ==
    LET prior == call.prior[k]
        fromFile == prior = Absent \/ (call.declared[k] # "missing" /\ prior.description = Blank)
    IN  [description |-> IF fromFile THEN FileDescription ELSE prior.description,
         status |-> call.declared[k]]

\* One write per skill, the declared ones before the missing ones, in any
\* order; a refused write (created or deleted in between) ends the call.
DiscoverStep(c, k) ==
    LET call == calls[c]
        found == {j \in call.todo : call.declared[j] # "missing"}
        refused == project = Absent \/ (call.prior[k] = Absent) # (skills[k] = Absent)
    IN  /\ calls[c] # Idle
        /\ call.phase = "discovering"
        /\ k \in IF found # {} THEN found ELSE call.todo
        /\ skills' = IF refused THEN skills ELSE [skills EXCEPT ![k] = Reconciled(call, k)]
        /\ calls' = IF refused THEN [calls EXCEPT ![c] = Idle]
                    ELSE [OvertakeDiscoveries(calls, c) EXCEPT ![c].todo = @ \ {k}]
        /\ UNCHANGED <<sharing, project, bodies, files, started>>

FinishDiscovery(c) ==
    /\ calls[c] # Idle
    /\ calls[c].phase = "discovering"
    /\ calls[c].todo = {}
    /\ Return(c)

(***************************************************************************)
(* The specification.                                                      *)
(***************************************************************************)
HelperStep(c) ==
    \/ CreateRoot(c) \/ AttachProjectRoot(c) \/ DeleteRoot(c) \/ UpdateRoot(c)
    \/ CreateContextSource(c) \/ DeleteContextSource(c) \/ UpdateContextSource(c)
    \/ SetProjectDefaults(c) \/ PatchProject(c)
    \/ FinishUpdate(c)
    \/ RemoveProjectRoot(c) \/ RemoveStep(c) \/ FinishRemoval(c)
    \/ Write(c)
    \/ ScanSkills(c) \/ FinishDiscovery(c)

Next ==
    \/ \E host \in HostProjects : CreateProject(host) \/ ReplaceProject(host)
    \/ DeleteProject
    \/ \E c \in Callers, edit \in Edits : GetProject(c, edit)
    \/ \E c \in Callers : HelperStep(c)
    \/ \E c \in Callers, k \in Skills : DiscoverStep(c, k)
    \/ \E k \in Skills, input \in SkillInputs : CreateProjectSkill(k, input) \/ UpdateProjectSkill(k, input)

Spec == Init /\ [][Next]_vars

(***************************************************************************)
(* Properties.                                                             *)
(***************************************************************************)
\* With a copying store nobody else holds the lists a call works on.
OwnLists ==
    \A c \in Callers, d \in Callers : \A s \in Slots :
        ~sharing /\ Holds(calls[c], s) => /\ project # Absent => project.body # s
                                          /\ Holds(calls[d], s) => c = d

\* Every variable has its type; with a copying store the lists that a call
\* holds are its own.
TypeOK ==
    /\ sharing \in BOOLEAN
    /\ project \in Project \cup {Absent}
    /\ bodies \in [Slots -> Body]
    /\ skills \in [Skills -> Skill \cup {Absent}]
    /\ calls \in [Callers -> Call \cup {Idle}]
    /\ files \in FileSets
    /\ started \in 0 .. MaxCalls
    /\ OwnLists

\* The default root is one of the roots, and there is one as soon as there are
\* roots.  A reader can see it otherwise only in a shared list whose entries a
\* removal of the assistant has moved: until that removal has written what it
\* kept, or, if two removals moved entries of the one list, until the next write.
DefaultRootIsRoot ==
    project # Absent =>
        \/ project.default \in Ids(Stored.roots)
        \/ project.default = NoRoot /\ Stored.roots = <<>>
        \/ /\ sharing
           /\ \E c \in Stored.shifted :
                  \/ calls[c] # Idle /\ calls[c].edit.op = "RemoveProjectRoot"
                  \/ \E d \in Stored.shifted : d # c

\* No sequence of helper calls gives a project two roots of one id, in a store
\* that copies what it hands out.  (With shared lists a root created during a
\* removal can be stored beside its double.)
RootIdsUnique ==
    project # Absent /\ ~sharing => UniqueIds(Stored.roots) /\ UniqueIds(Stored.sources)

Entries(list, id) == {list[i] : i \in {j \in DOMAIN list : list[j].id # id}}
WritesFrom(c) == calls[c] # Idle /\ calls[c].phase = "ready" /\ calls'[c] = Idle /\ project # Absent

\* A helper that is not overtaken changes the root or source it is about and
\* nothing else: what it loses of another's work, it loses to an overlap.
EditsExactly(c) ==
    LET edit == calls[c].edit
        after == bodies'[project'.body]
    IN  /\ \A list \in Lists : IF list = "roots" /\ edit.op = "PatchRoots" THEN after.roots = edit.content
                               ELSE Entries(after[list], edit.id) = Entries(Stored[list], edit.id)
        /\ edit.op \in {"CreateRoot", "AttachProjectRoot", "UpdateRoot"} =>
               [id |-> edit.id, content |-> edit.content] \in Entries(after.roots, NoRoot)
        /\ edit.op \in {"CreateContextSource", "UpdateContextSource"} =>
               [id |-> edit.id, content |-> edit.content] \in Entries(after.sources, NoRoot)
        /\ edit.op \in {"DeleteRoot", "RemoveProjectRoot"} => edit.id \notin Ids(after.roots)
        /\ edit.op = "DeleteContextSource" => edit.id \notin Ids(after.sources)
        /\ edit.op # "SetProjectDefaults" /\ project.default \in Ids(after.roots) =>
               project'.default = project.default
LostOnlyToOverlap ==
    [][\A c \in Callers : WritesFrom(c) /\ ~calls[c].overtaken => EditsExactly(c)]_vars

\* A discovery that nobody overtakes leaves every skill with the status its
\* declarations under the stored roots give it, registers what it found, keeps
\* the descriptions there were, and gives a skill it found without one that of
\* its file.  (README.md:120-123 says that operator edits are preserved; that an
\* operator emptied the description is not.)
DiscoveryReconciles ==
    [][\A c \in Callers, k \in Skills :
          LET call == calls[c]
              declared == DeclaredStatus(Stored, k)
          IN  (FinishDiscovery(c) /\ ~call.overtaken) =>
                 IF skills[k] = Absent THEN declared = "missing"
                 ELSE /\ skills[k].status = declared
                      /\ call.prior[k] # Absent =>
                             skills[k].description =
                                 IF call.prior[k].description = Blank /\ declared # "missing"
                                 THEN FileDescription ELSE call.prior[k].description]_vars
=============================================================================
