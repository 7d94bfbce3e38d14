----------------------------- MODULE Catalogue -----------------------------
(***************************************************************************)
(* The catalogue of the school: faculties, courses, modules, classes,      *)
(* teachers, rooms and subjects, the requests of administrators that       *)
(* create, change and delete them (internal/controllers/{faculty, course,  *)
(* module, class, staff, room, subject}.go), and the generation that reads *)
(* them one table after the other while they change                        *)
(* (internal/services/timetable.go).  No request holds a transaction: a    *)
(* PUT loads a row, and saves the whole row in a later statement.          *)
(*                                                                         *)
(* Of a row only what other rows and the curriculum depend on is kept.     *)
(* The times of the sessions are the subject of TimetableBooking and the   *)
(* accounts of the teachers that of StaffDirectory.                        *)
(***************************************************************************)
EXTENDS Naturals, Sequences, FiniteSets

CONSTANTS
    Editors,    \* the PUTs and allocations that can be in flight together
    Generators, \* the generations that can be in flight together
    Schools,    \* what the database can hold at the start
    Omitted,    \* a field that the body of a PUT leaves out
    MaxEdits    \* bound: administrators' requests

Tables == {"faculties", "courses", "modules", "classes", "staff", "rooms", "subjects"}

(* The table that the foreign key of a table refers to. *)
ParentTable == [courses |-> "faculties", staff |-> "faculties",
                modules |-> "courses", classes |-> "courses"]

NoRow == 0  \* a foreign key that is NULL, or that the table does not have

(* parent is the foreign key; general: the type of a module is general_subject. *)
Row == [live: BOOLEAN, parent: Nat, general: BOOLEAN]

School == [db: [Tables -> Seq(Row)], links: SUBSET (Nat \X Nat)]

(* The foreign keys are of rows that exist, and only a module may have none. *)
Sound(school) ==
    /\ \A t \in Tables : \A i \in DOMAIN school.db[t] :
          \/ t \in DOMAIN ParentTable /\ school.db[t][i].parent \in DOMAIN school.db[ParentTable[t]]
          \/ t \notin DOMAIN ParentTable \ {"modules"} /\ school.db[t][i].parent = NoRow
    /\ school.links \subseteq (DOMAIN school.db.staff) \X (DOMAIN school.db.modules)

ASSUME CatalogueAssumption ==
    /\ Schools \subseteq {s \in School : Sound(s)}
    /\ Omitted \notin Nat \cup BOOLEAN
    /\ MaxEdits \in Nat

VARIABLES
    db,        \* the rows of each table, deleted ones included, by id
    links,     \* staff_modules: the pairs of a teacher and a module
    epc,       \* per editor, "idle", "save" or "assign": what it executes next
    edit,      \* per editor, the row it has loaded, the body and what it will store
    gpc,       \* per generator, what it does next
    reading,   \* per generator, the class and the curriculum it has read
    plan,      \* per generator, the sessions it has placed
    timetable, \* the stored timetables, by class
    edits,     \* administrators' requests so far, for MaxEdits
    asked,     \* history: per row, what requests that were answered asked of it
    excused,   \* history: the rows whose last PUT could not do what it asked
    behind,    \* history: per editor, the rows written since it loaded its own
    touched,   \* history: per generator, the rows written since it began
    unseen     \* history: per timetable, the rows written since its generation began

editVars == <<db, links, epc, edit, edits, asked, excused, behind>>
planVars == <<gpc, reading, plan, timetable>>
vars == <<editVars, planVars, touched, unseen>>

Ids(t) == DOMAIN db[t]
Live(t) == {i \in Ids(t) : db[t][i].live}

(* The keys a request can store: the constraint knows deleted rows as well. *)
Keys(t) == IF t \in DOMAIN ParentTable THEN Ids(ParentTable[t]) ELSE {NoRow}

(* modules.course_id is the one foreign key that may be NULL. *)
KeysAndNull(t) == Keys(t) \cup (IF t = "modules" THEN {NoRow} ELSE {})

Blank == [live |-> FALSE, parent |-> NoRow, general |-> FALSE]
NoBody == [parent |-> Omitted, general |-> Omitted]
NoEdit == [table |-> "rooms", id |-> NoRow, module |-> NoRow, held |-> FALSE,
           body |-> NoBody, old |-> Blank, new |-> Blank]
NoReading == [class |-> NoRow, course |-> NoRow, own |-> {}, general |-> {},
              subjects |-> {}, whole |-> TRUE]

Kinds == {"own", "general", "subject"}
Entry == [kind: Kinds, id: Nat, staff: Nat, room: Nat]
TableOf(kind) == IF kind = "subject" THEN "subjects" ELSE "modules"
Stands(x) ==
    /\ x.id \in Ids(TableOf(x.kind)) /\ x.staff \in Ids("staff") /\ x.room \in Ids("rooms")

TypeOK ==
    /\ db \in [Tables -> Seq(Row)]
    /\ \A t \in Tables : \A i \in Ids(t) : db[t][i].parent \in KeysAndNull(t)
    /\ links \subseteq Ids("staff") \X Ids("modules")
    /\ epc \in [Editors -> {"idle", "save", "assign"}]
    /\ \A e \in Editors : epc[e] = "save" =>
          /\ edit[e].table \in Tables /\ edit[e].id \in Ids(edit[e].table)
          /\ {edit[e].old, edit[e].new} \subseteq Row
          /\ {edit[e].old.parent, edit[e].new.parent} \subseteq KeysAndNull(edit[e].table)
    /\ gpc \in [Generators -> {"idle", "modules", "general", "subjects", "place"}]
    /\ \A g \in Generators : gpc[g] # "idle" =>
          /\ reading[g].class \in Ids("classes") /\ reading[g].course \in Ids("courses")
          /\ \A x \in plan[g] : x \in Entry /\ Stands(x)
    /\ DOMAIN timetable \subseteq Ids("classes")
    /\ \A c \in DOMAIN timetable : \A x \in timetable[c].entries : x \in Entry /\ Stands(x)
    /\ edits \in Nat

-----------------------------------------------------------------------------
(* Writing rows *)

Request == edits < MaxEdits /\ edits' = edits + 1

(* Row i of table t has been written: the requests still in flight do not know. *)
Wrote(t, i) ==
    /\ behind' = [e \in Editors |-> IF epc'[e] = "save" THEN behind[e] \cup {<<t, i>>} ELSE {}]
    /\ touched' = [g \in Generators |-> IF gpc[g] = "idle" THEN {} ELSE touched[g] \cup {<<t, i>>}]
    /\ unseen' = [c \in DOMAIN unseen |-> unseen[c] \cup {<<t, i>>}]

(* POST: one INSERT, which the constraint on the foreign key has to admit. *)
Create(t, parent, general) ==
    LET row == [live |-> TRUE, parent |-> parent, general |-> general]
    IN  /\ Request
        /\ UNCHANGED <<links, epc, edit, excused, planVars>>
        /\ db' = [db EXCEPT ![t] = Append(@, row)]
        /\ asked' = [asked EXCEPT ![t] = Append(@, row)]
        /\ Wrote(t, Len(db[t]) + 1)

CreateFaculty == Create("faculties", NoRow, FALSE)
CreateCourse == \E f \in Keys("courses") : Create("courses", f, FALSE)
CreateClass == \E c \in Keys("classes") : Create("classes", c, FALSE)
CreateStaff == \E f \in Keys("staff") : Create("staff", f, FALSE)
CreateRoom == Create("rooms", NoRow, FALSE)
CreateSubject == Create("subjects", NoRow, FALSE)

(* A general subject has no course; the other types need one. *)
CreateModule ==
    \/ Create("modules", NoRow, TRUE)
    \/ \E c \in Keys("modules") : Create("modules", c, FALSE)

(* DELETE: one soft delete; the rows that refer to this one stay as they are. *)
Delete(t) ==
    /\ Request
    /\ UNCHANGED <<links, epc, edit, excused, planVars>>
    /\ \E i \in Live(t) :
          /\ db' = [db EXCEPT ![t][i].live = FALSE]
          /\ asked' = [asked EXCEPT ![t][i].live = FALSE]
          /\ Wrote(t, i)

DeleteFaculty == Delete("faculties")
DeleteCourse == Delete("courses")
DeleteModule == Delete("modules")
DeleteClass == Delete("classes")
DeleteStaff == Delete("staff")
DeleteRoom == Delete("rooms")
DeleteSubject == Delete("subjects")

(* Whether GetByID loads the row that row refers to: Preload skips deleted ones. *)
Preloads(t, row) == t \in DOMAIN ParentTable /\ row.parent \in Live(ParentTable[t])

(* Mutant of Merge: a field that is not given is stored as NULL. *)
Merge_TakesNull(row, body) ==
    [live |-> TRUE,
     parent |-> IF body.parent = Omitted THEN NoRow ELSE body.parent,
     general |-> IF body.general = Omitted THEN row.general ELSE body.general]

(* What the body makes of the loaded row; the type general_subject has no course. *)
Merge(row, body) ==
    [live |-> TRUE,
     parent |-> IF body.general = TRUE THEN NoRow
                ELSE IF body.parent = Omitted THEN row.parent ELSE body.parent,
     general |-> IF body.general = Omitted THEN row.general ELSE body.general]

(* PUT: GetByID of a row of t and the merge of the body. *)
Load(e, t, body) ==
    /\ epc[e] = "idle"
    /\ Request
    /\ \E i \in Live(t) :
          edit' = [edit EXCEPT ![e] = [table |-> t, id |-> i, module |-> NoRow, body |-> body,
              held |-> Preloads(t, db[t][i]), old |-> db[t][i], new |-> Merge(db[t][i], body)]]
    /\ epc' = [epc EXCEPT ![e] = "save"]
    /\ UNCHANGED <<db, links, asked, excused, behind, planVars, touched, unseen>>

(* The keys a body can give, of rows that exist, deleted or not, or leave out. *)
GivenKeys(t) == Keys(t) \cup {Omitted}

UpdateFaculty(e) == Load(e, "faculties", NoBody)
UpdateRoom(e) == Load(e, "rooms", NoBody)
UpdateSubject(e) == Load(e, "subjects", NoBody)
UpdateCourse(e) == \E f \in GivenKeys("courses") : Load(e, "courses", [NoBody EXCEPT !.parent = f])

(* Mutant of UpdateClass: an omitted course_id is stored as NULL. *)
UpdateClass_Clears(e) == \E c \in GivenKeys("classes") :
    Load(e, "classes", [NoBody EXCEPT !.parent = IF c = Omitted THEN NoRow ELSE c])

UpdateClass(e) == \E c \in GivenKeys("classes") : Load(e, "classes", [NoBody EXCEPT !.parent = c])
UpdateStaff(e) == \E f \in GivenKeys("staff") : Load(e, "staff", [NoBody EXCEPT !.parent = f])

(* clear_course is course NoRow; it goes before a course_id in the same body. *)
UpdateModule(e) ==
    \E c \in GivenKeys("modules") \cup {NoRow}, general \in {TRUE, FALSE, Omitted} :
        Load(e, "modules", [parent |-> c, general |-> general])

(***************************************************************************)
(* gorm's Save writes the whole row, also when the row was deleted since   *)
(* it was loaded: then it is inserted again.  The key of a preloaded       *)
(* association is written over the one the body has given.                 *)
(***************************************************************************)
Saved(e) ==
    [edit[e].new EXCEPT !.parent = IF edit[e].held THEN edit[e].old.parent ELSE @]

(* What the row should be once the PUT of e is answered, given the row as asked before. *)
Asked(e, row, raced) ==
    LET body == edit[e].body
    IN  [live    |-> row.live \/ ~raced,
         parent  |-> IF body.general = TRUE THEN NoRow
                     ELSE IF body.parent = Omitted THEN row.parent ELSE body.parent,
         general |-> IF body.general = Omitted THEN row.general ELSE body.general]

EndEdit(e) ==
    /\ epc' = [epc EXCEPT ![e] = "idle"]
    /\ edit' = [edit EXCEPT ![e] = NoEdit]

Save(e) ==
    LET t == edit[e].table  i == edit[e].id
        raced == <<t, i>> \in behind[e]
        ignored == edit[e].held /\ edit[e].new.parent # edit[e].old.parent
        goal == Asked(e, asked[t][i], raced)
    IN  /\ epc[e] = "save"
        /\ EndEdit(e)
        /\ db' = [db EXCEPT ![t][i] = Saved(e)]
        /\ asked' = [asked EXCEPT ![t][i] = goal]
        /\ excused' = IF raced \/ ignored THEN excused \cup {<<t, i>>}
                      ELSE IF Saved(e) = goal THEN excused \ {<<t, i>>} ELSE excused
        /\ Wrote(t, i)
        /\ UNCHANGED <<links, edits, planVars>>

(* POST /staff/:id/modules/:module_id, up to the check that both are live. *)
AssignModule(e) ==
    /\ epc[e] = "idle"
    /\ Request
    /\ \E s \in Live("staff"), m \in Live("modules") :
          edit' = [edit EXCEPT ![e] = [NoEdit EXCEPT !.table = "staff", !.id = s, !.module = m]]
    /\ epc' = [epc EXCEPT ![e] = "assign"]
    /\ UNCHANGED <<db, links, asked, excused, behind, planVars, touched, unseen>>

(* staffRepo.AssignModule: a pair that is there already is left alone. *)
Assign(e) ==
    /\ epc[e] = "assign"
    /\ EndEdit(e)
    /\ links' = links \cup {<<edit[e].id, edit[e].module>>}
    /\ Wrote("staff", edit[e].id)
    /\ UNCHANGED <<db, edits, asked, excused, planVars>>

(* DELETE /staff/:id/modules/:module_id: nothing is checked. *)
UnassignModule ==
    /\ Request
    /\ UNCHANGED <<db, epc, edit, asked, excused, planVars>>
    /\ \E pair \in links :
          /\ links' = links \ {pair}
          /\ Wrote("staff", pair[1])

(* The statement fails, or the process ends before it: nothing is written. *)
EditFails(e) ==
    /\ epc[e] # "idle"
    /\ EndEdit(e)
    /\ behind' = [behind EXCEPT ![e] = {}]
    /\ UNCHANGED <<db, links, edits, asked, excused, planVars, touched, unseen>>

-----------------------------------------------------------------------------
(* Generation by the greedy engine *)

GoOn(g, next, read) ==
    /\ gpc' = [gpc EXCEPT ![g] = next]
    /\ reading' = [reading EXCEPT ![g] = read]
    /\ UNCHANGED <<editVars, plan, timetable, unseen>>

(* generateGreedy: the class, whose course may have been deleted. *)
ReadClass(g) ==
    /\ gpc[g] = "idle"
    /\ \E c \in Live("classes") :
          GoOn(g, "modules", [NoReading EXCEPT !.class = c, !.course = db.classes[c].parent])
    /\ touched' = [touched EXCEPT ![g] = {}]

ReadCourseModules(g) ==
    /\ gpc[g] = "modules"
    /\ GoOn(g, "general", [reading[g] EXCEPT
             !.own = {m \in Live("modules") : db.modules[m].parent = reading[g].course}])
    /\ UNCHANGED touched

(* Mutant of GeneralModules: the type is asked for and not the missing course. *)
GeneralModules_ByType == {m \in Live("modules") : db.modules[m].general}

(* GetGeneralModules looks at the course and not at the type. *)
GeneralModules == {m \in Live("modules") : db.modules[m].parent = NoRow}

(* The modules without a course.  When the read fails, there are none. *)
ReadGeneralModules(g) ==
    /\ gpc[g] = "general"
    /\ \E read \in {GeneralModules, {}} :
          GoOn(g, IF read = {} THEN "subjects" ELSE "place",
               [reading[g] EXCEPT !.general = read, !.whole = (read = GeneralModules)])
    /\ UNCHANGED touched

(* The table subjects counts only when there are no general modules. *)
ReadSubjects(g) ==
    /\ gpc[g] = "subjects"
    /\ GoOn(g, "place", [reading[g] EXCEPT !.subjects = Live("subjects")])
    /\ UNCHANGED touched

(* The sessions of the class, one of each module and subject. *)
Curriculum(read) ==
    {<<"own", m>> : m \in read.own} \cup {<<"general", m>> : m \in read.general}
       \cup {<<"subject", s>> : s \in read.subjects}

Left(g) == Curriculum(reading[g]) \ {<<x.kind, x.id>> : x \in plan[g]}

(* Mutant of Teachers: deleted teachers that are still allocated are taken. *)
Teachers_Deleted(kind, id) == {s \in Ids("staff") : kind # "subject" => <<s, id>> \in links}

(* The teachers who can take a session; a module needs one allocated to it. *)
Teachers(kind, id) ==
    IF kind = "subject" THEN Live("staff")
    ELSE {s \in Live("staff") : id \in Live("modules") /\ <<s, id>> \in links}

(* The next session gets a teacher and a room, both read anew. *)
ScheduleSession(g) ==
    /\ gpc[g] = "place"
    /\ Left(g) # {}
    /\ LET next == CHOOSE x \in Left(g) : TRUE
       IN  \E s \in Teachers(next[1], next[2]), room \in Live("rooms") :
              plan' = [plan EXCEPT ![g] = @ \cup
                  {[kind |-> next[1], id |-> next[2], staff |-> s, room |-> room]}]
    /\ UNCHANGED <<editVars, gpc, reading, timetable, touched, unseen>>

EndGeneration(g) ==
    /\ gpc' = [gpc EXCEPT ![g] = "idle"]
    /\ reading' = [reading EXCEPT ![g] = NoReading]
    /\ plan' = [plan EXCEPT ![g] = {}]
    /\ touched' = [touched EXCEPT ![g] = {}]
    /\ UNCHANGED editVars

(* No teacher, room or time for a session, a read that fails, or a restart. *)
GenerationFails(g) ==
    /\ gpc[g] # "idle"
    /\ EndGeneration(g)
    /\ UNCHANGED <<timetable, unseen>>

(* ReplaceClassTimetable, which does not look at the class again. *)
ReplaceClassTimetable(g) ==
    LET c == reading[g].class
        new == [entries |-> plan[g], whole |-> reading[g].whole]
    IN  /\ gpc[g] = "place"
        /\ Left(g) = {}
        /\ EndGeneration(g)
        /\ timetable' = [d \in DOMAIN timetable \cup {c} |-> IF d = c THEN new ELSE timetable[d]]
        /\ unseen' = [d \in DOMAIN unseen \cup {c} |-> IF d = c THEN touched[g] ELSE unseen[d]]

-----------------------------------------------------------------------------
Init ==
    /\ \E school \in Schools : db = school.db /\ links = school.links
    /\ epc = [e \in Editors |-> "idle"]
    /\ edit = [e \in Editors |-> NoEdit]
    /\ gpc = [g \in Generators |-> "idle"]
    /\ reading = [g \in Generators |-> NoReading]
    /\ plan = [g \in Generators |-> {}]
    /\ timetable = <<>>
    /\ edits = 0
    /\ asked = db
    /\ excused = {}
    /\ behind = [e \in Editors |-> {}]
    /\ touched = [g \in Generators |-> {}]
    /\ unseen = <<>>

Post ==
    \/ CreateFaculty \/ CreateCourse \/ CreateModule \/ CreateClass
    \/ CreateStaff \/ CreateRoom \/ CreateSubject

Remove ==
    \/ DeleteFaculty \/ DeleteCourse \/ DeleteModule \/ DeleteClass
    \/ DeleteStaff \/ DeleteRoom \/ DeleteSubject

Put(e) ==
    \/ UpdateFaculty(e) \/ UpdateCourse(e) \/ UpdateModule(e) \/ UpdateClass(e)
    \/ UpdateStaff(e) \/ UpdateRoom(e) \/ UpdateSubject(e)
    \/ Save(e)

Allocate(e) == AssignModule(e) \/ Assign(e)

Generate(g) ==
    \/ ReadClass(g) \/ ReadCourseModules(g) \/ ReadGeneralModules(g) \/ ReadSubjects(g)
    \/ ScheduleSession(g) \/ ReplaceClassTimetable(g) \/ GenerationFails(g)

Next ==
    \/ Post \/ Remove \/ UnassignModule
    \/ \E e \in Editors : Put(e) \/ Allocate(e) \/ EditFails(e)
    \/ \E g \in Generators : Generate(g)

Spec == Init /\ [][Next]_vars

-----------------------------------------------------------------------------
(* Properties *)

(***************************************************************************)
(* Every row is what the requests that were answered have asked for: it is *)
(* gone after a DELETE and has the key and the type that the last PUT has  *)
(* given it.  The exceptions are a PUT that wrote back what it had loaded  *)
(* before another request changed the row, and a PUT that gave a new key   *)
(* while the row of the old one was live: gorm writes the old key again.   *)
(***************************************************************************)
StoredAsAsked ==
    \A t \in Tables : \A i \in Ids(t) : db[t][i] # asked[t][i] => <<t, i>> \in excused

(***************************************************************************)
(* A generated timetable has each module of the class's course and each    *)
(* module without a course exactly once, and subjects only when there are  *)
(* no such modules.  Nothing holds the tables still while they are read,   *)
(* so this is promised for rows that nobody has written since the          *)
(* generation began; and it is not promised when the read of the modules   *)
(* without a course has failed, since that error is dropped.               *)
(***************************************************************************)
CurriculumStored ==
    \A c \in DOMAIN timetable :
        timetable[c].whole /\ <<"classes", c>> \notin unseen[c] =>
            LET Of(kinds, id) == {x \in timetable[c].entries : x.kind \in kinds /\ x.id = id}
                general == \E x \in timetable[c].entries : x.kind = "general"
            IN  /\ \A m \in Ids("modules") : <<"modules", m>> \notin unseen[c] =>
                      Cardinality(Of({"own", "general"}, m)) =
                         IF /\ m \in Live("modules")
                            /\ db.modules[m].parent \in {NoRow, db.classes[c].parent}
                         THEN 1 ELSE 0
                /\ \A s \in Ids("subjects") : <<"subjects", s>> \notin unseen[c] =>
                      Cardinality(Of({"subject"}, s)) =
                         IF s \in Live("subjects") /\ ~general THEN 1 ELSE 0

(***************************************************************************)
(* An entry of a timetable names only live rows, and a teacher who is      *)
(* allocated to the module, except for rows that were written after its    *)
(* generation began: a deletion leaves the entries, and it is the only way *)
(* to an entry of a class, teacher or room that is gone.                   *)
(***************************************************************************)
EntriesStand ==
    \A c \in DOMAIN timetable : \A x \in timetable[c].entries :
        /\ c \in Live("classes") \/ <<"classes", c>> \in unseen[c]
        /\ x.id \in Live(TableOf(x.kind)) \/ <<TableOf(x.kind), x.id>> \in unseen[c]
        /\ x.room \in Live("rooms") \/ <<"rooms", x.room>> \in unseen[c]
        /\ \/ x.staff \in Live("staff") /\ (x.kind # "subject" => <<x.staff, x.id>> \in links)
           \/ <<"staff", x.staff>> \in unseen[c]
=============================================================================
