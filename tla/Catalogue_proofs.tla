-------------------------- MODULE Catalogue_proofs --------------------------
(***************************************************************************)
(* Proofs about Catalogue: for every number of rows, of editors and of     *)
(* generations, a row is what was asked for unless the PUT that wrote it   *)
(* is excused, timetables name only rows that were there when their        *)
(* generation read them, and of the rows left alone since then they have   *)
(* the whole curriculum, each module once.                                 *)
(***************************************************************************)
EXTENDS Catalogue, TLAPS, SequenceTheorems, FiniteSetTheorems

Body == [parent: Nat \cup {Omitted}, general: BOOLEAN \cup {Omitted}]
Edit == [table: Tables, id: Nat, module: Nat, held: BOOLEAN, body: Body, old: Row, new: Row]
Reading == [class: Nat, course: Nat, own: SUBSET Nat, general: SUBSET Nat,
            subjects: SUBSET Nat, whole: BOOLEAN]

(* The tables, and what was asked of their rows. *)
DbInv ==
    /\ db \in [Tables -> Seq(Row)] /\ asked \in [Tables -> Seq(Row)]
    /\ \A t \in Tables : Len(asked[t]) = Len(db[t])
    /\ \A t \in Tables : \A i \in Ids(t) : db[t][i].parent \in KeysAndNull(t)
    /\ links \subseteq Ids("staff") \X Ids("modules")

(* An edit that nothing has overtaken has loaded the row as it is. *)
Loaded(e) ==
    epc[e] = "save" =>
        LET t == edit[e].table  i == edit[e].id
        IN  /\ i \in Ids(t)
            /\ edit[e].old.parent \in KeysAndNull(t) /\ edit[e].new.parent \in KeysAndNull(t)
            /\ edit[e].new = Merge(edit[e].old, edit[e].body)
            /\ <<t, i>> \notin behind[e] => db[t][i] = edit[e].old

Assigned(e) == epc[e] = "assign" => edit[e].id \in Ids("staff") /\ edit[e].module \in Ids("modules")

EditInv ==
    /\ epc \in [Editors -> {"idle", "save", "assign"}]
    /\ edit \in [Editors -> Edit]
    /\ DOMAIN behind = Editors
    /\ \A e \in Editors : Loaded(e) /\ Assigned(e)
    /\ edits \in Nat

(***************************************************************************)
(* StoredAsAsked depends on what an edit carries from its load to its      *)
(* save.                                                                   *)
(***************************************************************************)
AskedInv == DbInv /\ EditInv /\ StoredAsAsked

-----------------------------------------------------------------------------
(* Writing rows *)

LEMMA TableFacts ==
    ASSUME DbInv, NEW t \in Tables
    PROVE  /\ db[t] \in Seq(Row) /\ asked[t] \in Seq(Row)
           /\ Ids(t) = 1..Len(db[t]) /\ DOMAIN asked[t] = Ids(t) /\ Len(db[t]) \in Nat
           /\ Ids(t) \subseteq Nat
           /\ \A i \in Ids(t) : db[t][i] \in Row /\ asked[t][i] \in Row
<1>1. db[t] \in Seq(Row) /\ asked[t] \in Seq(Row) /\ Len(asked[t]) = Len(db[t])
  BY DEF DbInv
<1> QED
  BY <1>1, LenProperties, ElementOfSeq DEF Ids

LEMMA ParentTables ==
    /\ DOMAIN ParentTable = {"courses", "staff", "modules", "classes"}
    /\ \A t \in DOMAIN ParentTable : t \in Tables /\ ParentTable[t] \in Tables
BY DEF ParentTable, Tables

(* The rows of all tables but row i of t stay as they are, and no other row is new. *)
Kept(t, i) ==
    \A s \in Tables :
        /\ \A j \in Ids(s) :
              /\ j \in Ids(s)'
              /\ <<s, j>> # <<t, i>> => db'[s][j] = db[s][j] /\ asked'[s][j] = asked[s][j]
        /\ \A j \in Ids(s)' : j \in Ids(s) \/ <<s, j>> = <<t, i>>

LEMMA KeysGrow ==
    ASSUME NEW t, NEW i, Kept(t, i), NEW s \in Tables
    PROVE  /\ Keys(s) \subseteq Keys(s)' /\ KeysAndNull(s) \subseteq KeysAndNull(s)'
           /\ Ids(s) \subseteq Ids(s)'
<1>1. \A x \in Tables : Ids(x) \subseteq Ids(x)'
  BY DEF Kept
<1> QED
  BY <1>1, ParentTables DEF Keys, KeysAndNull

(* Row i of t is written over. *)
LEMMA OverwriteKeeps ==
    ASSUME DbInv, NEW t \in Tables, NEW i \in Ids(t), NEW row \in Row, NEW goal \in Row,
           row.parent \in KeysAndNull(t),
           db' = [db EXCEPT ![t] = [db[t] EXCEPT ![i] = row]],
           asked' = [asked EXCEPT ![t] = [asked[t] EXCEPT ![i] = goal]], links' = links
    PROVE  /\ DbInv' /\ Kept(t, i)
           /\ db'[t][i] = row /\ asked'[t][i] = goal
           /\ \A s \in Tables : Ids(s)' = Ids(s)
<1>1. i \in 1..Len(db[t]) /\ i \in 1..Len(asked[t])
  BY TableFacts DEF DbInv
<1>2. /\ db'[t] = [db[t] EXCEPT ![i] = row] /\ asked'[t] = [asked[t] EXCEPT ![i] = goal]
      /\ \A s \in Tables \ {t} : db'[s] = db[s] /\ asked'[s] = asked[s]
  BY DEF DbInv
<1>3. /\ db'[t] \in Seq(Row) /\ asked'[t] \in Seq(Row)
      /\ Len(db'[t]) = Len(db[t]) /\ Len(asked'[t]) = Len(asked[t])
      /\ DOMAIN db'[t] = DOMAIN db[t]
  BY <1>1, <1>2, TableFacts, ExceptSeq
<1>4. db' \in [Tables -> Seq(Row)] /\ asked' \in [Tables -> Seq(Row)]
  BY <1>3 DEF DbInv
<1>5. \A s \in Tables : Ids(s)' = Ids(s)
  BY <1>2, <1>3 DEF Ids
<1>6. Kept(t, i)
  BY <1>2, <1>5, TableFacts DEF Kept
<1>7. db'[t][i] = row /\ asked'[t][i] = goal
  BY <1>1, <1>2, TableFacts
<1>8. \A s \in Tables : \A j \in Ids(s) : db'[s][j].parent \in KeysAndNull(s)'
  <2> SUFFICES ASSUME NEW s \in Tables, NEW j \in Ids(s) PROVE db'[s][j].parent \in KeysAndNull(s)'
    OBVIOUS
  <2>1. db[s][j].parent \in KeysAndNull(s)
    BY DEF DbInv
  <2> QED
    BY <1>6, <1>7, <2>1, KeysGrow DEF Kept
<1>9. \A s \in Tables : Len(asked'[s]) = Len(db'[s])
  BY <1>2, <1>3 DEF DbInv
<1>10. links' \subseteq Ids("staff")' \X Ids("modules")'
  BY <1>5 DEF DbInv, Tables
<1> QED
  BY <1>4, <1>5, <1>6, <1>7, <1>8, <1>9, <1>10 DEF DbInv

(* A row is added to t. *)
LEMMA AppendKeeps ==
    ASSUME DbInv, NEW t \in Tables, NEW row \in Row, row.parent \in KeysAndNull(t),
           db' = [db EXCEPT ![t] = Append(db[t], row)],
           asked' = [asked EXCEPT ![t] = Append(asked[t], row)], links' = links
    PROVE  /\ DbInv' /\ Kept(t, Len(db[t]) + 1)
           /\ \A s \in Tables : Ids(s)' \subseteq Ids(s) \cup (IF s = t THEN {Len(db[t]) + 1} ELSE {})
           /\ db'[t][Len(db[t]) + 1] = asked'[t][Len(db[t]) + 1]
<1> DEFINE n == Len(db[t]) + 1
<1>1. /\ db'[t] = Append(db[t], row) /\ asked'[t] = Append(asked[t], row)
      /\ \A s \in Tables \ {t} : db'[s] = db[s] /\ asked'[s] = asked[s]
  BY DEF DbInv
<1>2. /\ db'[t] \in Seq(Row) /\ asked'[t] \in Seq(Row)
      /\ Len(db'[t]) = n /\ Len(asked'[t]) = n
      /\ \A i \in Ids(t) : db'[t][i] = db[t][i] /\ asked'[t][i] = asked[t][i]
      /\ db'[t][n] = row /\ asked'[t][n] = row
  BY <1>1, TableFacts, AppendProperties DEF DbInv
<1>3. db' \in [Tables -> Seq(Row)] /\ asked' \in [Tables -> Seq(Row)]
  BY <1>2 DEF DbInv
<1>4. Ids(t)' = 1..n /\ Ids(t)' = Ids(t) \cup {n} /\ \A s \in Tables \ {t} : Ids(s)' = Ids(s)
  BY <1>1, <1>2, TableFacts, LenProperties DEF Ids
<1>5. Kept(t, n)
  BY <1>1, <1>2, <1>4, TableFacts DEF Kept
<1>6. \A s \in Tables : \A j \in Ids(s)' : db'[s][j].parent \in KeysAndNull(s)'
  <2> SUFFICES ASSUME NEW s \in Tables, NEW j \in Ids(s)' PROVE db'[s][j].parent \in KeysAndNull(s)'
    OBVIOUS
  <2>1. KeysAndNull(s) \subseteq KeysAndNull(s)'
    BY <1>5, KeysGrow
  <2>2. CASE j \in Ids(s)
    BY <1>1, <1>2, <2>1, <2>2 DEF DbInv
  <2>3. CASE s = t /\ j = n
    BY <1>2, <2>1, <2>3
  <2> QED
    BY <1>4, <2>2, <2>3
<1>7. \A s \in Tables : Len(asked'[s]) = Len(db'[s])
  BY <1>1, <1>2 DEF DbInv
<1>8. links' \subseteq Ids("staff")' \X Ids("modules")'
  BY <1>5, KeysGrow DEF DbInv, Tables
<1> QED
  BY <1>2, <1>3, <1>4, <1>5, <1>6, <1>7, <1>8 DEF DbInv

-----------------------------------------------------------------------------
(* Editing *)

(* A write of row i of t does not go unnoticed by an edit in flight. *)
LEMMA LoadedKept ==
    ASSUME NEW t, NEW i, Kept(t, i), Wrote(t, i), EditInv, NEW e \in Editors,
           epc'[e] = epc[e], edit'[e] = edit[e]
    PROVE  Loaded(e)' /\ Assigned(e)'
<1>1. Loaded(e) /\ Assigned(e) /\ edit[e] \in Edit
  BY DEF EditInv
<1>2. epc[e] = "save" => behind'[e] = behind[e] \cup {<<t, i>>}
  BY DEF Wrote
<1>3. edit[e].table \in Tables
  BY <1>1 DEF Edit
<1>4. KeysAndNull(edit[e].table) \subseteq KeysAndNull(edit[e].table)'
  BY <1>3, KeysGrow
<1>5. Loaded(e)'
  BY <1>1, <1>2, <1>3, <1>4 DEF Loaded, Kept, Merge
<1>6. Assigned(e)'
  BY <1>1, KeysGrow DEF Assigned, Tables
<1> QED
  BY <1>5, <1>6

(* The request of an administrator that is one statement. *)
LEMMA StatementEdits ==
    ASSUME NEW t, NEW i, Kept(t, i), Wrote(t, i), EditInv, UNCHANGED <<epc, edit>>, edits' \in Nat
    PROVE  EditInv'
<1>1. \A e \in Editors : Loaded(e)' /\ Assigned(e)'
  BY LoadedKept
<1>2. DOMAIN behind' = Editors
  BY DEF Wrote
<1> QED
  BY <1>1, <1>2 DEF EditInv

LEMMA CreateAsked ==
    ASSUME AskedInv, NEW t \in Tables, NEW parent \in KeysAndNull(t) \cap Nat,
           NEW general \in BOOLEAN, Create(t, parent, general)
    PROVE  /\ AskedInv' /\ Kept(t, Len(db[t]) + 1) /\ Wrote(t, Len(db[t]) + 1)
<1> DEFINE row == [live |-> TRUE, parent |-> parent, general |-> general]
<1>1. row \in Row /\ row.parent \in KeysAndNull(t)
  BY DEF Row
<1>2. /\ db' = [db EXCEPT ![t] = Append(db[t], row)]
      /\ asked' = [asked EXCEPT ![t] = Append(asked[t], row)]
      /\ UNCHANGED <<links, epc, edit, excused>> /\ Wrote(t, Len(db[t]) + 1)
      /\ edits' = edits + 1
  BY DEF Create, Request, AskedInv, DbInv
<1> HIDE DEF row
<1>3. /\ DbInv' /\ Kept(t, Len(db[t]) + 1)
      /\ \A s \in Tables : Ids(s)' \subseteq Ids(s) \cup (IF s = t THEN {Len(db[t]) + 1} ELSE {})
      /\ db'[t][Len(db[t]) + 1] = asked'[t][Len(db[t]) + 1]
  BY <1>1, <1>2, AppendKeeps DEF AskedInv
<1>4. EditInv'
  BY <1>2, <1>3, StatementEdits DEF AskedInv, EditInv
<1>5. StoredAsAsked'
  <2> SUFFICES ASSUME NEW s \in Tables, NEW j \in Ids(s)', db'[s][j] # asked'[s][j]
               PROVE  <<s, j>> \in excused'
    BY DEF StoredAsAsked
  <2>1. j \in Ids(s) /\ <<s, j>> # <<t, Len(db[t]) + 1>>
    BY <1>3, TableFacts DEF AskedInv
  <2> QED
    BY <1>2, <1>3, <2>1 DEF AskedInv, StoredAsAsked, Kept
<1> QED
  BY <1>2, <1>3, <1>4, <1>5 DEF AskedInv

LEMMA PostAsked ==
    ASSUME AskedInv, Post
    PROVE  /\ AskedInv'
           /\ \E t \in Tables : Kept(t, Len(db[t]) + 1) /\ Wrote(t, Len(db[t]) + 1)
<1>1. \A t \in Tables : Keys(t) \subseteq KeysAndNull(t) \cap Nat
  <2>1. \A t \in Tables : Ids(t) \subseteq Nat
    BY TableFacts DEF AskedInv
  <2> QED
    BY <2>1, ParentTables DEF Keys, KeysAndNull, NoRow
<1>2. NoRow \in Keys("faculties") /\ NoRow \in Keys("rooms") /\ NoRow \in Keys("subjects")
  BY ParentTables DEF Keys
<1>3. NoRow \in KeysAndNull("modules") \cap Nat
  BY DEF KeysAndNull, NoRow
<1>4. PICK t \in Tables :
         \E parent \in KeysAndNull(t) \cap Nat, general \in BOOLEAN : Create(t, parent, general)
  BY <1>1, <1>2, <1>3
     DEF Post, CreateFaculty, CreateCourse, CreateModule, CreateClass, CreateStaff, CreateRoom,
         CreateSubject, Tables
<1> QED
  BY <1>4, CreateAsked

LEMMA DeleteAsked ==
    ASSUME AskedInv, NEW t \in Tables, Delete(t)
    PROVE  AskedInv' /\ \E i \in Ids(t) : Kept(t, i) /\ Wrote(t, i)
<1>1. PICK i \in Live(t) :
         /\ db' = [db EXCEPT ![t][i].live = FALSE]
         /\ asked' = [asked EXCEPT ![t][i].live = FALSE]
         /\ Wrote(t, i)
  BY DEF Delete
<1>2. i \in Ids(t) /\ db[t][i] \in Row /\ asked[t][i] \in Row
  BY TableFacts DEF AskedInv, Live
<1>3. PICK row \in Row, goal \in Row :
         row = [db[t][i] EXCEPT !.live = FALSE] /\ goal = [asked[t][i] EXCEPT !.live = FALSE]
  BY <1>2 DEF Row
<1>4. row.parent \in KeysAndNull(t)
  BY <1>2, <1>3 DEF AskedInv, DbInv, Row
<1>5. /\ db' = [db EXCEPT ![t] = [db[t] EXCEPT ![i] = row]]
      /\ asked' = [asked EXCEPT ![t] = [asked[t] EXCEPT ![i] = goal]]
  BY <1>1, <1>3 DEF AskedInv, DbInv
<1>6. UNCHANGED <<links, epc, edit, excused>> /\ edits' = edits + 1
  BY DEF Delete, Request
<1>7. db[t][i] = asked[t][i] => row = goal
  BY <1>3
<1>8. /\ DbInv' /\ Kept(t, i) /\ db'[t][i] = row /\ asked'[t][i] = goal
      /\ \A s \in Tables : Ids(s)' = Ids(s)
  BY <1>2, <1>4, <1>5, <1>6, OverwriteKeeps DEF AskedInv
<1>9. EditInv'
  BY <1>1, <1>6, <1>8, StatementEdits DEF AskedInv, EditInv
<1>10. StoredAsAsked'
  BY <1>6, <1>7, <1>8 DEF AskedInv, StoredAsAsked, Kept
<1> QED
  BY <1>1, <1>2, <1>8, <1>9, <1>10 DEF AskedInv

LEMMA MergeType ==
    ASSUME NEW row \in Row, NEW body \in Body
    PROVE  /\ Merge(row, body) \in Row
           /\ Merge(row, body).parent \in {NoRow, row.parent, body.parent}
BY CatalogueAssumption DEF Merge, Row, Body, NoRow

(* The bodies that the PUTs of a table can have. *)
Bodies(t) ==
    {body \in Body :
        /\ body.parent \in KeysAndNull(t) \cup {Omitted}
        /\ t # "modules" => body.general = Omitted /\ body.parent \in Keys(t) \cup {Omitted}}

LEMMA LoadAsked ==
    ASSUME AskedInv, NEW t \in Tables, NEW e \in Editors, NEW body \in Bodies(t), Load(e, t, body)
    PROVE  AskedInv'
<1>1. PICK i \in Live(t) :
         edit' = [edit EXCEPT ![e] = [table |-> t, id |-> i, module |-> NoRow, body |-> body,
             held |-> Preloads(t, db[t][i]), old |-> db[t][i], new |-> Merge(db[t][i], body)]]
  BY DEF Load
<1>2. i \in Ids(t) /\ i \in Nat /\ db[t][i] \in Row /\ db[t][i].parent \in KeysAndNull(t)
  BY TableFacts DEF AskedInv, DbInv, Live
<1>3. PICK new \in Row, old \in Row, held \in BOOLEAN :
         /\ old = db[t][i] /\ new = Merge(old, body) /\ held = Preloads(t, db[t][i])
  BY <1>2, MergeType DEF Bodies, Preloads
<1>4. new.parent \in KeysAndNull(t)
  <2>1. t = "modules" => NoRow \in KeysAndNull(t)
    BY DEF KeysAndNull
  <2>2. t # "modules" => body.general # TRUE
    BY CatalogueAssumption DEF Bodies
  <2>3. Keys(t) \subseteq KeysAndNull(t)
    BY DEF KeysAndNull
  <2> QED
    BY <1>2, <1>3, <2>1, <2>2, <2>3 DEF Merge, Bodies
<1>5. /\ UNCHANGED <<db, links, asked, excused, behind>> /\ edits' = edits + 1
      /\ epc' = [epc EXCEPT ![e] = "save"]
  BY DEF Load, Request
<1>6. /\ edit' \in [Editors -> Edit] /\ epc' \in [Editors -> {"idle", "save", "assign"}]
      /\ edit'[e].table = t /\ edit'[e].id = i /\ edit'[e].body = body
      /\ edit'[e].old = old /\ edit'[e].new = new
  BY <1>1, <1>2, <1>3, <1>5 DEF AskedInv, EditInv, Edit, NoRow, Bodies
<1>7. ASSUME NEW c \in Editors PROVE Loaded(c)' /\ Assigned(c)'
  <2>1. CASE c = e
    <3>1. epc'[e] = "save"
      BY <1>5 DEF AskedInv, EditInv
    <3>2. KeysAndNull(t)' = KeysAndNull(t) /\ Ids(t)' = Ids(t)
      BY <1>5 DEF KeysAndNull, Keys, Ids
    <3>3. Loaded(e)'
      BY <1>2, <1>3, <1>4, <1>5, <1>6, <3>2 DEF Loaded, Merge
    <3> QED
      BY <2>1, <3>1, <3>3 DEF Assigned
  <2>2. CASE c # e
    <3>1. edit'[c] = edit[c] /\ epc'[c] = epc[c] /\ Loaded(c) /\ Assigned(c)
      BY <1>1, <1>5, <2>2 DEF AskedInv, EditInv
    <3> QED
      BY <1>5, <3>1 DEF Loaded, Assigned, KeysAndNull, Keys, Ids, Merge
  <2> QED
    BY <2>1, <2>2
<1>8. EditInv'
  BY <1>5, <1>6, <1>7 DEF AskedInv, EditInv
<1>9. DbInv' /\ StoredAsAsked'
  BY <1>5 DEF AskedInv, DbInv, StoredAsAsked, KeysAndNull, Keys, Ids
<1> QED
  BY <1>8, <1>9 DEF AskedInv

(* The PUTs of the seven tables. *)
LEMMA PutLoads ==
    ASSUME AskedInv, NEW e \in Editors, Put(e)
    PROVE  Save(e) \/ \E t \in Tables : \E body \in Bodies(t) : Load(e, t, body)
<1>1. \A t \in Tables : Keys(t) \subseteq Nat
  <2>1. \A t \in Tables : Ids(t) \subseteq Nat
    BY TableFacts DEF AskedInv
  <2> QED
    BY <2>1, ParentTables DEF Keys, NoRow
<1>2. \A t \in Tables : NoBody \in Bodies(t)
  BY DEF Bodies, Body, NoBody
<1>3. \A t \in Tables \ {"modules"} : \A k \in GivenKeys(t) :
         [NoBody EXCEPT !.parent = k] \in Bodies(t)
  BY <1>1 DEF Bodies, Body, NoBody, GivenKeys, KeysAndNull
<1>4. \A k \in GivenKeys("modules") \cup {NoRow}, general \in {TRUE, FALSE, Omitted} :
         [parent |-> k, general |-> general] \in Bodies("modules")
  <2> SUFFICES ASSUME NEW k \in GivenKeys("modules") \cup {NoRow}, NEW general \in {TRUE, FALSE, Omitted}
               PROVE  [parent |-> k, general |-> general] \in Bodies("modules")
    OBVIOUS
  <2>1. k \in KeysAndNull("modules") \cup {Omitted} /\ k \in Nat \cup {Omitted}
    BY <1>1 DEF GivenKeys, KeysAndNull, NoRow, Tables
  <2>2. general \in BOOLEAN \cup {Omitted}
    OBVIOUS
  <2>3. [parent |-> k, general |-> general] \in Body
    BY <2>1, <2>2 DEF Body
  <2> QED
    BY <2>1, <2>3 DEF Bodies
<1>5. CASE UpdateFaculty(e) \/ UpdateRoom(e) \/ UpdateSubject(e)
  BY <1>2, <1>5 DEF UpdateFaculty, UpdateRoom, UpdateSubject, Tables
<1>6. CASE UpdateCourse(e) \/ UpdateClass(e) \/ UpdateStaff(e)
  BY <1>3, <1>6 DEF UpdateCourse, UpdateClass, UpdateStaff, Tables
<1>7. CASE UpdateModule(e)
  BY <1>4, <1>7 DEF UpdateModule, Tables
<1> QED
  BY <1>5, <1>6, <1>7 DEF Put

LEMMA SaveAsked ==
    ASSUME AskedInv, NEW e \in Editors, Save(e)
    PROVE  AskedInv' /\ \E t \in Tables : \E i \in Ids(t) : Kept(t, i) /\ Wrote(t, i)
<1>1. PICK t \in Tables : \E n \in Nat : t = edit[e].table /\ n = edit[e].id
  BY DEF AskedInv, EditInv, Edit
<1>2. PICK i \in Ids(t) : i = edit[e].id
  BY <1>1 DEF AskedInv, EditInv, Loaded, Save
<1>3. /\ edit[e].old \in Row /\ edit[e].new \in Row /\ edit[e].held \in BOOLEAN
      /\ edit[e].body \in Body
  BY DEF AskedInv, EditInv, Edit
<1>4. /\ edit[e].old.parent \in KeysAndNull(t) /\ edit[e].new.parent \in KeysAndNull(t)
      /\ edit[e].new = Merge(edit[e].old, edit[e].body)
      /\ <<t, i>> \notin behind[e] => db[t][i] = edit[e].old
  BY <1>1, <1>2 DEF AskedInv, EditInv, Loaded, Save
<1>5. db[t][i] \in Row /\ asked[t][i] \in Row
  BY TableFacts DEF AskedInv
<1> DEFINE raced == <<t, i>> \in behind[e]
<1> DEFINE ignored == edit[e].held /\ edit[e].new.parent # edit[e].old.parent
<1>6. PICK row \in Row : row = Saved(e)
  BY <1>3 DEF Saved, Row
<1>7. PICK goal \in Row : goal = Asked(e, asked[t][i], raced)
  BY <1>3, <1>5, CatalogueAssumption DEF Asked, Row, Body, NoRow
<1>8. row.parent \in KeysAndNull(t)
  BY <1>3, <1>4, <1>6 DEF Saved, Row
<1>9. /\ db' = [db EXCEPT ![t] = [db[t] EXCEPT ![i] = row]]
      /\ asked' = [asked EXCEPT ![t] = [asked[t] EXCEPT ![i] = goal]]
      /\ excused' = IF raced \/ ignored THEN excused \cup {<<t, i>>}
                    ELSE IF row = goal THEN excused \ {<<t, i>>} ELSE excused
      /\ Wrote(t, i) /\ EndEdit(e) /\ UNCHANGED <<links, edits>>
  BY <1>1, <1>2, <1>6, <1>7 DEF Save, AskedInv, DbInv
<1>10. /\ DbInv' /\ Kept(t, i) /\ db'[t][i] = row /\ asked'[t][i] = goal
       /\ \A s \in Tables : Ids(s)' = Ids(s)
  BY <1>8, <1>9, OverwriteKeeps DEF AskedInv
<1>11. ~raced /\ ~ignored /\ db[t][i] = asked[t][i] => row = goal
  <2> SUFFICES ASSUME ~raced, ~ignored, db[t][i] = asked[t][i] PROVE row = goal
    OBVIOUS
  <2>1. row = edit[e].new
    BY <1>3, <1>6 DEF Saved, Row
  <2>2. asked[t][i] = edit[e].old
    BY <1>4
  <2>3. goal = Merge(edit[e].old, edit[e].body)
    BY <1>7, <2>2 DEF Asked, Merge
  <2> QED
    BY <1>4, <2>1, <2>3
<1>12. StoredAsAsked'
  <2> SUFFICES ASSUME NEW s \in Tables, NEW j \in Ids(s), db'[s][j] # asked'[s][j]
               PROVE  <<s, j>> \in excused'
    BY <1>10 DEF StoredAsAsked
  <2>1. CASE <<s, j>> = <<t, i>>
    <3>1. row # goal /\ s = t /\ j = i
      BY <1>10, <2>1
    <3>2. db[t][i] # asked[t][i] => <<t, i>> \in excused
      BY DEF AskedInv, StoredAsAsked
    <3> QED
      BY <1>9, <1>11, <3>1, <3>2
  <2>2. CASE <<s, j>> # <<t, i>>
    <3>1. <<s, j>> \in excused
      BY <1>10, <2>2 DEF AskedInv, StoredAsAsked, Kept
    <3> QED
      BY <1>9, <2>2, <3>1
  <2> QED
    BY <2>1, <2>2
<1>13. EditInv'
  <2>1. /\ epc' \in [Editors -> {"idle", "save", "assign"}] /\ epc'[e] = "idle"
        /\ \A c \in Editors \ {e} : epc'[c] = epc[c] /\ edit'[c] = edit[c]
    BY <1>9 DEF EndEdit, AskedInv, EditInv
  <2>2. edit' \in [Editors -> Edit]
    BY <1>9, CatalogueAssumption
       DEF EndEdit, AskedInv, EditInv, Edit, NoEdit, NoBody, Body, Blank, Row, NoRow, Tables
  <2>3. \A c \in Editors \ {e} : Loaded(c)' /\ Assigned(c)'
    BY <1>9, <1>10, <2>1, LoadedKept DEF AskedInv
  <2>4. Loaded(e)' /\ Assigned(e)'
    BY <2>1 DEF Loaded, Assigned
  <2>5. DOMAIN behind' = Editors
    BY <1>9 DEF Wrote
  <2> QED
    BY <1>9, <2>1, <2>2, <2>3, <2>4, <2>5 DEF AskedInv, EditInv
<1> QED
  BY <1>9, <1>10, <1>12, <1>13 DEF AskedInv

(* An allocation writes a link, which counts as a write of the teacher's row. *)
LEMMA LinkAsked ==
    ASSUME AskedInv, NEW s \in Ids("staff"), UNCHANGED <<db, asked, excused>>,
           links' \subseteq Ids("staff") \X Ids("modules")
    PROVE  DbInv' /\ StoredAsAsked' /\ Kept("staff", s)
<1>1. \A t \in Tables : Ids(t)' = Ids(t) /\ KeysAndNull(t)' = KeysAndNull(t)
  BY DEF Ids, KeysAndNull, Keys
<1>2. "staff" \in Tables /\ "modules" \in Tables
  BY DEF Tables
<1>3. Kept("staff", s)
  BY <1>1 DEF Kept
<1>4. DbInv'
  BY <1>1, <1>2 DEF AskedInv, DbInv
<1>5. StoredAsAsked'
  BY <1>1 DEF AskedInv, StoredAsAsked
<1> QED
  BY <1>3, <1>4, <1>5

LEMMA AssignModuleAsked == ASSUME AskedInv, NEW e \in Editors, AssignModule(e) PROVE AskedInv'
<1>1. PICK s \in Live("staff"), m \in Live("modules") :
         edit' = [edit EXCEPT ![e] = [NoEdit EXCEPT !.table = "staff", !.id = s, !.module = m]]
  BY DEF AssignModule
<1>2. s \in Ids("staff") /\ m \in Ids("modules") /\ s \in Nat /\ m \in Nat
  BY TableFacts DEF Live, AskedInv, Tables
<1>3. [NoEdit EXCEPT !.table = "staff", !.id = s, !.module = m] \in Edit
  BY <1>2, CatalogueAssumption DEF NoEdit, Edit, NoBody, Body, Blank, Row, NoRow, Tables
<1>4. /\ UNCHANGED <<db, links, asked, excused, behind>> /\ edits' = edits + 1
      /\ epc' = [epc EXCEPT ![e] = "assign"]
  BY DEF AssignModule, Request
<1>5. /\ edit' \in [Editors -> Edit] /\ epc' \in [Editors -> {"idle", "save", "assign"}]
      /\ edit'[e].id = s /\ edit'[e].module = m /\ epc'[e] = "assign"
  BY <1>1, <1>3, <1>4 DEF AskedInv, EditInv, NoEdit
<1>6. ASSUME NEW c \in Editors PROVE Loaded(c)' /\ Assigned(c)'
  <2>1. CASE c = e
    BY <1>2, <1>4, <1>5, <2>1 DEF Loaded, Assigned, Ids
  <2>2. CASE c # e
    <3>1. edit'[c] = edit[c] /\ epc'[c] = epc[c] /\ Loaded(c) /\ Assigned(c)
      BY <1>1, <1>4, <2>2 DEF AskedInv, EditInv
    <3> QED
      BY <1>4, <3>1 DEF Loaded, Assigned, KeysAndNull, Keys, Ids, Merge
  <2> QED
    BY <2>1, <2>2
<1>7. EditInv'
  BY <1>4, <1>5, <1>6 DEF AskedInv, EditInv
<1>8. DbInv' /\ StoredAsAsked'
  BY <1>4 DEF AskedInv, DbInv, StoredAsAsked, KeysAndNull, Keys, Ids
<1> QED
  BY <1>7, <1>8 DEF AskedInv

(* An edit ends; those of the others go on. *)
LEMMA EndedEdits ==
    ASSUME AskedInv, NEW e \in Editors, EndEdit(e), DOMAIN behind' = Editors, UNCHANGED edits,
           \A c \in Editors \ {e} :
              epc'[c] = epc[c] /\ edit'[c] = edit[c] => Loaded(c)' /\ Assigned(c)'
    PROVE  EditInv'
<1>1. /\ epc' \in [Editors -> {"idle", "save", "assign"}] /\ epc'[e] = "idle"
      /\ \A c \in Editors \ {e} : epc'[c] = epc[c] /\ edit'[c] = edit[c]
  BY DEF EndEdit, AskedInv, EditInv
<1>2. edit' \in [Editors -> Edit]
  BY CatalogueAssumption
     DEF EndEdit, AskedInv, EditInv, Edit, NoEdit, NoBody, Body, Blank, Row, NoRow, Tables
<1>3. Loaded(e)' /\ Assigned(e)'
  BY <1>1 DEF Loaded, Assigned
<1> QED
  BY <1>1, <1>2, <1>3 DEF AskedInv, EditInv

LEMMA AssignAsked ==
    ASSUME AskedInv, NEW e \in Editors, Assign(e)
    PROVE  AskedInv' /\ \E s \in Ids("staff") : Kept("staff", s) /\ Wrote("staff", s)
<1>1. PICK s \in Ids("staff"), m \in Ids("modules") : s = edit[e].id /\ m = edit[e].module
  BY DEF Assign, AskedInv, EditInv, Assigned
<1>2. links' \subseteq Ids("staff") \X Ids("modules")
  BY <1>1 DEF Assign, AskedInv, DbInv
<1>3. DbInv' /\ StoredAsAsked' /\ Kept("staff", s)
  BY <1>2, LinkAsked DEF Assign
<1>4. Wrote("staff", s) /\ EndEdit(e) /\ UNCHANGED edits
  BY <1>1 DEF Assign
<1>5. EditInv'
  BY <1>3, <1>4, EndedEdits, LoadedKept DEF AskedInv, Wrote
<1> QED
  BY <1>3, <1>4, <1>5 DEF AskedInv

LEMMA UnassignAsked ==
    ASSUME AskedInv, UnassignModule
    PROVE  /\ AskedInv'
           /\ \E pair \in links :
                 /\ links' = links \ {pair} /\ pair[1] \in Ids("staff")
                 /\ Kept("staff", pair[1]) /\ Wrote("staff", pair[1])
<1>1. PICK pair \in links : links' = links \ {pair} /\ Wrote("staff", pair[1])
  BY DEF UnassignModule
<1>2. PICK s \in Ids("staff") : s = pair[1]
  BY DEF AskedInv, DbInv
<1>3. DbInv' /\ StoredAsAsked' /\ Kept("staff", s)
  BY <1>1, LinkAsked DEF UnassignModule, AskedInv, DbInv
<1>4. EditInv'
  BY <1>1, <1>2, <1>3, StatementEdits DEF UnassignModule, Request, AskedInv, EditInv
<1> QED
  BY <1>1, <1>2, <1>3, <1>4 DEF AskedInv

LEMMA EditFailsAsked == ASSUME AskedInv, NEW e \in Editors, EditFails(e) PROVE AskedInv'
<1>1. UNCHANGED <<db, links, edits, asked, excused>> /\ behind' = [behind EXCEPT ![e] = {}]
  BY DEF EditFails
<1>2. ASSUME NEW c \in Editors \ {e}, epc'[c] = epc[c], edit'[c] = edit[c]
      PROVE  Loaded(c)' /\ Assigned(c)'
  <2>1. Loaded(c) /\ Assigned(c) /\ behind'[c] = behind[c]
    BY <1>1 DEF AskedInv, EditInv
  <2> QED
    BY <1>1, <1>2, <2>1 DEF Loaded, Assigned, KeysAndNull, Keys, Ids, Merge
<1>3. EditInv'
  BY <1>1, <1>2, EndedEdits DEF EditFails, AskedInv, EditInv
<1>4. DbInv' /\ StoredAsAsked'
  BY <1>1 DEF AskedInv, DbInv, StoredAsAsked, KeysAndNull, Keys, Ids
<1> QED
  BY <1>3, <1>4 DEF AskedInv

LEMMA SameAsked == ASSUME AskedInv, UNCHANGED editVars PROVE AskedInv'
<1>1. \A e \in Editors : Loaded(e)' /\ Assigned(e)'
  BY DEF AskedInv, EditInv, editVars, Loaded, Assigned, KeysAndNull, Keys, Ids, Merge
<1> QED
  BY <1>1 DEF AskedInv, DbInv, EditInv, StoredAsAsked, editVars, KeysAndNull, Keys, Ids

LEMMA GenerateIsReading == ASSUME NEW g \in Generators, Generate(g) PROVE UNCHANGED editVars
BY DEF Generate, ReadClass, ReadCourseModules, ReadGeneralModules, ReadSubjects, ScheduleSession,
       ReplaceClassTimetable, GenerationFails, GoOn, EndGeneration

LEMMA RemoveDeletes == Remove => \E t \in Tables : Delete(t)
BY DEF Remove, DeleteFaculty, DeleteCourse, DeleteModule, DeleteClass, DeleteStaff, DeleteRoom,
       DeleteSubject, Tables

LEMMA AskedStep == AskedInv /\ [Next]_vars => AskedInv'
<1> SUFFICES ASSUME AskedInv, [Next]_vars PROVE AskedInv'
  OBVIOUS
<1>1. CASE Post \/ Remove \/ UnassignModule
  BY <1>1, PostAsked, RemoveDeletes, DeleteAsked, UnassignAsked
<1>2. ASSUME NEW e \in Editors, Put(e) \/ Allocate(e) \/ EditFails(e) PROVE AskedInv'
  BY <1>2, PutLoads, LoadAsked, SaveAsked, AssignModuleAsked, AssignAsked, EditFailsAsked
     DEF Allocate
<1>3. ASSUME NEW g \in Generators, Generate(g) PROVE AskedInv'
  BY <1>3, GenerateIsReading, SameAsked
<1>4. CASE UNCHANGED vars
  BY <1>4, SameAsked DEF vars, editVars
<1> QED
  BY <1>1, <1>2, <1>3, <1>4 DEF Next

LEMMA AskedStart == Init => AskedInv
<1> SUFFICES ASSUME Init PROVE AskedInv
  OBVIOUS
<1>1. PICK school \in Schools : db = school.db /\ links = school.links
  BY DEF Init
<1>2. school \in School /\ Sound(school)
  BY <1>1, CatalogueAssumption
<1>3. db \in [Tables -> Seq(Row)] /\ asked = db
  BY <1>1, <1>2 DEF School, Init
<1>4. ASSUME NEW t \in Tables, NEW i \in Ids(t) PROVE db[t][i].parent \in KeysAndNull(t)
  BY <1>1, <1>2, <1>4, ParentTables DEF Sound, Ids, Keys, KeysAndNull, NoRow, ParentTable
<1>5. links \subseteq Ids("staff") \X Ids("modules")
  BY <1>1, <1>2 DEF Sound, Ids
<1>6. DbInv /\ StoredAsAsked
  BY <1>3, <1>4, <1>5 DEF DbInv, StoredAsAsked
<1>7. edit \in [Editors -> Edit]
  BY CatalogueAssumption DEF Init, Edit, NoEdit, NoBody, Body, Blank, Row, NoRow, Tables
<1>8. EditInv
  BY <1>7 DEF Init, EditInv, Loaded, Assigned
<1> QED
  BY <1>6, <1>8 DEF AskedInv

(***************************************************************************)
(* Every row is what the answered requests have asked of it, except for a  *)
(* PUT that had missed another request's change (db.Save of the loaded     *)
(* row) and a PUT that gave a new key while the old row was live, which    *)
(* Save overwrites with the key of the preloaded association.              *)
(***************************************************************************)
THEOREM RowsAreAsAsked == Spec => []StoredAsAsked
<1>1. AskedInv => StoredAsAsked
  BY DEF AskedInv
<1> QED
  BY <1>1, AskedStart, AskedStep, PTL DEF Spec

-----------------------------------------------------------------------------
(* Generation *)

(* A row that a generation has read is live, or written since it began: in written. *)
Fresh(t, i, written) == i \in Ids(t) /\ (i \in Live(t) \/ <<t, i>> \in written)

(* The same of an entry of its plan. *)
Good(x, written) ==
    /\ x \in Entry
    /\ Fresh(TableOf(x.kind), x.id, written) /\ Fresh("rooms", x.room, written)
    /\ x.staff \in Ids("staff")
    /\ \/ x.staff \in Live("staff") /\ (x.kind # "subject" => <<x.staff, x.id>> \in links)
       \/ <<"staff", x.staff>> \in written

PlanGood(g) ==
    /\ gpc[g] = "idle" => plan[g] = {}
    /\ gpc[g] # "idle" =>
          /\ Fresh("classes", reading[g].class, touched[g]) /\ reading[g].course \in Ids("courses")
          /\ \A m \in reading[g].own \cup reading[g].general : Fresh("modules", m, touched[g])
          /\ \A s \in reading[g].subjects : Fresh("subjects", s, touched[g])
          /\ \A x \in plan[g] : Good(x, touched[g])

TimetableGood(c) ==
    Fresh("classes", c, unseen[c]) /\ \A x \in timetable[c].entries : Good(x, unseen[c])

(***************************************************************************)
(* EntriesStand depends on what a generation carries from its reads to its *)
(* last statement.                                                         *)
(***************************************************************************)
PlanInv ==
    /\ gpc \in [Generators -> {"idle", "modules", "general", "subjects", "place"}]
    /\ reading \in [Generators -> Reading]
    /\ DOMAIN plan = Generators /\ DOMAIN touched = Generators
    /\ DOMAIN unseen = DOMAIN timetable
    /\ \A g \in Generators : PlanGood(g)
    /\ \A c \in DOMAIN timetable : TimetableGood(c)

(* The links of all teachers but teacher i stay, if t is the table of teachers. *)
LinksKept(t, i) == \A pair \in links : pair \in links' \/ <<t, i>> = <<"staff", pair[1]>>

LEMMA FreshKept ==
    ASSUME NEW t, NEW i, Kept(t, i), NEW s \in Tables, NEW j, NEW written, Fresh(s, j, written)
    PROVE  Fresh(s, j, written \cup {<<t, i>>})'
<1>1. j \in Ids(s)
  BY DEF Fresh
<1>2. j \in Ids(s)' /\ (<<s, j>> # <<t, i>> => db'[s][j] = db[s][j])
  BY <1>1 DEF Kept
<1> QED
  BY <1>1, <1>2 DEF Fresh, Live

LEMMA EntryTables ==
    \A x \in Entry : TableOf(x.kind) \in Tables /\ x.id \in Nat /\ x.staff \in Nat /\ x.room \in Nat
BY DEF Entry, TableOf, Tables

LEMMA GoodKept ==
    ASSUME NEW t, NEW i, Kept(t, i), LinksKept(t, i), NEW x, NEW written, Good(x, written)
    PROVE  Good(x, written \cup {<<t, i>>})'
<1>1. /\ Fresh(TableOf(x.kind), x.id, written \cup {<<t, i>>})'
      /\ Fresh("rooms", x.room, written \cup {<<t, i>>})'
  BY FreshKept, EntryTables DEF Good, Tables
<1>2. x.staff \in Ids("staff")' /\ (<<"staff", x.staff>> # <<t, i>> => db'["staff"][x.staff] = db["staff"][x.staff])
  BY DEF Good, Kept, Tables
<1>3. <<x.staff, x.id>> \in links /\ <<"staff", x.staff>> # <<t, i>> => <<x.staff, x.id>> \in links'
  BY DEF LinksKept
<1>4. \/ (x.staff \in Live("staff"))' /\ (x.kind # "subject" => <<x.staff, x.id>> \in links')
      \/ <<"staff", x.staff>> \in written \cup {<<t, i>>}
  BY <1>2, <1>3 DEF Good, Live
<1> QED
  BY <1>1, <1>2, <1>4 DEF Good

(* A write does not go unnoticed by a generation in flight, nor by a timetable. *)
LEMMA WritePlans ==
    ASSUME PlanInv, NEW t, NEW i, Kept(t, i), Wrote(t, i), LinksKept(t, i), UNCHANGED planVars
    PROVE  PlanInv'
<1>1. /\ UNCHANGED <<gpc, reading, plan, timetable>>
      /\ DOMAIN touched' = Generators /\ DOMAIN unseen' = DOMAIN unseen
      /\ \A g \in Generators : gpc[g] # "idle" => touched'[g] = touched[g] \cup {<<t, i>>}
      /\ \A c \in DOMAIN unseen : unseen'[c] = unseen[c] \cup {<<t, i>>}
  BY DEF planVars, Wrote
<1>2. ASSUME NEW g \in Generators PROVE PlanGood(g)'
  <2>1. PICK written : written = touched[g]
    OBVIOUS
  <2>2. PlanGood(g)
    BY DEF PlanInv
  <2>3. CASE gpc[g] # "idle"
    <3>1. touched'[g] = written \cup {<<t, i>>}
      BY <1>1, <2>1, <2>3
    <3>2. \A x \in plan[g] : Good(x, written \cup {<<t, i>>})'
      BY <2>1, <2>2, <2>3, GoodKept DEF PlanGood
    <3>3. PICK read : read = reading[g]
      OBVIOUS
    <3>4. /\ Fresh("classes", read.class, written \cup {<<t, i>>})'
          /\ \A m \in read.own \cup read.general : Fresh("modules", m, written \cup {<<t, i>>})'
          /\ \A s \in read.subjects : Fresh("subjects", s, written \cup {<<t, i>>})'
      BY <2>1, <2>2, <2>3, <3>3, FreshKept DEF PlanGood, Tables
    <3>5. reading[g].course \in Ids("courses")'
      BY <2>2, <2>3, KeysGrow DEF PlanGood, Tables
    <3>6. \A x \in plan'[g] : Good(x, touched[g])'
      BY <1>1, <3>1, <3>2 DEF Good, Fresh
    <3>7. /\ Fresh("classes", reading[g].class, touched[g])'
          /\ \A m \in (reading[g].own \cup reading[g].general)' : Fresh("modules", m, touched[g])'
          /\ \A s \in reading'[g].subjects : Fresh("subjects", s, touched[g])'
      BY <1>1, <3>1, <3>3, <3>4 DEF Fresh
    <3> QED
      BY <1>1, <2>3, <3>5, <3>6, <3>7 DEF PlanGood
  <2>4. CASE gpc[g] = "idle"
    BY <1>1, <2>2, <2>4 DEF PlanGood
  <2> QED
    BY <2>3, <2>4
<1>3. ASSUME NEW c \in DOMAIN timetable PROVE TimetableGood(c)'
  <2>1. PICK written : written = unseen[c]
    OBVIOUS
  <2>2. TimetableGood(c) /\ unseen'[c] = written \cup {<<t, i>>}
    BY <1>1, <2>1 DEF PlanInv
  <2>3. \A x \in timetable[c].entries : Good(x, written \cup {<<t, i>>})'
    BY <2>1, <2>2, GoodKept DEF TimetableGood
  <2>4. Fresh("classes", c, written \cup {<<t, i>>})'
    BY <2>1, <2>2, FreshKept DEF TimetableGood, Tables
  <2> QED
    BY <1>1, <2>2, <2>3, <2>4 DEF TimetableGood, Good, Fresh
<1> QED
  BY <1>1, <1>2, <1>3 DEF PlanInv

(* The plan of a generation that does nothing, while no row is written. *)
LEMMA PlanGoodKept ==
    ASSUME UNCHANGED <<db, links>>, NEW g \in Generators, PlanGood(g),
           gpc'[g] = gpc[g], reading'[g] = reading[g], plan'[g] = plan[g], touched'[g] = touched[g]
    PROVE  PlanGood(g)'
BY DEF PlanGood, Good, Fresh, Live, Ids

LEMMA TimetableGoodKept ==
    ASSUME UNCHANGED <<db, links>>, NEW c, TimetableGood(c),
           timetable'[c] = timetable[c], unseen'[c] = unseen[c]
    PROVE  TimetableGood(c)'
BY DEF TimetableGood, Good, Fresh, Live, Ids

LEMMA SamePlans ==
    ASSUME PlanInv, UNCHANGED <<db, links, planVars, touched, unseen>> PROVE PlanInv'
<1>1. UNCHANGED <<db, links>> /\ UNCHANGED <<gpc, reading, plan, timetable, touched, unseen>>
  BY DEF planVars
<1>2. \A g \in Generators : PlanGood(g)'
  BY <1>1, PlanGoodKept DEF PlanInv
<1>3. \A c \in DOMAIN timetable : TimetableGood(c)'
  BY <1>1, TimetableGoodKept DEF PlanInv
<1> QED
  BY <1>1, <1>2, <1>3 DEF PlanInv

(* Only generation g takes a step, and no timetable is stored. *)
LEMMA OnePlan ==
    ASSUME PlanInv, UNCHANGED <<db, links, timetable, unseen>>, NEW g \in Generators, PlanGood(g)',
           gpc' \in [Generators -> {"idle", "modules", "general", "subjects", "place"}],
           reading' \in [Generators -> Reading], DOMAIN plan' = Generators, DOMAIN touched' = Generators,
           \A h \in Generators \ {g} : /\ gpc'[h] = gpc[h] /\ reading'[h] = reading[h]
                                       /\ plan'[h] = plan[h] /\ touched'[h] = touched[h]
    PROVE  PlanInv'
<1>1. \A h \in Generators : PlanGood(h)'
  BY PlanGoodKept DEF PlanInv
<1>2. \A c \in DOMAIN timetable : TimetableGood(c)'
  BY TimetableGoodKept DEF PlanInv
<1> QED
  BY <1>1, <1>2 DEF PlanInv

LEMMA ReadClassPlans == ASSUME DbInv, PlanInv, NEW g \in Generators, ReadClass(g) PROVE PlanInv'
<1>1. PICK c \in Live("classes") :
         GoOn(g, "modules", [NoReading EXCEPT !.class = c, !.course = db.classes[c].parent])
  BY DEF ReadClass
<1>2. /\ UNCHANGED <<db, links, plan, timetable, unseen>> /\ plan[g] = {}
      /\ gpc' = [gpc EXCEPT ![g] = "modules"]
      /\ reading' = [reading EXCEPT ![g] = [NoReading EXCEPT !.class = c, !.course = db.classes[c].parent]]
      /\ touched' = [touched EXCEPT ![g] = {}]
  BY <1>1 DEF ReadClass, GoOn, editVars, PlanInv, PlanGood
<1>3. /\ db.classes[c].parent \in Ids("courses") /\ db.classes[c].parent \in Nat
      /\ c \in Ids("classes") /\ c \in Nat
  <2>1. c \in Ids("classes") /\ c \in Nat
    BY TableFacts DEF Live, Tables
  <2>2. db["classes"][c].parent \in KeysAndNull("classes")
    BY <2>1 DEF DbInv, Tables
  <2>3. Ids("courses") \subseteq Nat
    BY TableFacts DEF Tables
  <2> QED
    BY <2>1, <2>2, <2>3 DEF KeysAndNull, Keys, ParentTable
<1>4. /\ reading'[g].class = c /\ reading'[g].course = db.classes[c].parent
      /\ reading'[g].own = {} /\ reading'[g].general = {} /\ reading'[g].subjects = {}
      /\ gpc'[g] = "modules" /\ plan'[g] = {} /\ reading' \in [Generators -> Reading]
  BY <1>2, <1>3 DEF PlanInv, NoReading, Reading
<1>5. PlanGood(g)'
  BY <1>1, <1>2, <1>3, <1>4 DEF PlanGood, Fresh, Live, Ids
<1> QED
  BY <1>2, <1>4, <1>5, OnePlan DEF PlanInv

(* The later reads add rows that are live to what the generation has. *)
LEMMA ReadPlans ==
    ASSUME DbInv, PlanInv, NEW g \in Generators,
           ReadCourseModules(g) \/ ReadGeneralModules(g) \/ ReadSubjects(g)
    PROVE  PlanInv'
<1>1. /\ UNCHANGED <<db, links, plan, timetable, unseen, touched>> /\ gpc[g] # "idle"
      /\ \A h \in Generators \ {g} : gpc'[h] = gpc[h] /\ reading'[h] = reading[h]
  BY DEF ReadCourseModules, ReadGeneralModules, ReadSubjects, GoOn, editVars, PlanInv
<1>2. /\ gpc' \in [Generators -> {"idle", "modules", "general", "subjects", "place"}]
      /\ gpc'[g] # "idle"
  BY DEF ReadCourseModules, ReadGeneralModules, ReadSubjects, GoOn, PlanInv
<1>3. Live("modules") \subseteq Nat /\ Live("subjects") \subseteq Nat
  BY TableFacts DEF Live, Tables
<1>4. reading[g] \in Reading
  BY DEF PlanInv
<1>5. PICK read :
         /\ reading' = [reading EXCEPT ![g] = read] /\ read \in Reading
         /\ read.class = reading[g].class /\ read.course = reading[g].course
         /\ read.own \subseteq reading[g].own \cup Live("modules")
         /\ read.general \subseteq reading[g].general \cup Live("modules")
         /\ read.subjects \subseteq reading[g].subjects \cup Live("subjects")
  <2>1. CASE ReadCourseModules(g)
    <3>1. PICK own : own = {m \in Live("modules") : db.modules[m].parent = reading[g].course}
      OBVIOUS
    <3>2. PICK read : read = [reading[g] EXCEPT !.own = own]
      OBVIOUS
    <3>3. reading' = [reading EXCEPT ![g] = read] /\ own \subseteq Live("modules")
      BY <2>1, <3>1, <3>2 DEF ReadCourseModules, GoOn
    <3>4. own \in SUBSET Nat
      BY <1>3, <3>3
    <3>5. /\ read \in Reading /\ read.own = own
          /\ read.class = reading[g].class /\ read.course = reading[g].course
          /\ read.general = reading[g].general /\ read.subjects = reading[g].subjects
      BY <1>4, <3>2, <3>4 DEF Reading
    <3> QED
      BY <3>3, <3>5
  <2>2. CASE ReadGeneralModules(g)
    <3>1. PICK general \in {GeneralModules, {}} : \E whole \in BOOLEAN : reading' =
             [reading EXCEPT ![g] = [reading[g] EXCEPT !.general = general, !.whole = whole]]
      BY <2>2 DEF ReadGeneralModules, GoOn
    <3>2. PICK whole \in BOOLEAN : \E read :
             /\ read = [reading[g] EXCEPT !.general = general, !.whole = whole]
             /\ reading' = [reading EXCEPT ![g] = read]
      BY <3>1
    <3>3. PICK read : /\ read = [reading[g] EXCEPT !.general = general, !.whole = whole]
                      /\ reading' = [reading EXCEPT ![g] = read]
      BY <3>2
    <3>4. general \subseteq Live("modules")
      BY DEF GeneralModules
    <3>5. general \in SUBSET Nat
      BY <1>3, <3>4
    <3>6. /\ read \in Reading /\ read.own = reading[g].own
          /\ read.class = reading[g].class /\ read.course = reading[g].course
          /\ read.general = general /\ read.subjects = reading[g].subjects
      BY <1>4, <3>3, <3>5 DEF Reading
    <3> QED
      BY <3>3, <3>4, <3>6
  <2>3. CASE ReadSubjects(g)
    <3>1. PICK read : read = [reading[g] EXCEPT !.subjects = Live("subjects")]
      OBVIOUS
    <3>2. reading' = [reading EXCEPT ![g] = read]
      BY <2>3, <3>1 DEF ReadSubjects, GoOn
    <3>3. /\ read \in Reading /\ read.own = reading[g].own
          /\ read.class = reading[g].class /\ read.course = reading[g].course
          /\ read.general = reading[g].general /\ read.subjects = Live("subjects")
      BY <1>3, <1>4, <3>1 DEF Reading
    <3> QED
      BY <3>2, <3>3
  <2> QED
    BY <2>1, <2>2, <2>3
<1>6. reading'[g] = read /\ reading' \in [Generators -> Reading]
  BY <1>5 DEF PlanInv
<1>7. PlanGood(g)'
  <2>1. PlanGood(g) /\ UNCHANGED <<db, links>> /\ plan'[g] = plan[g] /\ touched'[g] = touched[g]
    BY <1>1 DEF PlanInv
  <2>2. \A m \in Live("modules") : Fresh("modules", m, touched[g])
    BY DEF Fresh, Live
  <2>3. \A s \in Live("subjects") : Fresh("subjects", s, touched[g])
    BY DEF Fresh, Live
  <2>4. /\ Fresh("classes", read.class, touched[g]) /\ read.course \in Ids("courses")
        /\ \A m \in read.own \cup read.general : Fresh("modules", m, touched[g])
        /\ \A s \in read.subjects : Fresh("subjects", s, touched[g])
        /\ \A x \in plan[g] : Good(x, touched[g])
    BY <1>1, <1>5, <2>1, <2>2, <2>3 DEF PlanGood
  <2> QED
    BY <1>2, <1>6, <2>1, <2>4 DEF PlanGood, Good, Fresh, Live, Ids
<1> QED
  BY <1>1, <1>2, <1>6, <1>7, OnePlan DEF PlanInv

(* The session that is placed is one of the curriculum, with a teacher and a room that are live. *)
LEMMA SessionPlans ==
    ASSUME DbInv, PlanInv, NEW g \in Generators, ScheduleSession(g) PROVE PlanInv'
<1>1. /\ UNCHANGED <<db, links, timetable, unseen, touched, gpc, reading>> /\ gpc[g] # "idle"
  BY DEF ScheduleSession, editVars
<1>2. PICK next \in Left(g) :
         \E s \in Teachers(next[1], next[2]), room \in Live("rooms") :
            plan' = [plan EXCEPT ![g] = @ \cup
                {[kind |-> next[1], id |-> next[2], staff |-> s, room |-> room]}]
  <2>1. PICK next : next = CHOOSE x \in Left(g) : TRUE
    OBVIOUS
  <2>2. next \in Left(g)
    BY <2>1 DEF ScheduleSession
  <2> QED
    BY <2>1, <2>2 DEF ScheduleSession
<1>3. PICK s \in Teachers(next[1], next[2]), room \in Live("rooms") :
            plan' = [plan EXCEPT ![g] = @ \cup
                {[kind |-> next[1], id |-> next[2], staff |-> s, room |-> room]}]
  BY <1>2
<1>4. PICK kind, id :
         /\ next = <<kind, id>> /\ kind \in Kinds
         /\ kind = "own" => id \in reading[g].own
         /\ kind = "general" => id \in reading[g].general
         /\ kind = "subject" => id \in reading[g].subjects
  BY <1>2 DEF Left, Curriculum, Kinds
<1>5. PlanGood(g)
  BY DEF PlanInv
<1>6. Fresh(TableOf(kind), id, touched[g])
  BY <1>1, <1>4, <1>5 DEF PlanGood, TableOf, Kinds
<1>7. s \in Live("staff") /\ (kind # "subject" => <<s, id>> \in links)
  BY <1>3, <1>4 DEF Teachers
<1>8. id \in Nat /\ s \in Nat /\ room \in Nat
  <2>1. TableOf(kind) \in Tables
    BY DEF TableOf, Tables
  <2>2. id \in Ids(TableOf(kind)) /\ Ids(TableOf(kind)) \subseteq Nat
    BY <1>6, <2>1, TableFacts DEF Fresh
  <2> QED
    BY <1>7, <2>2, TableFacts DEF Live, Tables
<1>9. PICK x : x = [kind |-> kind, id |-> id, staff |-> s, room |-> room]
  OBVIOUS
<1>10. x \in Entry /\ x.kind = kind /\ x.id = id /\ x.staff = s /\ x.room = room
  BY <1>4, <1>8, <1>9 DEF Entry
<1>11. Good(x, touched[g])
  BY <1>6, <1>7, <1>10 DEF Good, Fresh, Live
<1>12. plan'[g] = plan[g] \cup {x} /\ DOMAIN plan' = Generators
       /\ \A h \in Generators \ {g} : plan'[h] = plan[h]
  <2>1. next[1] = kind /\ next[2] = id
    BY <1>4
  <2> QED
    BY <1>3, <1>9, <2>1 DEF PlanInv
<1>13. \A y \in plan'[g] : Good(y, touched[g])
  BY <1>1, <1>5, <1>11, <1>12 DEF PlanGood
<1>14. PlanGood(g)'
  BY <1>1, <1>5, <1>13 DEF PlanGood, Good, Fresh, Live, Ids
<1> QED
  BY <1>1, <1>12, <1>14, OnePlan DEF PlanInv

LEMMA EndedPlan ==
    ASSUME PlanInv, NEW g \in Generators, EndGeneration(g)
    PROVE  /\ PlanGood(g)' /\ reading' \in [Generators -> Reading]
           /\ gpc' \in [Generators -> {"idle", "modules", "general", "subjects", "place"}]
           /\ DOMAIN plan' = Generators /\ DOMAIN touched' = Generators
           /\ \A h \in Generators \ {g} : /\ gpc'[h] = gpc[h] /\ reading'[h] = reading[h]
                                          /\ plan'[h] = plan[h] /\ touched'[h] = touched[h]
           /\ UNCHANGED <<db, links>>
BY DEF EndGeneration, PlanInv, PlanGood, NoReading, Reading, NoRow, editVars

LEMMA FailurePlans == ASSUME PlanInv, NEW g \in Generators, GenerationFails(g) PROVE PlanInv'
<1>1. EndGeneration(g) /\ UNCHANGED <<timetable, unseen>>
  BY DEF GenerationFails
<1> QED
  BY <1>1, EndedPlan, OnePlan

LEMMA ReplacePlans == ASSUME PlanInv, NEW g \in Generators, ReplaceClassTimetable(g) PROVE PlanInv'
<1>1. PICK c : c = reading[g].class
  OBVIOUS
<1>2. /\ gpc[g] = "place" /\ EndGeneration(g)
      /\ DOMAIN timetable' = DOMAIN timetable \cup {c} /\ DOMAIN unseen' = DOMAIN unseen \cup {c}
      /\ timetable'[c].entries = plan[g] /\ unseen'[c] = touched[g]
      /\ \A d \in DOMAIN timetable \ {c} : timetable'[d] = timetable[d] /\ unseen'[d] = unseen[d]
  BY <1>1 DEF ReplaceClassTimetable, PlanInv
<1>3. UNCHANGED <<db, links>> /\ \A h \in Generators : PlanGood(h)'
  BY <1>2, EndedPlan, PlanGoodKept DEF PlanInv
<1>4. Fresh("classes", c, touched[g]) /\ \A x \in plan[g] : Good(x, touched[g])
  BY <1>1, <1>2 DEF PlanInv, PlanGood
<1>5. TimetableGood(c)'
  BY <1>2, <1>3, <1>4 DEF TimetableGood, Good, Fresh, Live, Ids
<1>6. \A d \in DOMAIN timetable \ {c} : TimetableGood(d)'
  BY <1>2, <1>3, TimetableGoodKept DEF PlanInv
<1> QED
  BY <1>2, <1>3, <1>5, <1>6, EndedPlan DEF PlanInv

(* The requests of administrators. *)
LEMMA EditPlans ==
    ASSUME AskedInv, PlanInv, Post \/ Remove \/ UnassignModule
    PROVE  PlanInv'
<1>1. CASE Post
  <2>1. PICK t \in Tables : Kept(t, Len(db[t]) + 1) /\ Wrote(t, Len(db[t]) + 1)
    BY <1>1, PostAsked
  <2>2. links' = links /\ UNCHANGED planVars
    BY <1>1 DEF Post, CreateFaculty, CreateCourse, CreateModule, CreateClass, CreateStaff,
                CreateRoom, CreateSubject, Create
  <2> QED
    BY <2>1, <2>2, WritePlans DEF LinksKept
<1>2. CASE Remove
  <2>1. PICK t \in Tables : Delete(t)
    BY <1>2, RemoveDeletes
  <2>2. \E i \in Ids(t) : Kept(t, i) /\ Wrote(t, i)
    BY <2>1, DeleteAsked
  <2>3. links' = links /\ UNCHANGED planVars
    BY <2>1 DEF Delete
  <2> QED
    BY <2>2, <2>3, WritePlans DEF LinksKept
<1>3. CASE UnassignModule
  <2>1. PICK pair \in links :
           /\ links' = links \ {pair} /\ Kept("staff", pair[1]) /\ Wrote("staff", pair[1])
    BY <1>3, UnassignAsked
  <2>2. UNCHANGED planVars
    BY <1>3 DEF UnassignModule
  <2>3. LinksKept("staff", pair[1])
    BY <2>1 DEF LinksKept
  <2> QED
    BY <2>1, <2>2, <2>3, WritePlans
<1> QED
  BY <1>1, <1>2, <1>3

LEMMA EditorPlans ==
    ASSUME AskedInv, PlanInv, NEW e \in Editors, Put(e) \/ Allocate(e) \/ EditFails(e)
    PROVE  PlanInv'
<1>1. CASE Save(e)
  <2>1. PICK t \in Tables : \E i \in Ids(t) : Kept(t, i) /\ Wrote(t, i)
    BY <1>1, SaveAsked
  <2>2. links' = links /\ UNCHANGED planVars
    BY <1>1 DEF Save
  <2> QED
    BY <2>1, <2>2, WritePlans DEF LinksKept
<1>2. CASE Assign(e)
  <2>1. PICK s \in Ids("staff") : Kept("staff", s) /\ Wrote("staff", s)
    BY <1>2, AssignAsked
  <2>2. links \subseteq links' /\ UNCHANGED planVars
    BY <1>2 DEF Assign
  <2> QED
    BY <2>1, <2>2, WritePlans DEF LinksKept
<1>3. CASE (\E t \in Tables : \E body \in Bodies(t) : Load(e, t, body)) \/ AssignModule(e) \/ EditFails(e)
  BY <1>3, SamePlans DEF Load, AssignModule, EditFails
<1> QED
  BY <1>1, <1>2, <1>3, PutLoads DEF Allocate

(***************************************************************************)
(* What all requests keep.                                                 *)
(***************************************************************************)
CatalogueInv == AskedInv /\ PlanInv

LEMMA CatalogueStart == Init => CatalogueInv
<1>1. ASSUME Init PROVE PlanInv
  BY <1>1 DEF Init, PlanInv, PlanGood, NoReading, Reading, NoRow
<1> QED
  BY <1>1, AskedStart DEF CatalogueInv

LEMMA CatalogueStep == CatalogueInv /\ [Next]_vars => CatalogueInv'
<1> SUFFICES ASSUME AskedInv, PlanInv, [Next]_vars PROVE PlanInv'
  BY AskedStep DEF CatalogueInv
<1>1. CASE Post \/ Remove \/ UnassignModule
  BY <1>1, EditPlans
<1>2. ASSUME NEW e \in Editors, Put(e) \/ Allocate(e) \/ EditFails(e) PROVE PlanInv'
  BY <1>2, EditorPlans
<1>3. ASSUME NEW g \in Generators, Generate(g) PROVE PlanInv'
  BY <1>3, ReadClassPlans, ReadPlans, SessionPlans, ReplacePlans, FailurePlans
     DEF Generate, AskedInv
<1>4. CASE UNCHANGED vars
  BY <1>4, SamePlans DEF vars, editVars, planVars
<1> QED
  BY <1>1, <1>2, <1>3, <1>4 DEF Next

(***************************************************************************)
(* The types of the catalogue: every foreign key, every link, every edit   *)
(* in flight and every entry of a timetable is of a row that exists.       *)
(***************************************************************************)
THEOREM CatalogueTypes == Spec => []TypeOK
<1>1. ASSUME CatalogueInv PROVE TypeOK
  <2>1. \A e \in Editors : epc[e] = "save" =>
          /\ edit[e].table \in Tables /\ edit[e].id \in Ids(edit[e].table)
          /\ {edit[e].old, edit[e].new} \subseteq Row
          /\ {edit[e].old.parent, edit[e].new.parent} \subseteq KeysAndNull(edit[e].table)
    <3> SUFFICES ASSUME NEW e \in Editors, epc[e] = "save"
                 PROVE  /\ edit[e].table \in Tables /\ edit[e].id \in Ids(edit[e].table)
                        /\ {edit[e].old, edit[e].new} \subseteq Row
                        /\ {edit[e].old.parent, edit[e].new.parent} \subseteq KeysAndNull(edit[e].table)
      OBVIOUS
    <3>1. edit[e] \in Edit /\ Loaded(e)
      BY <1>1 DEF CatalogueInv, AskedInv, EditInv
    <3>2. edit[e].table \in Tables /\ edit[e].old \in Row /\ edit[e].new \in Row
      BY <3>1 DEF Edit
    <3> QED
      BY <3>1, <3>2 DEF Loaded
  <2>2. \A g \in Generators : gpc[g] # "idle" =>
          /\ reading[g].class \in Ids("classes") /\ reading[g].course \in Ids("courses")
          /\ \A x \in plan[g] : x \in Entry /\ Stands(x)
    BY <1>1 DEF CatalogueInv, PlanInv, PlanGood, Good, Fresh, Stands
  <2>3. /\ DOMAIN timetable \subseteq Ids("classes")
        /\ \A c \in DOMAIN timetable : \A x \in timetable[c].entries : x \in Entry /\ Stands(x)
    BY <1>1 DEF CatalogueInv, PlanInv, TimetableGood, Good, Fresh, Stands
  <2> QED
    BY <1>1, <2>1, <2>2, <2>3 DEF TypeOK, CatalogueInv, AskedInv, DbInv, EditInv, PlanInv
<1> QED
  BY <1>1, CatalogueStart, CatalogueStep, PTL DEF Spec

(***************************************************************************)
(* An entry of a timetable names live rows and a teacher who is allocated  *)
(* to the module, except for rows that were written after its generation   *)
(* began: generateGreedy reads each of them once, and nothing looks again  *)
(* when the timetable is replaced or a row is deleted.                     *)
(***************************************************************************)
THEOREM EntriesAlwaysStand == Spec => []EntriesStand
<1>1. CatalogueInv => EntriesStand
  BY DEF CatalogueInv, PlanInv, TimetableGood, Good, Fresh, EntriesStand
<1> QED
  BY <1>1, CatalogueStart, CatalogueStep, PTL DEF Spec

-----------------------------------------------------------------------------
(* What is taught *)

(* The ids are those of the wanted rows, but for rows that are in written. *)
Agrees(t, ids, wanted, written) ==
    \A i \in Ids(t) : <<t, i>> \notin written => (i \in ids <=> i \in wanted)

CourseModules(c) == {m \in Live("modules") : db.modules[m].parent = db.classes[c].parent}

OwnRight(own, c, written) ==
    <<"classes", c>> \notin written => Agrees("modules", own, CourseModules(c), written)
GeneralRight(general, written) == Agrees("modules", general, GeneralModules, written)
SubjectsRight(subjects, written) == Agrees("subjects", subjects, Live("subjects"), written)

(* The table subjects counts only when there are no general modules. *)
ExtraRight(general, subjects, written) ==
    IF general = {} THEN SubjectsRight(subjects, written) ELSE subjects = {}

(* No module and no subject has two sessions. *)
Single(entries) == \A x, y \in entries : x.kind = y.kind /\ x.id = y.id => x = y

Named(entries, kind) == {x.id : x \in {y \in entries : y.kind = kind}}

(* What a generation has read by the time it goes on, and what it has placed of it. *)
PlanTaught(g) ==
    /\ gpc[g] # "place" => plan[g] = {}
    /\ gpc[g] # "idle" /\ <<"classes", reading[g].class>> \notin touched[g] =>
          reading[g].course = db.classes[reading[g].class].parent
    /\ gpc[g] \in {"general", "subjects", "place"} =>
          OwnRight(reading[g].own, reading[g].class, touched[g])
    /\ gpc[g] \in {"subjects", "place"} /\ reading[g].whole =>
          GeneralRight(reading[g].general, touched[g])
    /\ gpc[g] \in {"modules", "general", "subjects"} =>
          reading[g].general = {} /\ reading[g].subjects = {}
    /\ gpc[g] = "place" => ExtraRight(reading[g].general, reading[g].subjects, touched[g])
    /\ Single(plan[g])
    /\ \A x \in plan[g] : <<x.kind, x.id>> \in Curriculum(reading[g])

TimetableTaught(c) ==
    LET entries == timetable[c].entries
    IN  /\ Single(entries)
        /\ timetable[c].whole =>
              /\ OwnRight(Named(entries, "own"), c, unseen[c])
              /\ GeneralRight(Named(entries, "general"), unseen[c])
              /\ ExtraRight(Named(entries, "general"), Named(entries, "subject"), unseen[c])

(***************************************************************************)
(* CurriculumStored depends on what a generation has read of the rows that *)
(* nobody has written since.                                               *)
(***************************************************************************)
TaughtInv ==
    /\ \A g \in Generators : PlanTaught(g)
    /\ \A c \in DOMAIN timetable : TimetableTaught(c)

-----------------------------------------------------------------------------
(* A write of another row changes nothing for what was read; that row is not promised. *)
LEMMA RightsKept ==
    ASSUME NEW t, NEW i, Kept(t, i), NEW written
    PROVE  /\ \A own : \A c \in Ids("classes") :
                 OwnRight(own, c, written) => OwnRight(own, c, written \cup {<<t, i>>})'
           /\ \A general : GeneralRight(general, written)
                 => GeneralRight(general, written \cup {<<t, i>>})'
           /\ \A general, subjects : ExtraRight(general, subjects, written)
                 => ExtraRight(general, subjects, written \cup {<<t, i>>})'
<1>1. ASSUME NEW s \in Tables, NEW j \in Ids(s)', <<s, j>> \notin written \cup {<<t, i>>}
      PROVE  j \in Ids(s) /\ db'[s][j] = db[s][j]
  BY <1>1 DEF Kept
<1>2. ASSUME NEW own, NEW c \in Ids("classes"), OwnRight(own, c, written)
      PROVE  OwnRight(own, c, written \cup {<<t, i>>})'
  <2> SUFFICES ASSUME <<"classes", c>> \notin written \cup {<<t, i>>},
                      NEW m \in Ids("modules")', <<"modules", m>> \notin written \cup {<<t, i>>}
               PROVE  m \in own <=> m \in CourseModules(c)'
    BY DEF OwnRight, Agrees
  <2>1. db'["classes"][c] = db["classes"][c]
    BY DEF Kept, Tables
  <2>2. m \in Ids("modules") /\ db'["modules"][m] = db["modules"][m]
    BY <1>1 DEF Tables
  <2>3. m \in own <=> m \in CourseModules(c)
    BY <1>2, <2>2 DEF OwnRight, Agrees
  <2> QED
    BY <2>1, <2>2, <2>3 DEF CourseModules, Live
<1>3. ASSUME NEW general, GeneralRight(general, written)
      PROVE  GeneralRight(general, written \cup {<<t, i>>})'
  <2> SUFFICES ASSUME NEW m \in Ids("modules")', <<"modules", m>> \notin written \cup {<<t, i>>}
               PROVE  m \in general <=> m \in GeneralModules'
    BY DEF GeneralRight, Agrees
  <2>1. m \in Ids("modules") /\ db'["modules"][m] = db["modules"][m]
    BY <1>1 DEF Tables
  <2>2. m \in general <=> m \in GeneralModules
    BY <1>3, <2>1 DEF GeneralRight, Agrees
  <2> QED
    BY <2>1, <2>2 DEF GeneralModules, Live
<1>4. ASSUME NEW general, NEW subjects, ExtraRight(general, subjects, written)
      PROVE  ExtraRight(general, subjects, written \cup {<<t, i>>})'
  <2>1. CASE general # {}
    BY <1>4, <2>1 DEF ExtraRight
  <2>2. CASE general = {}
    <3> SUFFICES ASSUME NEW s \in Ids("subjects")', <<"subjects", s>> \notin written \cup {<<t, i>>}
                 PROVE  s \in subjects <=> s \in Live("subjects")'
      BY <2>2 DEF ExtraRight, SubjectsRight, Agrees
    <3>1. s \in Ids("subjects") /\ db'["subjects"][s] = db["subjects"][s]
      BY <1>1 DEF Tables
    <3>2. s \in subjects <=> s \in Live("subjects")
      BY <1>4, <2>2, <3>1 DEF ExtraRight, SubjectsRight, Agrees
    <3> QED
      BY <3>1, <3>2 DEF Live
  <2> QED
    BY <2>1, <2>2
<1> QED
  BY <1>2, <1>3, <1>4

(* While no row is written, what was read stays right. *)
LEMMA RightsStay ==
    ASSUME UNCHANGED db, NEW written
    PROVE  /\ \A own, c : OwnRight(own, c, written) => OwnRight(own, c, written)'
           /\ \A general : GeneralRight(general, written) => GeneralRight(general, written)'
           /\ \A general, subjects :
                 ExtraRight(general, subjects, written) => ExtraRight(general, subjects, written)'
BY DEF OwnRight, GeneralRight, ExtraRight, SubjectsRight, Agrees, CourseModules, GeneralModules,
       Live, Ids

LEMMA WriteTaught ==
    ASSUME PlanInv, TaughtInv, NEW t, NEW i, Kept(t, i), Wrote(t, i), UNCHANGED planVars
    PROVE  TaughtInv'
<1>1. /\ UNCHANGED <<gpc, reading, plan, timetable>>
      /\ DOMAIN touched' = Generators /\ DOMAIN unseen' = DOMAIN unseen
      /\ \A g \in Generators : gpc[g] # "idle" => touched'[g] = touched[g] \cup {<<t, i>>}
      /\ \A c \in DOMAIN unseen : unseen'[c] = unseen[c] \cup {<<t, i>>}
  BY DEF planVars, Wrote
<1>2. ASSUME NEW g \in Generators PROVE PlanTaught(g)'
  <2>1. PICK read, written : read = reading[g] /\ written = touched[g]
    OBVIOUS
  <2>2. PlanTaught(g) /\ PlanGood(g)
    BY DEF TaughtInv, PlanInv
  <2>3. CASE gpc[g] = "idle"
    BY <1>1, <2>2, <2>3 DEF PlanTaught, Single, Curriculum
  <2>4. CASE gpc[g] # "idle"
    <3>1. touched'[g] = written \cup {<<t, i>>} /\ reading'[g] = read
      BY <1>1, <2>1, <2>4
    <3>2. read.class \in Ids("classes")
      BY <2>1, <2>2, <2>4 DEF PlanGood, Fresh
    <3>3. <<"classes", read.class>> \notin written \cup {<<t, i>>} =>
             read.course = db'.classes[read.class].parent
      <4>1. <<"classes", read.class>> # <<t, i>> =>
               db'["classes"][read.class] = db["classes"][read.class]
        BY <3>2 DEF Kept, Tables
      <4> QED
        BY <2>1, <2>2, <2>4, <4>1 DEF PlanTaught
    <3>4. gpc[g] \in {"general", "subjects", "place"} =>
             OwnRight(read.own, read.class, written \cup {<<t, i>>})'
      BY <2>1, <2>2, <3>2, RightsKept DEF PlanTaught
    <3>5. gpc[g] \in {"subjects", "place"} /\ read.whole =>
             GeneralRight(read.general, written \cup {<<t, i>>})'
      BY <2>1, <2>2, RightsKept DEF PlanTaught
    <3>6. gpc[g] = "place" => ExtraRight(read.general, read.subjects, written \cup {<<t, i>>})'
      BY <2>1, <2>2, RightsKept DEF PlanTaught
    <3>7. /\ gpc'[g] = gpc[g] /\ plan'[g] = plan[g]
          /\ gpc[g] # "place" => plan[g] = {}
          /\ gpc[g] \in {"modules", "general", "subjects"} =>
                read.general = {} /\ read.subjects = {}
          /\ Single(plan[g])
          /\ \A x \in plan[g] : <<x.kind, x.id>> \in Curriculum(read)
      BY <1>1, <2>1, <2>2 DEF PlanTaught
    <3>8. PICK more : more = written \cup {<<t, i>>}
      OBVIOUS
    <3>9. /\ gpc[g] \in {"general", "subjects", "place"} => OwnRight(reading[g].own, reading[g].class, touched[g])'
          /\ gpc[g] \in {"subjects", "place"} /\ read.whole => GeneralRight(reading[g].general, touched[g])'
          /\ gpc[g] = "place" => ExtraRight(reading[g].general, reading[g].subjects, touched[g])'
      <4>1. touched'[g] = more /\ reading'[g] = read
        BY <3>1, <3>8
      <4>2. gpc[g] \in {"general", "subjects", "place"} => OwnRight(read.own, read.class, more)'
        BY <3>4, <3>8
      <4>3. gpc[g] \in {"subjects", "place"} /\ read.whole => GeneralRight(read.general, more)'
        BY <3>5, <3>8
      <4>4. gpc[g] = "place" => ExtraRight(read.general, read.subjects, more)'
        BY <3>6, <3>8
      <4> QED
        BY <4>1, <4>2, <4>3, <4>4
           DEF OwnRight, GeneralRight, ExtraRight, SubjectsRight, Agrees, CourseModules
    <3> QED
      BY <3>1, <3>3, <3>7, <3>9 DEF PlanTaught, Single, Curriculum
  <2> QED
    BY <2>3, <2>4
<1>3. ASSUME NEW c \in DOMAIN timetable PROVE TimetableTaught(c)'
  <2>1. PICK entries, written : entries = timetable[c].entries /\ written = unseen[c]
    OBVIOUS
  <2>2. TimetableTaught(c) /\ c \in Ids("classes")
    BY DEF TaughtInv, PlanInv, TimetableGood, Fresh
  <2>3. PICK more : more = written \cup {<<t, i>>}
    OBVIOUS
  <2>4. unseen'[c] = more /\ timetable'[c] = timetable[c]
    BY <1>1, <2>1, <2>3 DEF PlanInv
  <2>5. PICK own, general, subjects :
           /\ own = Named(entries, "own") /\ general = Named(entries, "general")
           /\ subjects = Named(entries, "subject")
    OBVIOUS
  <2>6. timetable[c].whole => /\ OwnRight(own, c, more)' /\ GeneralRight(general, more)'
                              /\ ExtraRight(general, subjects, more)'
    BY <2>1, <2>2, <2>3, <2>5, RightsKept DEF TimetableTaught
  <2>7. Single(entries)
    BY <2>1, <2>2 DEF TimetableTaught
  <2>8. /\ Named(timetable[c].entries, "own")' = own
        /\ Named(timetable[c].entries, "general")' = general
        /\ Named(timetable[c].entries, "subject")' = subjects
        /\ Single(timetable[c].entries)'
    BY <2>1, <2>4, <2>5, <2>7 DEF Named, Single
  <2> QED
    BY <2>4, <2>6, <2>8
       DEF TimetableTaught, OwnRight, GeneralRight, ExtraRight, SubjectsRight, Agrees, CourseModules
<1> QED
  BY <1>1, <1>2, <1>3 DEF TaughtInv

(* A generation that does nothing, and a timetable that stays, while no row is written. *)
LEMMA PlanTaughtKept ==
    ASSUME UNCHANGED db, NEW g \in Generators, PlanTaught(g),
           gpc'[g] = gpc[g], reading'[g] = reading[g], plan'[g] = plan[g], touched'[g] = touched[g]
    PROVE  PlanTaught(g)'
BY DEF PlanTaught, OwnRight, GeneralRight, ExtraRight, SubjectsRight, Agrees, CourseModules,
       GeneralModules, Live, Ids, Single, Curriculum

LEMMA TimetableTaughtKept ==
    ASSUME UNCHANGED db, NEW c, TimetableTaught(c),
           timetable'[c] = timetable[c], unseen'[c] = unseen[c]
    PROVE  TimetableTaught(c)'
BY DEF TimetableTaught, OwnRight, GeneralRight, ExtraRight, SubjectsRight, Agrees, CourseModules,
       GeneralModules, Live, Ids, Single, Named

LEMMA SameTaught ==
    ASSUME TaughtInv, UNCHANGED <<db, planVars, touched, unseen>> PROVE TaughtInv'
<1>1. UNCHANGED db /\ UNCHANGED <<gpc, reading, plan, timetable, touched, unseen>>
  BY DEF planVars
<1>2. \A g \in Generators : PlanTaught(g)'
  BY <1>1, PlanTaughtKept DEF TaughtInv
<1>3. \A c \in DOMAIN timetable : TimetableTaught(c)'
  BY <1>1, TimetableTaughtKept DEF TaughtInv
<1> QED
  BY <1>1, <1>2, <1>3 DEF TaughtInv

LEMMA OneTaught ==
    ASSUME TaughtInv, UNCHANGED <<db, timetable, unseen>>, NEW g \in Generators, PlanTaught(g)',
           \A h \in Generators \ {g} : /\ gpc'[h] = gpc[h] /\ reading'[h] = reading[h]
                                       /\ plan'[h] = plan[h] /\ touched'[h] = touched[h]
    PROVE  TaughtInv'
<1>1. \A h \in Generators : PlanTaught(h)'
  BY PlanTaughtKept DEF TaughtInv
<1>2. \A c \in DOMAIN timetable : TimetableTaught(c)'
  BY TimetableTaughtKept DEF TaughtInv
<1> QED
  BY <1>1, <1>2 DEF TaughtInv

(* What is read is right when it is read. *)
LEMMA ReadTaught ==
    ASSUME PlanInv, TaughtInv, NEW g \in Generators,
           \/ ReadClass(g) \/ ReadCourseModules(g) \/ ReadGeneralModules(g) \/ ReadSubjects(g)
    PROVE  TaughtInv'
<1>0. /\ UNCHANGED <<db, plan, timetable, unseen>> /\ reading[g] \in Reading
      /\ PlanTaught(g) /\ (gpc[g] = "idle" => plan[g] = {})
  BY DEF ReadClass, ReadCourseModules, ReadGeneralModules, ReadSubjects, GoOn, editVars, PlanInv,
         TaughtInv, PlanGood
<1>1. CASE ReadClass(g)
  <2>1. PICK c \in Live("classes") :
           GoOn(g, "modules", [NoReading EXCEPT !.class = c, !.course = db.classes[c].parent])
    BY <1>1 DEF ReadClass
  <2>2. /\ gpc' = [gpc EXCEPT ![g] = "modules"]
        /\ reading' = [reading EXCEPT ![g] = [NoReading EXCEPT !.class = c, !.course = db.classes[c].parent]]
        /\ touched' = [touched EXCEPT ![g] = {}] /\ gpc[g] = "idle"
    BY <1>1, <2>1 DEF ReadClass, GoOn
  <2>3. /\ reading'[g].class = c /\ reading'[g].course = db.classes[c].parent
        /\ reading'[g].general = {} /\ reading'[g].subjects = {}
        /\ gpc'[g] = "modules" /\ plan'[g] = {}
    BY <1>0, <2>2 DEF PlanInv, NoReading
  <2>4. PlanTaught(g)'
    BY <1>0, <2>3 DEF PlanTaught, Single
  <2> QED
    BY <1>0, <2>2, <2>4, OneTaught DEF PlanInv
<1>2. CASE ReadCourseModules(g)
  <2>1. PICK own : own = {m \in Live("modules") : db.modules[m].parent = reading[g].course}
    OBVIOUS
  <2>2. PICK read : read = [reading[g] EXCEPT !.own = own]
    OBVIOUS
  <2>3. /\ gpc[g] = "modules" /\ gpc' = [gpc EXCEPT ![g] = "general"] /\ UNCHANGED touched
        /\ reading' = [reading EXCEPT ![g] = read]
    BY <1>2, <2>1, <2>2 DEF ReadCourseModules, GoOn
  <2>4. /\ read.own = own /\ read.class = reading[g].class /\ read.course = reading[g].course
        /\ read.general = {} /\ read.subjects = {}
    BY <1>0, <2>2, <2>3 DEF Reading, PlanTaught
  <2>5. gpc'[g] = "general" /\ plan'[g] = {} /\ reading'[g] = read /\ touched'[g] = touched[g]
    BY <1>0, <2>3 DEF PlanInv, PlanTaught
  <2>6. OwnRight(read.own, read.class, touched[g])
    BY <1>0, <2>1, <2>3, <2>4 DEF OwnRight, Agrees, CourseModules, PlanTaught
  <2>7. OwnRight(reading[g].own, reading[g].class, touched[g])'
    BY <1>0, <2>5, <2>6 DEF OwnRight, Agrees, CourseModules, Live, Ids
  <2>8. PlanTaught(g)'
    BY <1>0, <2>3, <2>4, <2>5, <2>7 DEF PlanTaught, Single
  <2> QED
    BY <1>0, <2>3, <2>8, OneTaught DEF PlanInv
<1>3. CASE ReadGeneralModules(g)
  <2>0. PICK general \in {GeneralModules, {}} :
           GoOn(g, IF general = {} THEN "subjects" ELSE "place",
                [reading[g] EXCEPT !.general = general, !.whole = (general = GeneralModules)])
    BY <1>3 DEF ReadGeneralModules
  <2>1. PICK whole, read :
           /\ whole = (general = GeneralModules)
           /\ read = [reading[g] EXCEPT !.general = general, !.whole = whole]
           /\ GoOn(g, IF general = {} THEN "subjects" ELSE "place", read)
    BY <2>0
  <2>2. /\ gpc[g] = "general" /\ gpc' = [gpc EXCEPT ![g] = IF general = {} THEN "subjects" ELSE "place"]
        /\ UNCHANGED touched /\ reading' = [reading EXCEPT ![g] = read]
    BY <1>3, <2>1 DEF ReadGeneralModules, GoOn
  <2>3. /\ read.own = reading[g].own /\ read.class = reading[g].class
        /\ read.course = reading[g].course
        /\ read.general = general /\ read.subjects = {} /\ read.whole = whole
    BY <1>0, <2>1, <2>2 DEF Reading, PlanTaught
  <2>4. /\ gpc'[g] = IF general = {} THEN "subjects" ELSE "place"
        /\ plan'[g] = {} /\ reading'[g] = read /\ touched'[g] = touched[g]
    BY <1>0, <2>2 DEF PlanInv, PlanTaught
  <2>5. OwnRight(reading[g].own, reading[g].class, touched[g])'
    BY <1>0, <2>2, <2>3, <2>4 DEF PlanTaught, OwnRight, Agrees, CourseModules, Live, Ids
  <2>6. whole => GeneralRight(general, touched[g])
    BY <2>1 DEF GeneralRight, Agrees
  <2>7. whole => GeneralRight(reading[g].general, touched[g])'
    BY <1>0, <2>3, <2>4, <2>6 DEF GeneralRight, Agrees, GeneralModules, Live, Ids
  <2>8. general # {} => ExtraRight(reading[g].general, reading[g].subjects, touched[g])'
    BY <2>3, <2>4 DEF ExtraRight
  <2>9. PlanTaught(g)'
    BY <1>0, <2>2, <2>3, <2>4, <2>5, <2>7, <2>8 DEF PlanTaught, Single
  <2> QED
    BY <1>0, <2>2, <2>9, OneTaught DEF PlanInv
<1>4. CASE ReadSubjects(g)
  <2>1. PICK read : read = [reading[g] EXCEPT !.subjects = Live("subjects")]
    OBVIOUS
  <2>2. /\ gpc[g] = "subjects" /\ gpc' = [gpc EXCEPT ![g] = "place"] /\ UNCHANGED touched
        /\ reading' = [reading EXCEPT ![g] = read]
    BY <1>4, <2>1 DEF ReadSubjects, GoOn
  <2>3. /\ read.own = reading[g].own /\ read.class = reading[g].class
        /\ read.course = reading[g].course
        /\ read.general = {} /\ read.subjects = Live("subjects") /\ read.whole = reading[g].whole
    BY <1>0, <2>1, <2>2 DEF Reading, PlanTaught
  <2>4. gpc'[g] = "place" /\ plan'[g] = {} /\ reading'[g] = read /\ touched'[g] = touched[g]
    BY <1>0, <2>2 DEF PlanInv, PlanTaught
  <2>5. OwnRight(reading[g].own, reading[g].class, touched[g])'
    BY <1>0, <2>2, <2>3, <2>4 DEF PlanTaught, OwnRight, Agrees, CourseModules, Live, Ids
  <2>6. read.whole => GeneralRight(reading[g].general, touched[g])'
    <3>1. reading[g].general = {} /\ (read.whole => GeneralRight(reading[g].general, touched[g]))
      BY <1>0, <2>2, <2>3 DEF PlanTaught
    <3> QED
      BY <1>0, <2>3, <2>4, <3>1 DEF GeneralRight, Agrees, GeneralModules, Live, Ids
  <2>7. ExtraRight(reading[g].general, reading[g].subjects, touched[g])'
    BY <1>0, <2>3, <2>4 DEF ExtraRight, SubjectsRight, Agrees, Live, Ids
  <2>8. PlanTaught(g)'
    BY <1>0, <2>2, <2>3, <2>4, <2>5, <2>6, <2>7 DEF PlanTaught, Single
  <2> QED
    BY <1>0, <2>2, <2>8, OneTaught DEF PlanInv
<1> QED
  BY <1>1, <1>2, <1>3, <1>4

(* A session is placed once. *)
LEMMA SessionTaught ==
    ASSUME PlanInv, TaughtInv, NEW g \in Generators, ScheduleSession(g) PROVE TaughtInv'
<1>1. UNCHANGED <<db, timetable, unseen, touched, gpc, reading>> /\ gpc[g] = "place"
  BY DEF ScheduleSession, editVars
<1>2. PICK next \in Left(g) : \E s, room :
            plan' = [plan EXCEPT ![g] = @ \cup
                {[kind |-> next[1], id |-> next[2], staff |-> s, room |-> room]}]
  <2>1. PICK next : next = CHOOSE x \in Left(g) : TRUE
    OBVIOUS
  <2>2. next \in Left(g)
    BY <2>1 DEF ScheduleSession
  <2> QED
    BY <2>1, <2>2 DEF ScheduleSession
<1>3. PICK kind, id : next = <<kind, id>>
  BY <1>2 DEF Left, Curriculum
<1>4. PICK x : /\ x.kind = kind /\ x.id = id
               /\ plan' = [plan EXCEPT ![g] = plan[g] \cup {x}]
  <2>1. PICK s, room :
            plan' = [plan EXCEPT ![g] = plan[g] \cup
                {[kind |-> next[1], id |-> next[2], staff |-> s, room |-> room]}]
    BY <1>2 DEF PlanInv
  <2>2. PICK x : x = [kind |-> kind, id |-> id, staff |-> s, room |-> room]
    OBVIOUS
  <2>3. plan' = [plan EXCEPT ![g] = plan[g] \cup {x}]
    BY <1>3, <2>1, <2>2
  <2>4. x.kind = kind /\ x.id = id
    BY <2>2
  <2> QED
    BY <2>3, <2>4
<1>5. plan'[g] = plan[g] \cup {x} /\ \A h \in Generators \ {g} : plan'[h] = plan[h]
  BY <1>4 DEF PlanInv
<1>6. /\ <<kind, id>> \in Curriculum(reading[g])
      /\ \A y \in plan[g] : ~(y.kind = kind /\ y.id = id)
  BY <1>2, <1>3 DEF Left
<1>7. PlanTaught(g)
  BY DEF TaughtInv
<1>8. Single(plan[g])'
  BY <1>4, <1>5, <1>6, <1>7 DEF PlanTaught, Single
<1>9. \A y \in plan'[g] : <<y.kind, y.id>> \in Curriculum(reading[g])'
  BY <1>1, <1>4, <1>5, <1>6, <1>7 DEF PlanTaught, Curriculum
<1>10. PlanTaught(g)'
  BY <1>1, <1>7, <1>8, <1>9
     DEF PlanTaught, OwnRight, GeneralRight, ExtraRight, SubjectsRight, Agrees, CourseModules,
         GeneralModules, Live, Ids
<1> QED
  BY <1>1, <1>5, <1>10, OneTaught

LEMMA EndedTaught ==
    ASSUME PlanInv, NEW g \in Generators, EndGeneration(g)
    PROVE  /\ PlanTaught(g)'
           /\ \A h \in Generators \ {g} : /\ gpc'[h] = gpc[h] /\ reading'[h] = reading[h]
                                          /\ plan'[h] = plan[h] /\ touched'[h] = touched[h]
           /\ UNCHANGED db
<1>1. gpc'[g] = "idle" /\ plan'[g] = {} /\ UNCHANGED db
  BY DEF EndGeneration, PlanInv, editVars
<1>2. PlanTaught(g)'
  BY <1>1 DEF PlanTaught, Single
<1> QED
  BY <1>1, <1>2 DEF EndGeneration, PlanInv

(* What is stored is what was read. *)
LEMMA ReplaceTaught ==
    ASSUME PlanInv, TaughtInv, NEW g \in Generators, ReplaceClassTimetable(g) PROVE TaughtInv'
<1>1. PICK c : c = reading[g].class
  OBVIOUS
<1>2. /\ gpc[g] = "place" /\ EndGeneration(g) /\ Left(g) = {}
      /\ DOMAIN timetable' = DOMAIN timetable \cup {c} /\ DOMAIN unseen' = DOMAIN unseen \cup {c}
      /\ timetable'[c].entries = plan[g] /\ unseen'[c] = touched[g]
      /\ timetable'[c].whole = reading[g].whole
      /\ \A d \in DOMAIN timetable \ {c} : timetable'[d] = timetable[d] /\ unseen'[d] = unseen[d]
  BY <1>1 DEF ReplaceClassTimetable, PlanInv
<1>3. UNCHANGED db /\ \A h \in Generators : PlanTaught(h)'
  BY <1>2, EndedTaught, PlanTaughtKept DEF TaughtInv
<1>4. PlanTaught(g)
  BY DEF TaughtInv
<1>5. /\ Named(plan[g], "own") = reading[g].own
      /\ Named(plan[g], "general") = reading[g].general
      /\ Named(plan[g], "subject") = reading[g].subjects
  <2>1. \A id : /\ <<"own", id>> \in Curriculum(reading[g]) <=> id \in reading[g].own
                /\ <<"general", id>> \in Curriculum(reading[g]) <=> id \in reading[g].general
                /\ <<"subject", id>> \in Curriculum(reading[g]) <=> id \in reading[g].subjects
    BY DEF Curriculum
  <2>2. \A x \in plan[g] : <<x.kind, x.id>> \in Curriculum(reading[g])
    BY <1>4 DEF PlanTaught
  <2>3. \A z \in Curriculum(reading[g]) : \E x \in plan[g] : z = <<x.kind, x.id>>
    BY <1>2 DEF Left
  <2>4. \A kind, id : <<kind, id>> \in Curriculum(reading[g]) <=>
                         \E x \in plan[g] : x.kind = kind /\ x.id = id
    BY <2>2, <2>3
  <2>5. ASSUME NEW kind, NEW id
        PROVE  id \in Named(plan[g], kind) <=> <<kind, id>> \in Curriculum(reading[g])
    <3>1. id \in Named(plan[g], kind) <=> \E x \in plan[g] : x.kind = kind /\ x.id = id
      BY DEF Named
    <3> QED
      BY <2>4, <3>1
  <2>6. \A id : /\ id \in Named(plan[g], "own") <=> id \in reading[g].own
                /\ id \in Named(plan[g], "general") <=> id \in reading[g].general
                /\ id \in Named(plan[g], "subject") <=> id \in reading[g].subjects
    BY <2>1, <2>5
  <2> QED
    BY <2>6
<1>6. TimetableTaught(c)'
  <2>1. PICK entries, written : entries = plan[g] /\ written = touched[g]
    OBVIOUS
  <2>2. PICK own, general, subjects :
           /\ own = Named(entries, "own") /\ general = Named(entries, "general")
           /\ subjects = Named(entries, "subject")
    OBVIOUS
  <2>3. /\ Single(entries)
        /\ reading[g].whole => /\ OwnRight(own, c, written) /\ GeneralRight(general, written)
                               /\ ExtraRight(general, subjects, written)
    BY <1>1, <1>2, <1>4, <1>5, <2>1, <2>2 DEF PlanTaught
  <2>4. reading[g].whole => /\ OwnRight(own, c, written)' /\ GeneralRight(general, written)'
                            /\ ExtraRight(general, subjects, written)'
    BY <1>3, <2>3, RightsStay
  <2>5. /\ Named(timetable[c].entries, "own")' = own
        /\ Named(timetable[c].entries, "general")' = general
        /\ Named(timetable[c].entries, "subject")' = subjects
        /\ Single(timetable[c].entries)'
        /\ unseen'[c] = written /\ timetable'[c].whole = reading[g].whole
    BY <1>2, <2>1, <2>2, <2>3 DEF Named, Single
  <2> QED
    BY <2>4, <2>5
       DEF TimetableTaught, OwnRight, GeneralRight, ExtraRight, SubjectsRight, Agrees, CourseModules
<1>7. \A d \in DOMAIN timetable \ {c} : TimetableTaught(d)'
  BY <1>2, <1>3, TimetableTaughtKept DEF TaughtInv
<1> QED
  BY <1>2, <1>3, <1>6, <1>7 DEF TaughtInv

LEMMA TaughtStep == CatalogueInv /\ TaughtInv /\ [Next]_vars => TaughtInv'
<1> SUFFICES ASSUME AskedInv, PlanInv, TaughtInv, [Next]_vars PROVE TaughtInv'
  BY DEF CatalogueInv
<1>1. CASE Post
  <2>1. PICK t \in Tables : Kept(t, Len(db[t]) + 1) /\ Wrote(t, Len(db[t]) + 1)
    BY <1>1, PostAsked
  <2>2. UNCHANGED planVars
    BY <1>1 DEF Post, CreateFaculty, CreateCourse, CreateModule, CreateClass, CreateStaff,
                CreateRoom, CreateSubject, Create
  <2> QED
    BY <2>1, <2>2, WriteTaught
<1>2. CASE Remove
  <2>1. PICK t \in Tables : Delete(t)
    BY <1>2, RemoveDeletes
  <2>2. UNCHANGED planVars
    BY <2>1 DEF Delete
  <2> QED
    BY <2>1, <2>2, DeleteAsked, WriteTaught
<1>3. CASE UnassignModule
  BY <1>3, UnassignAsked, WriteTaught DEF UnassignModule
<1>4. ASSUME NEW e \in Editors, Put(e) \/ Allocate(e) \/ EditFails(e) PROVE TaughtInv'
  <2>1. CASE Save(e)
    BY <2>1, SaveAsked, WriteTaught DEF Save
  <2>2. CASE Assign(e)
    BY <2>2, AssignAsked, WriteTaught DEF Assign
  <2>3. CASE (\E t \in Tables : \E body \in Bodies(t) : Load(e, t, body)) \/ AssignModule(e) \/ EditFails(e)
    BY <2>3, SameTaught DEF Load, AssignModule, EditFails
  <2> QED
    BY <1>4, <2>1, <2>2, <2>3, PutLoads DEF Allocate
<1>5. ASSUME NEW g \in Generators, Generate(g) PROVE TaughtInv'
  <2>1. CASE GenerationFails(g)
    BY <2>1, EndedTaught, OneTaught DEF GenerationFails
  <2> QED
    BY <1>5, <2>1, ReadTaught, SessionTaught, ReplaceTaught DEF Generate
<1>6. CASE UNCHANGED vars
  BY <1>6, SameTaught DEF vars, editVars, planVars
<1> QED
  BY <1>1, <1>2, <1>3, <1>4, <1>5, <1>6 DEF Next

(* The one session of a module or subject, if it has one. *)
LEMMA SessionsOf ==
    ASSUME NEW entries, Single(entries), NEW kind, NEW id
    PROVE  Cardinality({x \in entries : x.kind \in {kind} /\ x.id = id})
              = IF id \in Named(entries, kind) THEN 1 ELSE 0
<1>1. CASE id \in Named(entries, kind)
  <2>1. PICK x \in entries : x.kind = kind /\ x.id = id
    BY <1>1 DEF Named
  <2>2. {y \in entries : y.kind \in {kind} /\ y.id = id} = {x}
    BY <2>1 DEF Single
  <2> QED
    BY <1>1, <2>2, FS_Singleton
<1>2. CASE id \notin Named(entries, kind)
  <2>1. {y \in entries : y.kind \in {kind} /\ y.id = id} = {}
    BY <1>2 DEF Named
  <2> QED
    BY <1>2, <2>1, FS_EmptySet
<1> QED
  BY <1>1, <1>2

(***************************************************************************)
(* For every catalogue, every number of editors and of generations: of the *)
(* rows that nobody has written since its generation began, a timetable    *)
(* has each module of the course and each module without a course once,    *)
(* and the subjects only without such modules, unless the error of that    *)
(* read was dropped.                                                       *)
(***************************************************************************)
THEOREM CurriculumIsStored == Spec => []CurriculumStored
<1>1. CatalogueInv /\ TaughtInv => CurriculumStored
  <2> SUFFICES ASSUME DbInv, PlanInv, TaughtInv, NEW c \in DOMAIN timetable,
                      timetable[c].whole, <<"classes", c>> \notin unseen[c]
               PROVE  LET Of(kinds, id) == {x \in timetable[c].entries : x.kind \in kinds /\ x.id = id}
                          general == \E x \in timetable[c].entries : x.kind = "general"
                      IN  /\ \A m \in Ids("modules") : <<"modules", m>> \notin unseen[c] =>
                                Cardinality(Of({"own", "general"}, m)) =
                                   IF /\ m \in Live("modules")
                                      /\ db.modules[m].parent \in {NoRow, db.classes[c].parent}
                                   THEN 1 ELSE 0
                          /\ \A s \in Ids("subjects") : <<"subjects", s>> \notin unseen[c] =>
                                Cardinality(Of({"subject"}, s)) =
                                   IF s \in Live("subjects") /\ ~general THEN 1 ELSE 0
    BY DEF CurriculumStored, CatalogueInv, AskedInv
  <2>1. PICK entries, written : entries = timetable[c].entries /\ written = unseen[c]
    OBVIOUS
  <2>2. /\ Single(entries) /\ OwnRight(Named(entries, "own"), c, written)
        /\ GeneralRight(Named(entries, "general"), written)
        /\ ExtraRight(Named(entries, "general"), Named(entries, "subject"), written)
    BY <2>1 DEF TaughtInv, TimetableTaught
  <2>3. db.classes[c].parent # NoRow
    <3>1. c \in Ids("classes")
      BY DEF PlanInv, TimetableGood, Fresh
    <3>2. db["classes"][c].parent \in KeysAndNull("classes")
      BY <3>1 DEF DbInv, Tables
    <3>3. Ids("courses") = 1..Len(db["courses"])
      BY TableFacts DEF Tables
    <3> QED
      BY <3>2, <3>3 DEF KeysAndNull, Keys, ParentTable, NoRow
  <2>4. ASSUME NEW m \in Ids("modules"), <<"modules", m>> \notin written
        PROVE  Cardinality({x \in entries : x.kind \in {"own", "general"} /\ x.id = m}) =
                  IF m \in Live("modules") /\ db.modules[m].parent \in {NoRow, db.classes[c].parent}
                  THEN 1 ELSE 0
    <3>1. /\ m \in Named(entries, "own") <=>
                m \in Live("modules") /\ db.modules[m].parent = db.classes[c].parent
          /\ m \in Named(entries, "general") <=>
                m \in Live("modules") /\ db.modules[m].parent = NoRow
      BY <2>1, <2>2, <2>4 DEF OwnRight, GeneralRight, Agrees, CourseModules, GeneralModules
    <3>2. CASE m \notin Named(entries, "own")
      <4>1. {x \in entries : x.kind \in {"own", "general"} /\ x.id = m}
               = {x \in entries : x.kind \in {"general"} /\ x.id = m}
        BY <3>2 DEF Named
      <4> QED
        BY <2>2, <3>1, <3>2, <4>1, SessionsOf
    <3>3. CASE m \in Named(entries, "own")
      <4>1. m \notin Named(entries, "general")
        BY <2>3, <3>1, <3>3
      <4>2. {x \in entries : x.kind \in {"own", "general"} /\ x.id = m}
               = {x \in entries : x.kind \in {"own"} /\ x.id = m}
        BY <4>1 DEF Named
      <4> QED
        BY <2>2, <3>1, <3>3, <4>2, SessionsOf
    <3> QED
      BY <3>2, <3>3
  <2>5. ASSUME NEW s \in Ids("subjects"), <<"subjects", s>> \notin written
        PROVE  Cardinality({x \in entries : x.kind \in {"subject"} /\ x.id = s}) =
                  IF s \in Live("subjects") /\ ~(\E x \in entries : x.kind = "general")
                  THEN 1 ELSE 0
    <3>1. Named(entries, "general") = {} <=> ~(\E x \in entries : x.kind = "general")
      BY DEF Named
    <3>2. s \in Named(entries, "subject") <=>
             s \in Live("subjects") /\ ~(\E x \in entries : x.kind = "general")
      BY <2>2, <2>5, <3>1 DEF ExtraRight, SubjectsRight, Agrees
    <3> QED
      BY <2>2, <3>2, SessionsOf
  <2> QED
    BY <2>1, <2>4, <2>5
<1>2. Init => TaughtInv
  BY DEF Init, TaughtInv, PlanTaught, Single
<1> QED
  BY <1>1, <1>2, CatalogueStart, CatalogueStep, TaughtStep, PTL DEF Spec
=============================================================================
