-------------------------- MODULE TutorAdminProofs --------------------------
(***************************************************************************)
(* Proofs about TutorAdmin.  What a request is going to write is right     *)
(* when it is decided (WriteInv) and stays right until it is flushed; what *)
(* is flushed stays possible until the commit, because whoever could make  *)
(* it impossible waits (FlushInv).                                         *)
(***************************************************************************)
EXTENDS TutorAdmin, FiniteSetTheorems, TLAPS

-----------------------------------------------------------------------------
(* The invariant.                                                          *)

Shape ==
  /\ db = [x \in Rows |-> db[x]]
  /\ write = [r \in Requests |-> write[r]]
  /\ sent = [r \in Requests |-> sent[r]]

\* A row fit to be inserted.
Whole(x, row) ==
  \/ x \in Tutors /\ row \in TutorRow
  \/ x \in Sources /\ row \in SourceRow
  \/ x \in Keys /\ row \in KeyRow

LEMMA WholeChild ==
  ASSUME NEW x, NEW row, x \notin Tutors, Whole(x, row)
  PROVE  row.tutor \in Tutors
<1>1. row \in SourceRow \/ row \in KeyRow
  BY DEF Whole
<1> QED
  BY <1>1 DEF SourceRow, KeyRow

\* Columns fit to be updated, all of them sent.
Partial(x, row, columns) ==
  /\ DOMAIN row \subseteq columns
  /\ \/ /\ x \in Tutors
        /\ DOMAIN row \subseteq {"title", "status"}
        /\ "title" \in DOMAIN row => row["title"] \in Titles
        /\ "status" \in DOMAIN row => row["status"] \in Status
     \/ /\ x \in Keys
        /\ DOMAIN row \subseteq {"active", "used"}
        /\ "active" \in DOMAIN row => row["active"] \in BOOLEAN
        /\ "used" \in DOMAIN row => row["used"] \in BOOLEAN

\* An INSERT is of new rows: a tutor with sources, or one child of a tutor.
InsertInv(r) ==
  does[r] = "insert" =>
    /\ \A x \in Writes(r) : ~There(x) /\ Whole(x, write[r][x])
    /\ \A u, v \in Writes(r) \cap Tutors : u = v
    /\ \A x \in Writes(r) \ Tutors, u \in Writes(r) \cap Tutors : write[r][x].tutor = u
    /\ Cardinality(Writes(r) \cap Sources) <= MaxSources
    /\ Writes(r) \cap Tutors = {} => \E x \in Rows : Writes(r) = {x}

UpdateInv(r) ==
  does[r] = "update" => \A x \in Writes(r) : Partial(x, write[r][x], sent[r])

\* New rows are of one request only, and so are the children of a new tutor.
Apart(r, q) ==
  does[r] = "insert" =>
    /\ Writes(r) \cap Writes(q) = {}
    /\ does[q] = "insert" =>
         \A u \in Writes(r) \cap Tutors, y \in Writes(q) \ Tutors : write[q][y].tutor # u

WriteInv ==
  /\ \A r \in Requests : InsertInv(r) /\ UpdateInv(r)
  /\ \A r \in Requests : pc[r] = "choosing" => does[r] = "insert"
  /\ \A r \in Requests : \A q \in Requests \ {r} : Apart(r, q)

FlushInv ==
  \A r \in Requests : pc[r] = "flushed" =>
    /\ does[r] = "insert" => SlugFree(r) /\ ParentsThere(r)
    /\ does[r] = "update" => \A x \in Writes(r) : There(x)
    /\ ~Waits(r)

\* The requests that are adding a source to a tutor that is there.
Adders(u) ==
  {r \in Requests : /\ does[r] = "insert"
                    /\ \E s \in Writes(r) \cap Sources : write[r][s].tutor = u}

CountInv ==
  \A u \in Tutors :
    There(u) => Cardinality(SourcesOf(u)) + Cardinality(Adders(u)) < MaxSources + Cardinality(Requests)

-----------------------------------------------------------------------------
(* Types.                                                                  *)

\* What an UPDATE leaves is a row again.
LEMMA UpdatedRow ==
  ASSUME NEW x, NEW old, NEW row, NEW columns,
         Tutors \cap Keys = {},
         x \in Tutors => old \in TutorRow, x \in Keys => old \in KeyRow,
         Partial(x, row, columns)
  PROVE  /\ x \in Tutors => AllColumns(old, row) \in TutorRow
         /\ x \in Keys => AllColumns(old, row) \in KeyRow
         /\ \A c \in DOMAIN old : AllColumns(old, row)[c] # old[c] => c \in columns
         /\ x \in Tutors => AllColumns(old, row).slug = old.slug
         /\ x \in Keys => AllColumns(old, row).tutor = old.tutor
<1> DEFINE new == AllColumns(old, row)
<1>1. new = [c \in DOMAIN old |-> IF c \in DOMAIN row THEN row[c] ELSE old[c]]
  BY DEF AllColumns
<1>2. CASE x \in Tutors
  <2>1. old \in TutorRow /\ x \notin Keys
    BY <1>2
  <2>2. DOMAIN old = {"slug", "title", "status"}
    BY <2>1 DEF TutorRow
  <2>3. "slug" \notin DOMAIN row /\ DOMAIN row \subseteq columns
    BY <2>1 DEF Partial
  <2>4. /\ new["slug"] = old["slug"]
        /\ new["title"] = IF "title" \in DOMAIN row THEN row["title"] ELSE old["title"]
        /\ new["status"] = IF "status" \in DOMAIN row THEN row["status"] ELSE old["status"]
    BY <1>1, <2>2, <2>3
  <2>5. new["slug"] \in 1 .. MaxSlug /\ new["title"] \in Titles /\ new["status"] \in Status
    BY <2>4, <2>1 DEF Partial, TutorRow
  <2>6. new = [slug |-> new["slug"], title |-> new["title"], status |-> new["status"]]
    BY <1>1, <2>2
  <2>7. new \in TutorRow
    BY <2>5, <2>6 DEF TutorRow
  <2> QED
    BY <1>1, <2>1, <2>2, <2>3, <2>4, <2>7
<1>3. CASE x \in Keys
  <2>1. old \in KeyRow /\ x \notin Tutors
    BY <1>3
  <2>2. DOMAIN old = {"tutor", "active", "used"}
    BY <2>1 DEF KeyRow
  <2>3. "tutor" \notin DOMAIN row /\ DOMAIN row \subseteq columns
    BY <2>1 DEF Partial
  <2>4. /\ new["tutor"] = old["tutor"]
        /\ new["active"] = IF "active" \in DOMAIN row THEN row["active"] ELSE old["active"]
        /\ new["used"] = IF "used" \in DOMAIN row THEN row["used"] ELSE old["used"]
    BY <1>1, <2>2, <2>3
  <2>5. new["tutor"] \in Tutors /\ new["active"] \in BOOLEAN /\ new["used"] \in BOOLEAN
    BY <2>4, <2>1 DEF Partial, KeyRow
  <2>6. new = [tutor |-> new["tutor"], active |-> new["active"], used |-> new["used"]]
    BY <1>1, <2>2
  <2>7. new \in KeyRow
    BY <2>5, <2>6 DEF KeyRow
  <2> QED
    BY <1>1, <2>1, <2>2, <2>3, <2>4, <2>7
<1> QED
  BY <1>2, <1>3 DEF Partial

-----------------------------------------------------------------------------
(* Every step but a flush and a commit settles what one request will write *)
(* and leaves the database and the other requests alone.                   *)

TypeInv == TypeOK /\ Shape

Settled(r) ==
  /\ db' = db
  /\ pc' = [pc EXCEPT ![r] = pc'[r]] /\ pc'[r] \in {"idle", "choosing", "ready"}
  /\ does' = [does EXCEPT ![r] = does'[r]] /\ does'[r] \in {"insert", "update", "delete"}
  /\ write' = [write EXCEPT ![r] = write'[r]] /\ Writes(r)' \subseteq Rows
  /\ sent' = [sent EXCEPT ![r] = sent'[r]] /\ sent'[r] \subseteq Columns
  /\ exact' \in [Requests -> BOOLEAN]
  /\ InsertInv(r)' /\ UpdateInv(r)'
  /\ pc'[r] = "choosing" => does'[r] = "insert"
  /\ \A q \in Requests \ {r} : Apart(r, q)' /\ Apart(q, r)'
  /\ \A u \in Tutors : There(u) /\ r \in Adders(u)' => Cardinality(SourcesOf(u)) < MaxSources

\* A request that is over writes nothing.
LEMMA Over ==
  ASSUME TypeInv, NEW r \in Requests, End(r)
  PROVE  /\ pc'[r] = "idle" /\ does'[r] = "update" /\ Writes(r)' = {} /\ sent'[r] = {}
         /\ pc' = [pc EXCEPT ![r] = pc'[r]] /\ does' = [does EXCEPT ![r] = does'[r]]
         /\ write' = [write EXCEPT ![r] = write'[r]] /\ sent' = [sent EXCEPT ![r] = sent'[r]]
         /\ exact' \in [Requests -> BOOLEAN]
         /\ \A q \in Requests \ {r} :
              /\ pc'[q] = pc[q] /\ does'[q] = does[q] /\ sent'[q] = sent[q]
              /\ write'[q] = write[q] /\ Writes(q)' = Writes(q)
BY DEF TypeInv, TypeOK, Shape, End, NoWrite, Writes

LEMMA Ending ==
  ASSUME TypeInv, WriteInv, NEW r \in Requests, End(r), UNCHANGED db
  PROVE  Settled(r)
<1>1. InsertInv(r)' /\ UpdateInv(r)'
  BY Over DEF InsertInv, UpdateInv
<1>2. ASSUME NEW q \in Requests \ {r}
      PROVE  Apart(r, q)' /\ Apart(q, r)'
  BY Over DEF Apart
<1>3. \A u \in Tutors : r \notin Adders(u)'
  BY Over DEF Adders
<1> QED
  BY Over, <1>1, <1>2, <1>3 DEF Settled

\* What Prepare sets and what it leaves.
LEMMA Preparing ==
  ASSUME TypeInv, NEW r \in Requests, NEW what, NEW rows, NEW columns,
         Prepare(r, what, rows, columns)
  PROVE  /\ db' = db /\ exact' \in [Requests -> BOOLEAN]
         /\ pc'[r] = "ready" /\ does'[r] = what /\ write'[r] = rows /\ sent'[r] = columns
         /\ pc' = [pc EXCEPT ![r] = pc'[r]] /\ does' = [does EXCEPT ![r] = does'[r]]
         /\ write' = [write EXCEPT ![r] = write'[r]] /\ sent' = [sent EXCEPT ![r] = sent'[r]]
         /\ Writes(r)' = DOMAIN rows
         /\ \A q \in Requests \ {r} :
              does'[q] = does[q] /\ write'[q] = write[q] /\ Writes(q)' = Writes(q)
BY DEF TypeInv, TypeOK, Shape, Prepare, Writes

\* An UPDATE, or a DELETE, is of rows that are there.
LEMMA PreparingOld ==
  ASSUME TypeInv, WriteInv, NEW r \in Requests, NEW what \in {"update", "delete"},
         NEW rows, NEW columns, Prepare(r, what, rows, columns),
         columns \subseteq Columns, DOMAIN rows \subseteq Rows, \A x \in DOMAIN rows : There(x),
         what = "update" => \A x \in DOMAIN rows : Partial(x, rows[x], columns)
  PROVE  Settled(r)
<1>1. UpdateInv(r)' /\ InsertInv(r)'
  BY Preparing DEF UpdateInv, InsertInv
<1>2. ASSUME NEW q \in Requests \ {r}
      PROVE  Apart(r, q)' /\ Apart(q, r)'
  <2>1. does[q] = "insert" => \A x \in Writes(q) : ~There(x)
    BY DEF WriteInv, InsertInv
  <2> QED
    BY Preparing, <2>1 DEF Apart
<1>3. \A u \in Tutors : r \notin Adders(u)'
  BY Preparing DEF Adders
<1> QED
  BY Preparing, <1>1, <1>2, <1>3 DEF Settled

\* What nobody else is about to write, and nobody else refers to.
LEMMA UnusedApart ==
  ASSUME NEW ids, NEW x \in Unused(ids), NEW q \in Requests
  PROVE  /\ x \in ids /\ ~There(x) /\ x \notin Writes(q)
         /\ does[q] = "insert" => \A y \in Writes(q) \ Tutors : write[q][y].tutor # x
BY DEF Unused

\* An INSERT of one child of a tutor that is there.
LEMMA PreparingChild ==
  ASSUME TypeInv, WriteInv, NEW r \in Requests, NEW u \in Tutors, There(u),
         NEW x \in Unused(Sources) \cup Unused(Keys), NEW row,
         Whole(x, row), row.tutor = u,
         x \in Sources => Cardinality(SourcesOf(u)) < MaxSources,
         Prepare(r, "insert", [y \in {x} |-> row], {})
  PROVE  Settled(r)
<1>1. x \in Rows \ Tutors /\ ~There(x) /\ \A q \in Requests : x \notin Writes(q)
  BY UnusedApart, AdminAssumption DEF Rows
<1>2. Writes(r)' = {x} /\ write'[r][x] = row /\ There(x)' = There(x)
  BY Preparing DEF There
<1>3. InsertInv(r)' /\ UpdateInv(r)'
  <2>1. Cardinality(Writes(r)' \cap Sources) <= MaxSources
    <3>1. Writes(r)' \cap Sources = {x} \/ Writes(r)' \cap Sources = {}
      BY <1>2
    <3>2. Cardinality({x}) <= MaxSources /\ Cardinality({}) <= MaxSources
      <4>1. Cardinality({x}) = 1 /\ Cardinality({}) = 0
        BY FS_Singleton, FS_EmptySet
      <4> QED
        BY <4>1, AdminAssumption
    <3> QED
      BY <3>1, <3>2
  <2> QED
    BY <1>1, <1>2, <2>1, Preparing DEF InsertInv, UpdateInv
<1>4. ASSUME NEW q \in Requests \ {r}
      PROVE  Apart(r, q)' /\ Apart(q, r)'
  <2>1. does[q] = "insert" => \A v \in Writes(q) : ~There(v)
    BY DEF WriteInv, InsertInv
  <2> QED
    BY <1>1, <1>2, <2>1, Preparing DEF Apart
<1>5. ASSUME NEW v \in Tutors, There(v), r \in Adders(v)'
      PROVE  Cardinality(SourcesOf(v)) < MaxSources
  BY <1>2, <1>5 DEF Adders
<1> QED
  BY <1>1, <1>2, <1>3, <1>4, <1>5, Preparing DEF Settled

-----------------------------------------------------------------------------
(* The decisions, one by one.                                              *)

LEMMA CreateSettles ==
  ASSUME TypeInv, WriteInv, NEW r \in Requests, Create(r)
  PROVE  Settled(r)
<1>1. PICK u \in Unused(Tutors), S \in SUBSET Unused(Sources), t \in Titles, st \in Status,
           n \in 1 .. MaxSlug, e \in BOOLEAN :
        /\ pc[r] = "idle"
        /\ Cardinality(S) <= MaxSources
        /\ e \/ n = 1
        /\ pc' = [pc EXCEPT ![r] = "choosing"]
        /\ does' = [does EXCEPT ![r] = "insert"]
        /\ write' = [write EXCEPT ![r] = [x \in {u} \cup S |->
             IF x = u THEN [slug |-> n, title |-> t, status |-> st] ELSE [tutor |-> u]]]
        /\ sent' = [sent EXCEPT ![r] = {}]
        /\ exact' = [exact EXCEPT ![r] = e]
        /\ UNCHANGED db
  BY DEF Create
<1> DEFINE rows == [x \in {u} \cup S |->
             IF x = u THEN [slug |-> n, title |-> t, status |-> st] ELSE [tutor |-> u]]
<1>2. /\ pc'[r] = "choosing" /\ does'[r] = "insert" /\ sent'[r] = {} /\ write'[r] = rows
      /\ \A q \in Requests \ {r} : does'[q] = does[q] /\ write'[q] = write[q]
      /\ pc' = [pc EXCEPT ![r] = pc'[r]] /\ does' = [does EXCEPT ![r] = does'[r]]
      /\ write' = [write EXCEPT ![r] = write'[r]] /\ sent' = [sent EXCEPT ![r] = sent'[r]]
      /\ exact' \in [Requests -> BOOLEAN]
  BY <1>1 DEF TypeInv, TypeOK, Shape
<1>3. Writes(r)' = {u} \cup S /\ \A q \in Requests \ {r} : Writes(q)' = Writes(q)
  BY <1>2 DEF Writes
<1>4. /\ u \in Tutors /\ ~There(u) /\ S \subseteq Sources /\ u \notin Sources
      /\ \A x \in S : ~There(x)
      /\ \A q \in Requests : u \notin Writes(q) /\ S \cap Writes(q) = {}
  BY UnusedApart, AdminAssumption
<1>5. /\ rows[u] = [slug |-> n, title |-> t, status |-> st]
      /\ \A x \in S : rows[x] = [tutor |-> u]
  BY <1>4
<1>6. /\ Writes(r)' \cap Tutors = {u} /\ Writes(r)' \cap Sources = S
      /\ Writes(r)' \ Tutors = S
  BY <1>3, <1>4, AdminAssumption
<1>7. InsertInv(r)' /\ UpdateInv(r)'
  <2>1. Whole(u, rows[u])
    BY <1>4, <1>5 DEF Whole, TutorRow
  <2>2. \A x \in S : Whole(x, rows[x])
    BY <1>4, <1>5 DEF Whole, SourceRow
  <2>3. \A x \in Writes(r)' : ~There(x)' /\ Whole(x, write'[r][x])
    BY <1>1, <1>2, <1>3, <1>4, <2>1, <2>2 DEF There
  <2>4. \A x \in Writes(r)' \ Tutors, v \in Writes(r)' \cap Tutors : write'[r][x].tutor = v
    BY <1>2, <1>5, <1>6
  <2> QED
    BY <1>1, <1>2, <1>6, <2>3, <2>4 DEF InsertInv, UpdateInv
<1>8. ASSUME NEW q \in Requests \ {r}
      PROVE  Apart(r, q)' /\ Apart(q, r)'
  <2>1. Writes(r)' \cap Writes(q)' = {}
    BY <1>3, <1>4
  <2>2. does[q] = "insert" => \A y \in Writes(q) \ Tutors : write[q][y].tutor # u
    BY UnusedApart
  <2>3. Apart(r, q)'
    BY <2>1, <2>2, <1>2, <1>3, <1>6 DEF Apart
  <2>4. \A v \in Writes(q)', y \in Writes(r)' \ Tutors : write'[r][y].tutor # v
    BY <1>2, <1>3, <1>4, <1>5, <1>6
  <2> QED
    BY <2>1, <2>3, <2>4 DEF Apart
<1>9. ASSUME NEW v \in Tutors, There(v) PROVE r \notin Adders(v)'
  <2>1. \A s \in Writes(r)' \cap Sources : write'[r][s].tutor = u
    BY <1>2, <1>5, <1>6
  <2> QED
    BY <1>4, <1>9, <2>1 DEF Adders
<1> QED
  BY <1>1, <1>2, <1>3, <1>4, <1>7, <1>8, <1>9 DEF Settled, Rows

\* A request's columns change and nothing it refers to does.
LEMMA ChooseSlugSettles ==
  ASSUME TypeInv, WriteInv, NEW r \in Requests, ChooseSlug(r)
  PROVE  Settled(r)
<1>1. PICK u \in Writes(r) \cap Tutors :
        LET n == write[r][u].slug
        IN  /\ pc[r] = "choosing" /\ db' = db
            /\ \/ pc' = [pc EXCEPT ![r] = "ready"] /\ UNCHANGED <<does, write, sent, exact>>
               \/ /\ n < MaxSlug /\ write' = [write EXCEPT ![r][u].slug = n + 1]
                  /\ UNCHANGED <<pc, does, sent, exact>>
               \/ End(r)
  BY DEF ChooseSlug
<1>2. does[r] = "insert" /\ InsertInv(r)
  BY <1>1 DEF WriteInv
<1>3. \A v \in Tutors : There(v) => r \notin Adders(v)
  <2>1. \A s \in Writes(r) \cap Sources : write[r][s].tutor = u
    BY <1>1, <1>2, AdminAssumption DEF InsertInv
  <2>2. ~There(u)
    BY <1>1, <1>2 DEF InsertInv
  <2> QED
    BY <2>1, <2>2 DEF Adders
<1>4. CASE End(r)
  BY <1>1, <1>4, Ending
<1>5. CASE pc' = [pc EXCEPT ![r] = "ready"] /\ UNCHANGED <<does, write, sent, exact>>
  <2>1. /\ does' = [does EXCEPT ![r] = does'[r]] /\ does'[r] \in {"insert", "update", "delete"}
        /\ write' = [write EXCEPT ![r] = write'[r]]
        /\ sent' = [sent EXCEPT ![r] = sent'[r]] /\ sent'[r] \subseteq Columns
        /\ Writes(r)' \subseteq Rows /\ exact' \in [Requests -> BOOLEAN]
        /\ pc'[r] = "ready" /\ pc' = [pc EXCEPT ![r] = pc'[r]]
    BY <1>5 DEF TypeInv, TypeOK, Shape, Writes
  <2>2. InsertInv(r)' /\ UpdateInv(r)'
    BY <1>1, <1>2, <1>5 DEF WriteInv, InsertInv, UpdateInv, Writes, There
  <2>3. \A q \in Requests \ {r} : Apart(r, q)' /\ Apart(q, r)'
    BY <1>5 DEF WriteInv, Apart, Writes
  <2>4. \A v \in Tutors : There(v) => r \notin Adders(v)'
    BY <1>3, <1>5 DEF Adders, Writes
  <2> QED
    BY <1>1, <2>1, <2>2, <2>3, <2>4 DEF Settled
<1>6. CASE /\ write[r][u].slug < MaxSlug
           /\ write' = [write EXCEPT ![r][u].slug = write[r][u].slug + 1]
           /\ UNCHANGED <<pc, does, sent, exact>>
  <2> DEFINE n == write[r][u].slug
  <2>1. write[r][u] \in TutorRow /\ u \notin Sources /\ u \notin Keys
    BY <1>1, <1>2, AdminAssumption DEF InsertInv, Whole
  <2>2. /\ \A q \in Requests \ {r} : write'[q] = write[q]
        /\ write'[r] = [write[r] EXCEPT ![u] = [write[r][u] EXCEPT !.slug = n + 1]]
        /\ write' = [write EXCEPT ![r] = write'[r]]
    BY <1>6 DEF TypeInv, Shape
  <2>3. /\ Writes(r)' = Writes(r) /\ \A q \in Requests : Writes(q)' = Writes(q)
        /\ \A x \in Writes(r) \ {u} : write'[r][x] = write[r][x]
        /\ write'[r][u] = [write[r][u] EXCEPT !.slug = n + 1]
    BY <1>1, <2>2 DEF Writes
  <2>4. write'[r][u] \in TutorRow
    <3>1. n \in 1 .. MaxSlug /\ n + 1 \in 1 .. MaxSlug
      BY <1>6, <2>1, AdminAssumption DEF TutorRow
    <3> QED
      BY <2>1, <2>3, <3>1 DEF TutorRow
  <2>5. InsertInv(r)' /\ UpdateInv(r)'
    <3>1. \A x \in Writes(r)' : ~There(x)' /\ Whole(x, write'[r][x])
      BY <1>1, <1>2, <2>3, <2>4 DEF InsertInv, There, Whole
    <3>2. \A x \in Writes(r)' \ Tutors, v \in Writes(r)' \cap Tutors : write'[r][x].tutor = v
      BY <1>1, <1>2, <2>3 DEF InsertInv
    <3> QED
      BY <1>2, <1>6, <2>3, <3>1, <3>2 DEF InsertInv, UpdateInv
  <2>6. \A q \in Requests \ {r} : Apart(r, q)' /\ Apart(q, r)'
    BY <1>1, <1>6, <2>2, <2>3 DEF WriteInv, Apart
  <2>7. \A v \in Tutors : There(v) => r \notin Adders(v)'
    BY <1>3, <1>6, <2>1, <2>3 DEF Adders
  <2>8. /\ does' = [does EXCEPT ![r] = does'[r]] /\ does'[r] \in {"insert", "update", "delete"}
        /\ sent' = [sent EXCEPT ![r] = sent'[r]] /\ sent'[r] \subseteq Columns
        /\ Writes(r)' \subseteq Rows /\ exact' \in [Requests -> BOOLEAN]
        /\ pc'[r] = "choosing" /\ pc' = [pc EXCEPT ![r] = pc'[r]]
    BY <1>1, <1>6, <2>3 DEF TypeInv, TypeOK, Shape
  <2> QED
    BY <1>1, <1>2, <1>6, <2>2, <2>5, <2>6, <2>7, <2>8 DEF Settled
<1> QED
  BY <1>1, <1>4, <1>5, <1>6

LEMMA AlterSettles ==
  ASSUME TypeInv, WriteInv, NEW r \in Requests, NEW x \in Tutors \cup Keys, NEW payload,
         Alter(r, x, payload), DOMAIN payload \subseteq Columns,
         Partial(x, payload, DOMAIN payload)
  PROVE  Settled(r)
<1> DEFINE some == Changed(db[x], payload)
           rows == IF some = [c \in {} |-> 0] THEN NoWrite ELSE [y \in {x} |-> some]
<1>1. There(x) /\ Prepare(r, "update", rows, DOMAIN payload)
  BY DEF Alter
<1>2. DOMAIN rows \subseteq {x}
  BY DEF NoWrite
<1>3. \A y \in DOMAIN rows : y = x /\ rows[y] = some
  BY DEF NoWrite
<1>4. Partial(x, some, DOMAIN payload)
  BY DEF Partial, Changed
<1> HIDE DEF some, rows
<1> QED
  BY <1>1, <1>2, <1>3, <1>4, PreparingOld DEF Rows

LEMMA UpdateSettles ==
  ASSUME TypeInv, WriteInv, NEW r \in Requests, Update(r)
  PROVE  Settled(r)
<1>1. PICK u \in Tutors, t \in Titles, st \in Status :
        \/ Alter(r, u, [title |-> t])
        \/ Alter(r, u, [status |-> st])
        \/ Alter(r, u, [title |-> t, status |-> st])
  BY DEF Update
<1>2. CASE Alter(r, u, [title |-> t])
  <2>1. Partial(u, [title |-> t], DOMAIN [title |-> t])
    BY DEF Partial
  <2> QED
    BY <1>2, <2>1, AlterSettles DEF Columns
<1>3. CASE Alter(r, u, [status |-> st])
  <2>1. Partial(u, [status |-> st], DOMAIN [status |-> st])
    BY DEF Partial
  <2> QED
    BY <1>3, <2>1, AlterSettles DEF Columns
<1>4. CASE Alter(r, u, [title |-> t, status |-> st])
  <2>1. Partial(u, [title |-> t, status |-> st], DOMAIN [title |-> t, status |-> st])
    BY DEF Partial
  <2> QED
    BY <1>4, <2>1, AlterSettles DEF Columns
<1> QED
  BY <1>1, <1>2, <1>3, <1>4

LEMMA KeySettles ==
  ASSUME TypeInv, WriteInv, NEW r \in Requests, RevokeKey(r) \/ UseKey(r)
  PROVE  Settled(r)
<1> DEFINE uses(k) == [x \in {k} |-> [used |-> TRUE]]
<1>1. PICK k \in Keys :
        \/ Alter(r, k, [active |-> FALSE])
        \/ There(k) /\ Prepare(r, "update", uses(k), {"used"})
  BY DEF RevokeKey, UseKey
<1>2. CASE Alter(r, k, [active |-> FALSE])
  <2>1. Partial(k, [active |-> FALSE], DOMAIN [active |-> FALSE])
    BY DEF Partial
  <2> QED
    BY <1>2, <2>1, AlterSettles DEF Columns
<1>3. CASE There(k) /\ Prepare(r, "update", uses(k), {"used"})
  <2> DEFINE row == [used |-> TRUE]
             rows == uses(k)
  <2>1. Partial(k, row, {"used"})
    BY DEF Partial
  <2>2. DOMAIN rows = {k} /\ \A x \in DOMAIN rows : x = k /\ rows[x] = row
    OBVIOUS
  <2>3. Prepare(r, "update", rows, {"used"})
    BY <1>3
  <2> HIDE DEF row, rows
  <2> QED
    BY <1>3, <2>1, <2>2, <2>3, PreparingOld DEF Columns, Rows
<1> QED
  BY <1>1, <1>2, <1>3

LEMMA RemovalSettles ==
  ASSUME TypeInv, WriteInv, NEW r \in Requests, Delete(r) \/ RemoveSource(r)
  PROVE  Settled(r)
<1>1. CASE Delete(r)
  <2>1. PICK u \in Tutors :
          There(u) /\ Prepare(r, "delete", [x \in {u} \cup ChildrenOf(u) |-> NoRow], {})
    BY <1>1 DEF Delete
  <2>2. {u} \cup ChildrenOf(u) \subseteq Rows /\ \A x \in {u} \cup ChildrenOf(u) : There(x)
    BY <2>1 DEF ChildrenOf, Rows
  <2> QED
    BY <2>1, <2>2, PreparingOld
<1>2. CASE RemoveSource(r)
  <2>1. PICK s \in Sources : There(s) /\ Prepare(r, "delete", [x \in {s} |-> NoRow], {})
    BY <1>2 DEF RemoveSource
  <2> QED
    BY <2>1, PreparingOld DEF Rows
<1> QED
  BY <1>1, <1>2

LEMMA AdditionSettles ==
  ASSUME TypeInv, WriteInv, NEW r \in Requests, AddSource(r) \/ CreateKey(r)
  PROVE  Settled(r)
<1>1. CASE AddSource(r)
  <2>1. PICK u \in Tutors, s \in Unused(Sources) :
          /\ There(u) /\ HasRoom(u)
          /\ Prepare(r, "insert", [x \in {s} |-> [tutor |-> u]], {})
    BY <1>1 DEF AddSource
  <2>2. Whole(s, [tutor |-> u])
    BY UnusedApart DEF Whole, SourceRow, Unused
  <2> QED
    BY <2>1, <2>2, PreparingChild DEF HasRoom
<1>2. CASE CreateKey(r)
  <2>1. PICK u \in Tutors, k \in Unused(Keys) :
          /\ There(u)
          /\ Prepare(r, "insert",
               [x \in {k} |-> [tutor |-> u, active |-> TRUE, used |-> FALSE]], {})
    BY <1>2 DEF CreateKey
  <2>2. Whole(k, [tutor |-> u, active |-> TRUE, used |-> FALSE]) /\ k \notin Sources
    BY AdminAssumption DEF Whole, KeyRow, Unused
  <2> QED
    BY <2>1, <2>2, PreparingChild
<1> QED
  BY <1>1, <1>2

\* The three kinds of step.
LEMMA Steps ==
  ASSUME TypeInv, WriteInv, Next
  PROVE  \E r \in Requests : Settled(r) \/ Flush(r) \/ Commit(r)
<1>1. PICK r \in Requests :
        \/ Create(r) \/ ChooseSlug(r) \/ Update(r) \/ Delete(r)
        \/ AddSource(r) \/ RemoveSource(r)
        \/ CreateKey(r) \/ RevokeKey(r) \/ UseKey(r)
        \/ Flush(r) \/ Rollback(r) \/ Commit(r)
  BY DEF Next
<1>2. Rollback(r) => Settled(r)
  BY Ending DEF Rollback
<1> QED
  BY <1>1, <1>2, CreateSettles, ChooseSlugSettles, UpdateSettles, RemovalSettles,
     AdditionSettles, KeySettles

-----------------------------------------------------------------------------
(* What a commit leaves in the database.                                   *)

LEMMA CommittedRow ==
  ASSUME TypeInv, WriteInv, FlushInv, NEW r \in Requests, Commit(r), NEW x \in Rows
  PROVE  /\ does[r] = "insert" =>
              /\ db'[x] = IF x \in Writes(r) THEN write[r][x] ELSE db[x]
              /\ There(x)' <=> There(x) \/ x \in Writes(r)
         /\ does[r] = "update" =>
              /\ db'[x] = IF x \in Writes(r) THEN AllColumns(db[x], write[r][x]) ELSE db[x]
              /\ There(x)' <=> There(x)
         /\ does[r] = "delete" =>
              /\ db'[x] = IF Goes(r, x) THEN NoRow ELSE db[x]
              /\ There(x)' <=> There(x) /\ ~Goes(r, x)
         /\ x \in Tutors => db'[x] \in TutorRow \cup {NoRow}
         /\ x \in Sources => db'[x] \in SourceRow \cup {NoRow}
         /\ x \in Keys => db'[x] \in KeyRow \cup {NoRow}
<1>1. /\ x \in Tutors => db[x] \in TutorRow \cup {NoRow}
      /\ x \in Sources => db[x] \in SourceRow \cup {NoRow}
      /\ x \in Keys => db[x] \in KeyRow \cup {NoRow}
  BY DEF TypeInv, TypeOK
<1>2. does[r] \in {"insert", "update", "delete"} /\ pc[r] = "flushed"
  BY DEF TypeInv, TypeOK, Commit
<1>3. x \in Tutors \/ x \in Sources \/ x \in Keys
  BY DEF Rows
<1>4. CASE does[r] = "insert"
  <2>1. db'[x] = IF x \in Writes(r) THEN write[r][x] ELSE db[x]
    BY <1>4 DEF Commit
  <2>2. x \in Writes(r) => Whole(x, write[r][x])
    BY <1>4 DEF WriteInv, InsertInv
  <2>3. /\ x \in Writes(r) /\ x \in Tutors => write[r][x] \in TutorRow
        /\ x \in Writes(r) /\ x \in Sources => write[r][x] \in SourceRow
        /\ x \in Writes(r) /\ x \in Keys => write[r][x] \in KeyRow
    BY <2>2, AdminAssumption DEF Whole
  <2>4. x \in Writes(r) => db'[x] # NoRow
    BY <1>3, <2>1, <2>3, AdminAssumption
  <2> QED
    BY <1>1, <1>4, <2>1, <2>3, <2>4 DEF There
<1>5. CASE does[r] = "update"
  <2>1. db'[x] = IF x \in Writes(r) THEN AllColumns(db[x], write[r][x]) ELSE db[x]
    BY <1>5 DEF Commit
  <2>2. x \in Writes(r) => Partial(x, write[r][x], sent[r]) /\ There(x)
    BY <1>2, <1>5 DEF WriteInv, UpdateInv, FlushInv
  <2>3. /\ x \in Writes(r) /\ x \in Tutors => AllColumns(db[x], write[r][x]) \in TutorRow
        /\ x \in Writes(r) /\ x \in Keys => AllColumns(db[x], write[r][x]) \in KeyRow
    BY <1>1, <2>2, UpdatedRow, AdminAssumption DEF There
  <2>4. x \in Writes(r) => x \in Tutors \/ x \in Keys
    BY <2>2 DEF Partial
  <2>5. x \in Writes(r) => db'[x] # NoRow
    BY <2>1, <2>3, <2>4, AdminAssumption
  <2>6. x \in Sources => x \notin Writes(r)
    BY <2>4, AdminAssumption
  <2> QED
    BY <1>1, <1>5, <2>1, <2>2, <2>3, <2>5, <2>6 DEF There
<1>6. CASE does[r] = "delete"
  BY <1>1, <1>6 DEF Commit, There
<1> QED
  BY <1>2, <1>4, <1>5, <1>6

\* A row that stays keeps its tutor and its slug, and differs from what it
\* was in columns that were sent.
LEMMA CommittedOldRow ==
  ASSUME TypeInv, WriteInv, FlushInv, NEW r \in Requests, Commit(r), NEW x \in Rows,
         There(x), There(x)'
  PROVE  /\ x \in Tutors => db'[x].slug = db[x].slug
         /\ x \notin Tutors => db'[x].tutor = db[x].tutor
         /\ \A c \in DOMAIN db[x] : db'[x][c] # db[x][c] => c \in sent[r]
<1>1. db'[x] = db[x] \/ (does[r] = "update" /\ x \in Writes(r))
  <2>1. does[r] = "insert" => x \notin Writes(r)
    BY DEF WriteInv, InsertInv
  <2> QED
    BY <2>1, CommittedRow DEF TypeInv, TypeOK
<1>2. CASE does[r] = "update" /\ x \in Writes(r)
  <2>1. Partial(x, write[r][x], sent[r]) /\ db'[x] = AllColumns(db[x], write[r][x])
    BY <1>2, CommittedRow DEF WriteInv, UpdateInv
  <2>2. (x \in Tutors => db[x] \in TutorRow) /\ (x \in Keys => db[x] \in KeyRow)
    BY DEF TypeInv, TypeOK, There
  <2>3. x \in Tutors \/ x \in Keys
    BY <2>1 DEF Partial
  <2>4. LET new == AllColumns(db[x], write[r][x])
        IN  /\ x \in Tutors => new.slug = db[x].slug
            /\ x \in Keys => new.tutor = db[x].tutor
            /\ \A c \in DOMAIN db[x] : new[c] # db[x][c] => c \in sent[r]
    BY <2>1, <2>2, UpdatedRow, AdminAssumption
  <2> QED
    BY <2>1, <2>3, <2>4
<1> QED
  BY <1>1, <1>2

-----------------------------------------------------------------------------
(* The invariant is kept.                                                  *)

LEMMA TypeInit == Init => TypeInv /\ WriteInv
<1> SUFFICES ASSUME Init PROVE TypeInv /\ WriteInv
  OBVIOUS
<1>1. \A r \in Requests : Writes(r) = {}
  BY DEF Init, NoWrite, Writes
<1>2. TypeInv
  BY <1>1 DEF Init, TypeInv, TypeOK, Shape, Rows
<1>3. WriteInv
  BY <1>1 DEF Init, WriteInv, InsertInv, UpdateInv, Apart
<1> QED
  BY <1>2, <1>3

LEMMA TypeStep == TypeInv /\ WriteInv /\ FlushInv /\ [Next]_vars => TypeInv'
<1> SUFFICES ASSUME TypeInv, WriteInv, FlushInv, [Next]_vars PROVE TypeInv'
  OBVIOUS
<1>1. CASE UNCHANGED vars
  BY <1>1 DEF vars, TypeInv, TypeOK, Shape, Writes
<1>2. ASSUME NEW r \in Requests, Settled(r) PROVE TypeInv'
  <2>1. db' = db /\ \A q \in Requests \ {r} : Writes(q)' = Writes(q) /\ sent'[q] = sent[q]
    BY <1>2 DEF Settled, Writes, TypeInv, Shape
  <2>2. \A q \in Requests : Writes(q)' \subseteq Rows /\ sent'[q] \subseteq Columns
    BY <1>2, <2>1 DEF Settled, TypeInv, TypeOK
  <2>3. /\ pc' \in [Requests -> {"idle", "choosing", "ready", "flushed"}]
        /\ does' \in [Requests -> {"insert", "update", "delete"}]
        /\ exact' \in [Requests -> BOOLEAN]
    BY <1>2 DEF Settled, TypeInv, TypeOK
  <2>4. Shape'
    BY <1>2 DEF Settled, TypeInv, Shape
  <2> QED
    BY <2>1, <2>2, <2>3, <2>4 DEF TypeInv, TypeOK
<1>3. ASSUME NEW r \in Requests, Flush(r) PROVE TypeInv'
  BY <1>3 DEF Flush, TypeInv, TypeOK, Shape, Writes
<1>4. ASSUME NEW r \in Requests, Commit(r) PROVE TypeInv'
  <2>1. End(r)
    BY <1>4 DEF Commit
  <2>2. /\ \A u \in Tutors : db'[u] \in TutorRow \cup {NoRow}
        /\ \A s \in Sources : db'[s] \in SourceRow \cup {NoRow}
        /\ \A k \in Keys : db'[k] \in KeyRow \cup {NoRow}
    BY <1>4, CommittedRow DEF Rows
  <2>3. \A q \in Requests : Writes(q)' \subseteq Rows /\ sent'[q] \subseteq Columns
    BY <2>1, Over DEF TypeInv, TypeOK
  <2>4. /\ pc' \in [Requests -> {"idle", "choosing", "ready", "flushed"}]
        /\ does' \in [Requests -> {"insert", "update", "delete"}]
        /\ exact' \in [Requests -> BOOLEAN]
    BY <2>1, Over DEF TypeInv, TypeOK
  <2>5. Shape'
    BY <1>4, <2>1, Over DEF TypeInv, Shape, Commit
  <2> QED
    BY <2>2, <2>3, <2>4, <2>5 DEF TypeInv, TypeOK
<1> QED
  BY <1>1, <1>2, <1>3, <1>4, Steps

\* What a request is going to write is right as long as its rows stay away.
LEMMA Kept ==
  ASSUME NEW r \in Requests, InsertInv(r), UpdateInv(r),
         does'[r] = does[r], write'[r] = write[r], sent'[r] = sent[r], Writes(r)' = Writes(r),
         does[r] = "insert" => \A x \in Writes(r) : ~There(x)'
  PROVE  InsertInv(r)' /\ UpdateInv(r)'
<1>1. InsertInv(r)'
  <2> SUFFICES ASSUME does[r] = "insert"
               PROVE  /\ \A x \in Writes(r)' : ~There(x)' /\ Whole(x, write[r][x])'
                      /\ \A u, v \in Writes(r)' \cap Tutors : u = v
                      /\ \A x \in Writes(r)' \ Tutors, u \in Writes(r)' \cap Tutors :
                           write'[r][x].tutor = u
                      /\ Cardinality(Writes(r)' \cap Sources) <= MaxSources
                      /\ Writes(r)' \cap Tutors = {} => \E x \in Rows : Writes(r)' = {x}
    BY DEF InsertInv
  <2>1. \A x \in Writes(r) : Whole(x, write[r][x])'
    BY DEF InsertInv, Whole
  <2> QED
    BY <2>1 DEF InsertInv
<1>2. UpdateInv(r)'
  <2>1. does[r] = "update" => \A x \in Writes(r) : Partial(x, write[r][x], sent[r])'
    BY DEF UpdateInv, Partial
  <2> QED
    BY <2>1 DEF UpdateInv
<1> QED
  BY <1>1, <1>2

LEMMA WriteStep == TypeInv /\ WriteInv /\ FlushInv /\ [Next]_vars => WriteInv'
<1> SUFFICES ASSUME TypeInv, WriteInv, FlushInv, [Next]_vars PROVE WriteInv'
  OBVIOUS
<1>1. ASSUME db' = db, does' = does, write' = write, sent' = sent,
             \A r \in Requests : pc'[r] = "choosing" => pc[r] = "choosing"
      PROVE  WriteInv'
  BY <1>1 DEF WriteInv, InsertInv, UpdateInv, Apart, Writes, There
<1>2. CASE UNCHANGED vars
  BY <1>1, <1>2 DEF vars
<1>3. ASSUME NEW r \in Requests, Settled(r) PROVE WriteInv'
  <2>1. /\ db' = db
        /\ \A q \in Requests \ {r} :
             /\ pc'[q] = pc[q] /\ does'[q] = does[q] /\ sent'[q] = sent[q]
             /\ write'[q] = write[q] /\ Writes(q)' = Writes(q)
    BY <1>3 DEF Settled, TypeInv, TypeOK, Shape, Writes
  <2>2. ASSUME NEW q \in Requests \ {r} PROVE InsertInv(q)' /\ UpdateInv(q)'
    <3>1. does[q] = "insert" => \A x \in Writes(q) : ~There(x)'
      BY <2>1 DEF WriteInv, InsertInv, There
    <3> QED
      BY <2>1, <3>1, Kept DEF WriteInv
  <2>3. ASSUME NEW q \in Requests \ {r}, NEW p \in Requests \ {r}, p # q PROVE Apart(p, q)'
    BY <2>1, <2>3 DEF WriteInv, Apart
  <2> QED
    BY <1>3, <2>1, <2>2, <2>3 DEF Settled, WriteInv
<1>4. ASSUME NEW r \in Requests, Flush(r) PROVE WriteInv'
  BY <1>1, <1>4 DEF Flush, TypeInv, TypeOK
<1>5. ASSUME NEW r \in Requests, Commit(r) PROVE WriteInv'
  <2>1. End(r)
    BY <1>5 DEF Commit
  <2>2. InsertInv(r)' /\ UpdateInv(r)'
    BY <2>1, Over DEF InsertInv, UpdateInv
  <2>3. ASSUME NEW q \in Requests \ {r} PROVE InsertInv(q)' /\ UpdateInv(q)'
    <3>1. ASSUME does[q] = "insert", NEW x \in Writes(q) PROVE ~There(x)'
      <4>1. x \in Rows /\ ~There(x) /\ x \notin Writes(r)
        BY <3>1 DEF WriteInv, InsertInv, Apart, TypeInv, TypeOK
      <4> QED
        BY <4>1, <1>5, CommittedRow DEF TypeInv, TypeOK
    <3> QED
      BY <2>1, <3>1, Over, Kept DEF WriteInv
  <2>4. ASSUME NEW p \in Requests, NEW q \in Requests \ {p} PROVE Apart(p, q)'
    <3>1. p = r \/ q = r => Apart(p, q)'
      BY <2>1, Over DEF Apart
    <3>2. p # r /\ q # r => Apart(p, q)'
      BY <2>1, Over DEF WriteInv, Apart
    <3> QED
      BY <3>1, <3>2
  <2>5. \A q \in Requests : pc'[q] = "choosing" => does'[q] = "insert"
    BY <2>1, Over DEF WriteInv
  <2> QED
    BY <2>2, <2>3, <2>4, <2>5 DEF WriteInv
<1> QED
  BY <1>2, <1>3, <1>4, <1>5, Steps

-----------------------------------------------------------------------------
(* What is flushed can be committed.                                       *)

LEMMA ClashSymmetric == \A r, q \in Requests : Clash(r, q) => Clash(q, r)
BY DEF Clash

\* A commit takes away nothing that a request whose flush went through
\* relies on, and adds nothing that stands in its way.
LEMMA CommitKeepsFlush ==
  ASSUME TypeInv, WriteInv, FlushInv, NEW r \in Requests, Commit(r),
         NEW q \in Requests \ {r}, pc[q] = "flushed"
  PROVE  /\ does[q] = "insert" => SlugFree(q)' /\ ParentsThere(q)'
         /\ does[q] = "update" => \A x \in Writes(q) : There(x)'
<1>1. ~Clash(q, r)
  BY DEF FlushInv, Waits, Commit
<1>2. Writes(q) \subseteq Rows /\ write'[q] = write[q] /\ Writes(q)' = Writes(q)
  BY Over DEF TypeInv, TypeOK, Commit
<1>3. does[r] \in {"insert", "update", "delete"}
  BY DEF TypeInv, TypeOK
<1>4. CASE does[q] = "insert"
  <2>1. SlugFree(q)'
    <3> SUFFICES ASSUME NEW u \in Writes(q) \cap Tutors, NEW v \in Tutors, There(v)'
                 PROVE  db'[v].slug # write[q][u].slug
      BY <1>2 DEF SlugFree
    <3>1. CASE There(v)
      <4>1. db'[v].slug = db[v].slug
        BY <3>1, CommittedOldRow DEF Rows
      <4> QED
        BY <1>4, <3>1, <4>1 DEF FlushInv, SlugFree
    <3>2. CASE ~There(v)
      <4>1. does[r] = "insert" /\ v \in Writes(r) /\ db'[v] = write[r][v]
        BY <1>3, <3>2, CommittedRow DEF Rows
      <4> QED
        BY <1>1, <1>4, <4>1 DEF Clash
    <3> QED
      BY <3>1, <3>2
  <2>2. ParentsThere(q)'
    <3> SUFFICES ASSUME NEW x \in Writes(q) \ Tutors, write[q][x].tutor \notin Writes(q)
                 PROVE  db'[write[q][x].tutor] # NoRow
      BY <1>2 DEF ParentsThere, There
    <3> DEFINE p == write[q][x].tutor
    <3>1. There(p)
      BY <1>4 DEF FlushInv, ParentsThere
    <3>2. Whole(x, write[q][x])
      BY <1>4 DEF WriteInv, InsertInv
    <3>3. p \in Tutors
      BY <3>2, WholeChild
    <3>4. ASSUME does[r] = "delete", Goes(r, p) PROVE FALSE
      <4>1. p \in Writes(r)
        BY <3>3, <3>4 DEF Goes
      <4>2. DeletesTutor(r) /\ p \in Under(r) /\ p \in Under(q)
        BY <1>4, <3>3, <3>4, <4>1 DEF DeletesTutor, Under
      <4> QED
        BY <1>1, <4>2 DEF Clash
    <3> QED
      BY <1>3, <3>1, <3>3, <3>4, CommittedRow DEF Rows, There
  <2> QED
    BY <1>4, <2>1, <2>2
<1>5. CASE does[q] = "update"
  <2> SUFFICES ASSUME NEW x \in Writes(q) PROVE There(x)'
    BY <1>5
  <2>1. x \in Rows /\ There(x)
    BY <1>2, <1>5 DEF FlushInv
  <2>2. ASSUME does[r] = "delete", Goes(r, x) PROVE FALSE
    <3>1. x \notin Writes(r)
      BY <1>1 DEF Clash
    <3>2. x \notin Tutors /\ db[x].tutor \in Writes(r)
      BY <2>2, <3>1 DEF Goes
    <3>3. db[x].tutor \in Tutors
      BY <2>1, <3>2 DEF TypeInv, TypeOK, There, Rows, SourceRow, KeyRow
    <3>4. DeletesTutor(r) /\ db[x].tutor \in Under(r) /\ db[x].tutor \in Under(q)
      BY <2>1, <2>2, <3>2, <3>3 DEF DeletesTutor, Under
    <3> QED
      BY <1>1, <3>4 DEF Clash
  <2> QED
    BY <1>3, <2>1, <2>2, CommittedRow
<1> QED
  BY <1>4, <1>5

\* A commit makes nobody wait who did not wait.
LEMMA CommitFreesOthers ==
  ASSUME TypeInv, WriteInv, FlushInv, NEW r \in Requests, Commit(r),
         NEW q \in Requests \ {r}, NEW p \in Requests \ {r}, Clash(q, p)'
  PROVE  Clash(q, p)
<1>1. ASSUME NEW o \in Requests \ {r}
      PROVE  /\ does'[o] = does[o] /\ write'[o] = write[o] /\ Writes(o)' = Writes(o)
             /\ DeletesTutor(o)' = DeletesTutor(o)
  BY Over DEF Commit, DeletesTutor
<1>2. ASSUME NEW o \in Requests \ {r}, NEW u \in Under(o)'
      PROVE  u \in Under(o)
  <2>1. PICK x \in Writes(o) :
          \/ x = u
          \/ x \notin Tutors /\ does[o] = "insert" /\ write[o][x].tutor = u
          \/ x \notin Tutors /\ There(x)' /\ db'[x].tutor = u
    BY <1>1, <1>2 DEF Under
  <2>2. u \in Tutors /\ x \in Rows
    BY <1>2 DEF Under, TypeInv, TypeOK
  <2>3. ASSUME x \notin Tutors, There(x)', db'[x].tutor = u
        PROVE  There(x) /\ db[x].tutor = u
    <3>1. does[r] = "insert" => x \notin Writes(r)
      BY DEF WriteInv, Apart
    <3>2. There(x)
      BY <2>2, <2>3, <3>1, CommittedRow DEF TypeInv, TypeOK
    <3> QED
      BY <2>2, <2>3, <3>2, CommittedOldRow
  <2> QED
    BY <2>1, <2>2, <2>3 DEF Under
<1> QED
  BY <1>1, <1>2 DEF Clash

LEMMA FlushStep == TypeInv /\ WriteInv /\ FlushInv /\ [Next]_vars => FlushInv'
<1> SUFFICES ASSUME TypeInv, WriteInv, FlushInv, [Next]_vars PROVE FlushInv'
  OBVIOUS
<1>1. CASE UNCHANGED vars
  BY <1>1 DEF vars, FlushInv, SlugFree, ParentsThere, Waits, Clash, Under, DeletesTutor, Writes, There
<1>2. ASSUME NEW r \in Requests, Settled(r) PROVE FlushInv'
  <2>1. /\ db' = db /\ pc'[r] # "flushed"
        /\ \A q \in Requests \ {r} :
             /\ pc'[q] = pc[q] /\ does'[q] = does[q]
             /\ write'[q] = write[q] /\ Writes(q)' = Writes(q)
    BY <1>2 DEF Settled, TypeInv, TypeOK, Shape, Writes
  <2>2. \A q \in Requests \ {r} :
          /\ SlugFree(q)' = SlugFree(q) /\ ParentsThere(q)' = ParentsThere(q)
          /\ Under(q)' = Under(q) /\ DeletesTutor(q)' = DeletesTutor(q)
    BY <2>1 DEF SlugFree, ParentsThere, Under, DeletesTutor, There
  <2>3. \A q, p \in Requests \ {r} : Clash(q, p)' => Clash(q, p)
    BY <2>1, <2>2 DEF Clash
  <2>4. ASSUME NEW q \in Requests \ {r}, Waits(q)' PROVE Waits(q)
    BY <2>1, <2>3, <2>4 DEF Waits
  <2> QED
    BY <2>1, <2>2, <2>4 DEF FlushInv, There
<1>3. ASSUME NEW r \in Requests, Flush(r) PROVE FlushInv'
  <2>1. /\ UNCHANGED <<db, does, write>> /\ ~Waits(r) /\ Accepted(r) /\ pc'[r] = "flushed"
        /\ \A q \in Requests \ {r} : pc'[q] = pc[q]
    BY <1>3 DEF Flush, TypeInv, TypeOK
  <2>2. \A q \in Requests :
          /\ SlugFree(q)' = SlugFree(q) /\ ParentsThere(q)' = ParentsThere(q)
          /\ Writes(q)' = Writes(q)
    BY <2>1 DEF SlugFree, ParentsThere, There, Writes
  <2>3. \A q, p \in Requests : Clash(q, p)' => Clash(q, p)
    BY <2>1 DEF Clash, Under, DeletesTutor, Writes, There
  <2>4. ~Waits(r)'
    BY <2>1, <2>3 DEF Waits
  <2>5. ASSUME NEW q \in Requests \ {r}, pc[q] = "flushed" PROVE ~Waits(q)'
    <3>1. ~Clash(q, r)
      BY <2>1, <2>5, ClashSymmetric DEF Waits
    <3> QED
      BY <2>1, <2>3, <2>5, <3>1 DEF Waits, FlushInv
  <2> QED
    BY <2>1, <2>2, <2>4, <2>5 DEF FlushInv, Accepted, There
<1>4. ASSUME NEW r \in Requests, Commit(r) PROVE FlushInv'
  <2>1. /\ pc'[r] = "idle"
        /\ \A q \in Requests \ {r} :
             pc'[q] = pc[q] /\ does'[q] = does[q] /\ Writes(q)' = Writes(q)
    BY <1>4, Over DEF Commit
  <2>2. ASSUME NEW q \in Requests \ {r}, pc[q] = "flushed" PROVE ~Waits(q)'
    BY <1>4, <2>1, <2>2, CommitFreesOthers DEF Waits, FlushInv
  <2> QED
    BY <1>4, <2>1, <2>2, CommitKeepsFlush DEF FlushInv
<1> QED
  BY <1>1, <1>2, <1>3, <1>4, Steps

LEMMA InvAlways == Spec => [](TypeInv /\ WriteInv /\ FlushInv)
<1>1. Init => FlushInv
  BY DEF Init, FlushInv
<1> QED
  BY <1>1, TypeInit, TypeStep, WriteStep, FlushStep, PTL DEF Spec

-----------------------------------------------------------------------------
(* The properties.                                                         *)

\* Every row in the database is whole, and every request in a known state.
THEOREM TypeCorrect == Spec => []TypeOK
BY InvAlways, PTL DEF TypeInv

\* A column changes only by a commit of a request that sent it, for any
\* number of editors.
THEOREM EditsKeepToTheirColumns == Spec => OnlySentColumnsChange
<1>1. TypeInv /\ WriteInv /\ FlushInv /\ [Next]_vars =>
        [\A x \in Rows : There(x) /\ There(x)' =>
           \A c \in DOMAIN db[x] :
             db'[x][c] # db[x][c] =>
               \E r \in Requests : pc[r] = "flushed" /\ pc'[r] = "idle" /\ c \in sent[r]]_vars
  <2> SUFFICES ASSUME TypeInv, WriteInv, FlushInv, [Next]_vars,
                      NEW x \in Rows, There(x), There(x)',
                      NEW c \in DOMAIN db[x], db'[x][c] # db[x][c]
               PROVE  \E r \in Requests : pc[r] = "flushed" /\ pc'[r] = "idle" /\ c \in sent[r]
    OBVIOUS
  <2>1. db' # db
    OBVIOUS
  <2>2. PICK r \in Requests : Commit(r)
    BY <2>1, Steps DEF vars, Settled, Flush
  <2>3. pc[r] = "flushed" /\ pc'[r] = "idle"
    BY <2>2, Over DEF Commit
  <2> QED
    BY <2>2, <2>3, CommittedOldRow
<1> QED
  BY <1>1, InvAlways, PTL DEF Spec, OnlySentColumnsChange

LEMMA OrphansStep ==
  TypeInv /\ WriteInv /\ FlushInv /\ NoOrphans /\ [Next]_vars => NoOrphans'
<1> SUFFICES ASSUME TypeInv, WriteInv, FlushInv, NoOrphans, [Next]_vars,
                    NEW x \in Sources \cup Keys, There(x)'
             PROVE  db'[db'[x].tutor] # NoRow
  BY DEF NoOrphans, There
<1>1. CASE db' = db
  BY <1>1 DEF NoOrphans, There
<1>2. ASSUME NEW r \in Requests, Commit(r) PROVE db'[db'[x].tutor] # NoRow
  <2>1. x \in Rows /\ x \notin Tutors /\ does[r] \in {"insert", "update", "delete"}
    BY AdminAssumption DEF Rows, TypeInv, TypeOK
  <2>2. CASE There(x)
    <3> DEFINE p == db[x].tutor
    <3>1. p \in Tutors /\ There(p) /\ db'[x].tutor = p
      BY <1>2, <2>1, <2>2, CommittedOldRow
         DEF NoOrphans, There, TypeInv, TypeOK, SourceRow, KeyRow
    <3>2. does[r] = "delete" /\ Goes(r, p) => Goes(r, x)
      BY <2>1, <2>2, <3>1 DEF Goes
    <3> QED
      BY <1>2, <2>1, <3>1, <3>2, CommittedRow DEF Rows, There
  <2>3. CASE ~There(x)
    <3> DEFINE p == write[r][x].tutor
    <3>1. does[r] = "insert" /\ x \in Writes(r) /\ db'[x] = write[r][x]
      BY <1>2, <2>1, <2>3, CommittedRow
    <3>2. There(p) \/ p \in Writes(r)
      BY <1>2, <2>1, <3>1 DEF Commit, FlushInv, ParentsThere
    <3>3. Whole(x, write[r][x])
      BY <3>1 DEF WriteInv, InsertInv
    <3>4. p \in Tutors
      BY <2>1, <3>3, WholeChild
    <3> QED
      BY <1>2, <3>1, <3>2, <3>4, CommittedRow DEF Rows, There
  <2> QED
    BY <2>2, <2>3
<1> QED
  BY <1>1, <1>2, Steps DEF vars, Settled, Flush

\* Sources and keys never outlive their tutor, whoever was adding them while
\* it was deleted.
THEOREM NothingOutlivesItsTutor == Spec => []NoOrphans
<1>1. Init => NoOrphans
  BY DEF Init, NoOrphans, There, Rows
<1> QED
  BY <1>1, InvAlways, OrphansStep, PTL DEF Spec

LEMMA SlugsStep ==
  TypeInv /\ WriteInv /\ FlushInv /\ SlugsDistinct /\ [Next]_vars => SlugsDistinct'
<1> SUFFICES ASSUME TypeInv, WriteInv, FlushInv, SlugsDistinct, [Next]_vars,
                    NEW u \in Tutors, NEW v \in Tutors, There(u)', There(v)',
                    db'[u].slug = db'[v].slug
             PROVE  u = v
  BY DEF SlugsDistinct
<1>1. CASE db' = db
  BY <1>1 DEF SlugsDistinct, There
<1>2. ASSUME NEW r \in Requests, Commit(r) PROVE u = v
  <2>1. ASSUME NEW w \in Tutors, There(w)'
        PROVE  \/ There(w) /\ db'[w].slug = db[w].slug
               \/ does[r] = "insert" /\ w \in Writes(r) /\ db'[w] = write[r][w]
    BY <1>2, <2>1, CommittedRow, CommittedOldRow DEF Rows, TypeInv, TypeOK
  <2>2. does[r] = "insert" => SlugFree(r) /\ InsertInv(r)
    BY <1>2 DEF Commit, FlushInv, WriteInv
  <2> QED
    BY <2>1, <2>2 DEF SlugFree, InsertInv, SlugsDistinct
<1> QED
  BY <1>1, <1>2, Steps DEF vars, Settled, Flush

\* No two tutors share a slug, however many are created at once.
THEOREM SlugsStayDistinct == Spec => []SlugsDistinct
<1>1. Init => SlugsDistinct
  BY DEF Init, SlugsDistinct, There, Rows
<1> QED
  BY <1>1, InvAlways, SlugsStep, PTL DEF Spec

-----------------------------------------------------------------------------
(* The overrun of the limit on sources.                                    *)

LEMMA SmallSets ==
  /\ Cardinality(Requests) \in Nat
  /\ \A A \in SUBSET Requests :
       IsFiniteSet(A) /\ Cardinality(A) \in Nat /\ Cardinality(A) <= Cardinality(Requests)
  /\ \A S \in SUBSET Sources : IsFiniteSet(S) /\ Cardinality(S) \in Nat
BY AdminAssumption, FS_Subset, FS_CardinalityType

LEMMA SettledCount ==
  ASSUME TypeInv, WriteInv, CountInv, NEW r \in Requests, Settled(r),
         NEW u \in Tutors, There(u)'
  PROVE  Cardinality(SourcesOf(u)') + Cardinality(Adders(u)') < MaxSources + Cardinality(Requests)
<1>1. There(u) /\ SourcesOf(u)' = SourcesOf(u)
  BY DEF Settled, There, SourcesOf
<1>2. Adders(u)' \subseteq Adders(u) \cup {r} /\ Adders(u)' \subseteq Requests
  BY DEF Settled, Adders, TypeInv, TypeOK, Shape, Writes
<1>3. Adders(u) \subseteq Requests /\ SourcesOf(u) \subseteq Sources
  BY DEF Adders, SourcesOf
<1>4. MaxSources \in Nat
  BY AdminAssumption
<1>5. CASE r \in Adders(u)'
  <2>1. Cardinality(SourcesOf(u)) < MaxSources
    BY <1>1, <1>5 DEF Settled
  <2> QED
    BY <1>1, <1>2, <1>3, <1>4, <2>1, SmallSets
<1>6. CASE r \notin Adders(u)'
  <2>1. Cardinality(Adders(u)') <= Cardinality(Adders(u))
    BY <1>2, <1>3, <1>6, SmallSets, FS_Subset
  <2>2. Cardinality(SourcesOf(u)) + Cardinality(Adders(u)) < MaxSources + Cardinality(Requests)
    BY <1>1 DEF CountInv
  <2> QED
    BY <1>1, <1>2, <1>3, <1>4, <2>1, <2>2, SmallSets
<1> QED
  BY <1>5, <1>6

\* What one commit does to the sources of a tutor and to those who add some.
LEMMA CommittedSources ==
  ASSUME TypeInv, WriteInv, FlushInv, NoOrphans, NEW r \in Requests, Commit(r),
         NEW u \in Tutors
  PROVE  /\ Adders(u)' \subseteq Adders(u) \ {r}
         /\ \A s \in SourcesOf(u)' \ SourcesOf(u) :
              /\ does[r] = "insert" /\ s \in Writes(r) \cap Sources
              /\ write[r][s].tutor = u
         /\ There(u)' /\ ~There(u) =>
              /\ does[r] = "insert" /\ u \in Writes(r)
              /\ SourcesOf(u) = {} /\ Adders(u)' = {}
<1>1. Adders(u)' \subseteq Adders(u) \ {r}
  BY Over DEF Adders, Commit
<1>2. does[r] \in {"insert", "update", "delete"}
  BY DEF TypeInv, TypeOK
<1>3. ASSUME NEW s \in SourcesOf(u)' \ SourcesOf(u)
      PROVE  /\ does[r] = "insert" /\ s \in Writes(r) \cap Sources
             /\ write[r][s].tutor = u
  <2>1. s \in Sources /\ There(s)' /\ db'[s].tutor = u
    BY <1>3 DEF SourcesOf
  <2>2. s \in Rows /\ s \notin Tutors
    BY <2>1, AdminAssumption DEF Rows
  <2>3. ~There(s)
    BY <1>3, <2>1, <2>2, CommittedOldRow DEF SourcesOf
  <2> QED
    BY <1>2, <2>1, <2>2, <2>3, CommittedRow
<1>4. ASSUME There(u)', ~There(u)
      PROVE  /\ does[r] = "insert" /\ u \in Writes(r)
             /\ SourcesOf(u) = {} /\ Adders(u)' = {}
  <2>1. does[r] = "insert" /\ u \in Writes(r)
    BY <1>2, <1>4, CommittedRow DEF Rows
  <2>2. SourcesOf(u) = {}
    BY <1>4 DEF SourcesOf, NoOrphans
  <2>3. ASSUME NEW q \in Adders(u) \ {r} PROVE FALSE
    <3>1. PICK s \in Writes(q) \cap Sources : write[q][s].tutor = u
      BY DEF Adders
    <3>2. does[q] = "insert" /\ q \in Requests /\ s \notin Tutors
      BY AdminAssumption DEF Adders
    <3>3. Apart(r, q)
      BY <3>2 DEF WriteInv
    <3> QED
      BY <2>1, <3>1, <3>2, <3>3 DEF Apart
  <2> QED
    BY <1>1, <2>1, <2>2, <2>3
<1> QED
  BY <1>1, <1>3, <1>4

LEMMA CommittedCount ==
  ASSUME TypeInv, WriteInv, FlushInv, NoOrphans, CountInv, NEW r \in Requests, Commit(r),
         NEW u \in Tutors, There(u)'
  PROVE  Cardinality(SourcesOf(u)') + Cardinality(Adders(u)') < MaxSources + Cardinality(Requests)
<1> DEFINE S == SourcesOf(u)
           T == SourcesOf(u)'
           A == Adders(u)
           B == Adders(u)'
<1>1. /\ S \subseteq Sources /\ T \subseteq Sources
      /\ A \subseteq Requests /\ B \subseteq A \ {r}
  BY CommittedSources DEF SourcesOf, Adders
<1>2. /\ MaxSources \in Nat /\ Cardinality(Requests) \in Nat /\ Cardinality(Requests) > 0
      /\ IsFiniteSet(S) /\ IsFiniteSet(T) /\ IsFiniteSet(A) /\ IsFiniteSet(B)
      /\ Cardinality(S) \in Nat /\ Cardinality(T) \in Nat
      /\ Cardinality(A) \in Nat /\ Cardinality(B) \in Nat
  <2>1. Cardinality(Requests) > 0
    BY AdminAssumption, SmallSets, FS_EmptySet
  <2> QED
    BY <1>1, <2>1, SmallSets, AdminAssumption
<1> HIDE DEF S, T, A, B
<1>3. Cardinality(B) <= Cardinality(A)
  BY <1>1, <1>2, FS_Subset
<1>4. CASE There(u)
  <2>1. Cardinality(S) + Cardinality(A) < MaxSources + Cardinality(Requests)
    BY <1>4 DEF CountInv, S, A
  <2>2. CASE T \subseteq S
    <3>1. Cardinality(T) <= Cardinality(S)
      BY <1>2, <2>2, FS_Subset
    <3> QED
      BY <1>2, <1>3, <2>1, <3>1 DEF T, B
  <2>3. ASSUME NEW s \in T, s \notin S
        PROVE  Cardinality(T) + Cardinality(B) < MaxSources + Cardinality(Requests)
    <3>1. does[r] = "insert" /\ s \in Writes(r) \cap Sources /\ write[r][s].tutor = u
      BY <2>3, CommittedSources DEF S, T
    <3>2. r \in A
      BY <3>1 DEF A, Adders
    <3>3. InsertInv(r) /\ u \notin Writes(r) /\ s \notin Tutors
      BY <1>4, <3>1, AdminAssumption DEF WriteInv, InsertInv
    <3>4. Writes(r) = {s}
      <4>1. ASSUME NEW v \in Writes(r) \cap Tutors PROVE FALSE
        BY <3>1, <3>3 DEF InsertInv
      <4>2. PICK x \in Rows : Writes(r) = {x}
        BY <3>1, <3>3, <4>1 DEF InsertInv
      <4> QED
        BY <3>1, <4>2
    <3>5. T \subseteq S \cup {s}
      BY <3>4, CommittedSources DEF S, T
    <3>6. Cardinality(T) <= Cardinality(S) + 1
      <4>1. IsFiniteSet(S \cup {s}) /\ Cardinality(S \cup {s}) = Cardinality(S) + 1
        BY <1>2, <2>3, FS_AddElement
      <4> QED
        BY <3>5, <4>1, FS_Subset
    <3>7. Cardinality(B) <= Cardinality(A) - 1
      <4>1. IsFiniteSet(A \ {r}) /\ Cardinality(A \ {r}) = Cardinality(A) - 1
        BY <1>2, <3>2, FS_RemoveElement
      <4> QED
        BY <1>1, <4>1, FS_Subset
    <3> QED
      BY <1>2, <2>1, <3>6, <3>7
  <2> QED
    BY <2>2, <2>3 DEF T, B
<1>5. CASE ~There(u)
  <2>1. does[r] = "insert" /\ u \in Writes(r) /\ S = {} /\ B = {}
    BY <1>5, CommittedSources DEF S, B
  <2>2. T \subseteq Writes(r) \cap Sources
    BY <2>1, CommittedSources DEF S, T
  <2>3. Cardinality(Writes(r) \cap Sources) <= MaxSources
    BY <2>1 DEF WriteInv, InsertInv
  <2>4. Cardinality(T) <= MaxSources
    BY <1>2, <2>2, <2>3, SmallSets, FS_Subset
  <2> QED
    BY <1>2, <2>1, <2>4, FS_EmptySet DEF T, B
<1> QED
  BY <1>4, <1>5

LEMMA CountStep ==
  TypeInv /\ WriteInv /\ FlushInv /\ NoOrphans /\ CountInv /\ [Next]_vars => CountInv'
<1> SUFFICES ASSUME TypeInv, WriteInv, FlushInv, NoOrphans, CountInv, [Next]_vars,
                    NEW u \in Tutors, There(u)'
             PROVE  Cardinality(SourcesOf(u)') + Cardinality(Adders(u)')
                      < MaxSources + Cardinality(Requests)
  BY DEF CountInv
<1>1. CASE UNCHANGED <<db, does, write>>
  <2>1. There(u) /\ SourcesOf(u)' = SourcesOf(u) /\ Adders(u)' = Adders(u)
    BY <1>1 DEF There, SourcesOf, Adders, Writes
  <2> QED
    BY <2>1 DEF CountInv
<1> QED
  BY <1>1, SettledCount, CommittedCount, Steps DEF vars, Flush

\* Whatever the requests in flight read before they added a source, the
\* limit is overrun by less than their number.
THEOREM OverrunIsBounded == Spec => []LimitOverrun
<1>1. Init => CountInv
  BY DEF Init, CountInv, There, Rows
<1>2. TypeInv /\ NoOrphans /\ CountInv => LimitOverrun
  <2> SUFFICES ASSUME TypeInv, NoOrphans, CountInv, NEW u \in Tutors
               PROVE  Cardinality(SourcesOf(u)) < MaxSources + Cardinality(Requests)
    BY DEF LimitOverrun
  <2>1. SourcesOf(u) \subseteq Sources /\ Adders(u) \subseteq Requests
    BY DEF SourcesOf, Adders
  <2>2. MaxSources \in Nat \ {0}
    BY AdminAssumption
  <2>3. CASE There(u)
    BY <2>1, <2>2, <2>3, SmallSets DEF CountInv
  <2>4. CASE ~There(u)
    <3>1. SourcesOf(u) = {}
      BY <2>4 DEF SourcesOf, NoOrphans
    <3> QED
      BY <2>2, <3>1, SmallSets, FS_EmptySet
  <2> QED
    BY <2>3, <2>4
<1> QED
  BY <1>1, <1>2, InvAlways, NothingOutlivesItsTutor, CountStep, PTL DEF Spec
=============================================================================
