----------------------------- MODULE TutorAdmin -----------------------------
(***************************************************************************)
(* The administration of tutors: TutorService and EmbedService, called by  *)
(* the routes of app/api/v1/tutors.py and embed_keys.py, and the one write *)
(* of the public side to the same rows (last_used_at, on every session     *)
(* opened with a key).                                                     *)
(*                                                                         *)
(* Every request has a database session of its own.  It reads, it decides  *)
(* by what it read, it flushes its writes, which then hold their rows      *)
(* locked, and it commits.  Requests do as many operations as they like,   *)
(* one after the other, and what one of them read may be old by the time   *)
(* it is used.  Locks are those of PostgreSQL: SQLite has one for all, and *)
(* so fewer interleavings.                                                 *)
(*                                                                         *)
(* A row is a function from its columns to their values.  Labels, texts    *)
(* and origins are one column, title; slugs are numbered, the n-th being   *)
(* the base with suffix n.                                                 *)
(***************************************************************************)
EXTENDS Integers, FiniteSets

CONSTANTS
  Requests,
  Tutors, Sources, Keys,   \* identifiers
  MaxSources,  \* settings.max_sources_per_tutor
  MaxSlug,     \* the last slug that is tried
  Titles,
  NoRow

Rows == Tutors \cup Sources \cup Keys
Status == {"active", "inactive"}

TutorRow == [slug : 1 .. MaxSlug, title : Titles, status : Status]
SourceRow == [tutor : Tutors]
KeyRow == [tutor : Tutors, active : BOOLEAN, used : BOOLEAN]
Columns == {"slug", "title", "status", "tutor", "active", "used"}

ASSUME AdminAssumption ==
  /\ IsFiniteSet(Requests) /\ Requests # {} /\ IsFiniteSet(Sources)
  /\ Tutors \cap Sources = {} /\ Tutors \cap Keys = {} /\ Sources \cap Keys = {}
  /\ MaxSources \in Nat \ {0} /\ MaxSlug \in Nat \ {0}
  /\ NoRow \notin TutorRow \cup SourceRow \cup KeyRow

VARIABLES
  db,     \* the committed rows
  pc,
  does,   \* "insert", "update" or "delete"
  write,  \* the rows to write, each with the columns to set
  sent,   \* columns the payload of the request sets
  exact   \* whether the slug was asked for, or is derived from the title

vars == <<db, pc, does, write, sent, exact>>

There(x) == db[x] # NoRow
ChildrenOf(u) == {x \in Sources \cup Keys : There(x) /\ db[x].tutor = u}
SourcesOf(u) == {x \in Sources : There(x) /\ db[x].tutor = u}
Writes(r) == DOMAIN write[r]

\* A new identifier: one that no row and no request knows (any more).
Unused(ids) ==
  {x \in ids : /\ ~There(x)
              /\ \A r \in Requests : \A y \in Writes(r) :
                   y # x /\ (does[r] = "insert" /\ y \notin Tutors => write[r][y].tutor # x)}

TypeOK ==
  /\ \A u \in Tutors : db[u] \in TutorRow \cup {NoRow}
  /\ \A s \in Sources : db[s] \in SourceRow \cup {NoRow}
  /\ \A k \in Keys : db[k] \in KeyRow \cup {NoRow}
  /\ pc \in [Requests -> {"idle", "choosing", "ready", "flushed"}]
  /\ does \in [Requests -> {"insert", "update", "delete"}]
  /\ \A r \in Requests : Writes(r) \subseteq Rows /\ sent[r] \subseteq Columns
  /\ exact \in [Requests -> BOOLEAN]

NoWrite == [x \in {} |-> NoRow]

Init ==
  /\ db = [x \in Rows |-> NoRow]
  /\ pc = [r \in Requests |-> "idle"]
  /\ does = [r \in Requests |-> "update"]
  /\ write = [r \in Requests |-> NoWrite]
  /\ sent = [r \in Requests |-> {}]
  /\ exact = [r \in Requests |-> FALSE]

-----------------------------------------------------------------------------
(* What a request reads and what it decides to write.                      *)

\* The request is over and its database session closed.
End(r) ==
  /\ pc' = [pc EXCEPT ![r] = "idle"]
  /\ does' = [does EXCEPT ![r] = "update"]
  /\ write' = [write EXCEPT ![r] = NoWrite]
  /\ sent' = [sent EXCEPT ![r] = {}]
  /\ exact' = [exact EXCEPT ![r] = FALSE]

Prepare(r, what, rows, columns) ==
  /\ pc[r] = "idle"
  /\ pc' = [pc EXCEPT ![r] = "ready"]
  /\ does' = [does EXCEPT ![r] = what]
  /\ write' = [write EXCEPT ![r] = rows]
  /\ sent' = [sent EXCEPT ![r] = columns]
  /\ UNCHANGED <<db, exact>>

\* TutorService.create, up to the choice of a slug.
Create(r) ==
  \E u \in Unused(Tutors), S \in SUBSET Unused(Sources), t \in Titles, st \in Status,
     n \in 1 .. MaxSlug, e \in BOOLEAN :
    /\ pc[r] = "idle"
    /\ Cardinality(S) <= MaxSources
    /\ e \/ n = 1
    /\ pc' = [pc EXCEPT ![r] = "choosing"]
    /\ does' = [does EXCEPT ![r] = "insert"]
    /\ write' = [write EXCEPT ![r] = [x \in {u} \cup S |->
         IF x = u THEN [slug |-> n, title |-> t, status |-> st] ELSE [tutor |-> u]]]
    /\ sent' = [sent EXCEPT ![r] = {}]
    /\ exact' = [exact EXCEPT ![r] = e]
    /\ UNCHANGED db

\* slug_exists, one candidate after the other.  A slug that was asked for
\* and is taken is answered 409; a derived one gets the next suffix.
ChooseSlug(r) ==
  \E u \in Writes(r) \cap Tutors :
    LET n == write[r][u].slug
        taken == \E v \in Tutors : There(v) /\ db[v].slug = n
    IN  /\ pc[r] = "choosing"
        /\ \/ ~taken /\ pc' = [pc EXCEPT ![r] = "ready"]
              /\ UNCHANGED <<does, write, sent, exact>>
           \/ /\ taken /\ ~exact[r] /\ n < MaxSlug
              /\ write' = [write EXCEPT ![r][u].slug = n + 1]
              /\ UNCHANGED <<pc, does, sent, exact>>
           \/ taken /\ (exact[r] \/ n = MaxSlug) /\ End(r)
        /\ UNCHANGED db

\* Mutant: UPDATE writes the whole row as it was loaded.
AllColumns(old, payload) ==
  [c \in DOMAIN old |-> IF c \in DOMAIN payload THEN payload[c] ELSE old[c]]

\* UPDATE names the columns whose value is not the one that was loaded.
Changed(old, payload) ==
  [c \in {d \in DOMAIN payload : payload[d] # old[d]} |-> payload[c]]

Alter(r, x, payload) ==
  /\ There(x)
  /\ Prepare(r, "update",
       IF Changed(db[x], payload) = [c \in {} |-> 0] THEN NoWrite
       ELSE [y \in {x} |-> Changed(db[x], payload)], DOMAIN payload)

\* TutorService.update, with any of its fields, and set_status.
Update(r) ==
  \E u \in Tutors, t \in Titles, st \in Status :
    \/ Alter(r, u, [title |-> t])
    \/ Alter(r, u, [status |-> st])
    \/ Alter(r, u, [title |-> t, status |-> st])

Delete(r) ==
  \E u \in Tutors :
    /\ There(u)
    /\ Prepare(r, "delete", [x \in {u} \cup ChildrenOf(u) |-> NoRow], {})

\* Mutant: the limit itself is let through.
HasRoomForOneMore(u) == Cardinality(SourcesOf(u)) <= MaxSources

HasRoom(u) == Cardinality(SourcesOf(u)) < MaxSources

AddSource(r) ==
  \E u \in Tutors, s \in Unused(Sources) :
    /\ There(u) /\ HasRoom(u)
    /\ Prepare(r, "insert", [x \in {s} |-> [tutor |-> u]], {})

RemoveSource(r) ==
  \E s \in Sources :
    /\ There(s)
    /\ Prepare(r, "delete", [x \in {s} |-> NoRow], {})

CreateKey(r) ==
  \E u \in Tutors, k \in Unused(Keys) :
    /\ There(u)
    /\ Prepare(r, "insert", [x \in {k} |-> [tutor |-> u, active |-> TRUE, used |-> FALSE]], {})

RevokeKey(r) == \E k \in Keys : Alter(r, k, [active |-> FALSE])

\* EmbedService.authorize; the session it opens is not modelled here.  Each
\* use writes, as it is later than the last.
UseKey(r) ==
  \E k \in Keys :
    /\ There(k) /\ db[k].active
    /\ There(db[k].tutor) /\ db[db[k].tutor].status = "active"
    /\ Prepare(r, "update", [x \in {k} |-> [used |-> TRUE]], {"used"})

-----------------------------------------------------------------------------
(* The database.                                                           *)

\* Tutors whose row has to stay as long as the request has it locked: those
\* it writes, and those it writes a child of.
Under(r) ==
  {u \in Tutors : \E x \in Writes(r) :
     \/ x = u
     \/ x \notin Tutors /\ does[r] = "insert" /\ write[r][x].tutor = u
     \/ x \notin Tutors /\ There(x) /\ db[x].tutor = u}

DeletesTutor(r) == does[r] = "delete" /\ Writes(r) \cap Tutors # {}

\* Two requests that cannot both have flushed: one waits for the other.
Clash(r, q) ==
  \/ Writes(r) \cap Writes(q) # {}
  \/ (DeletesTutor(r) \/ DeletesTutor(q)) /\ Under(r) \cap Under(q) # {}
  \/ \E u \in Writes(r) \cap Tutors, v \in Writes(q) \cap Tutors :
       does[r] = "insert" /\ does[q] = "insert" /\ write[r][u].slug = write[q][v].slug

Waits(r) == \E q \in Requests \ {r} : pc[q] = "flushed" /\ Clash(r, q)

\* Mutant: tutors.slug without its UNIQUE.
AnySlug(r) == TRUE

SlugFree(r) ==
  \A u \in Writes(r) \cap Tutors, v \in Tutors :
    There(v) => db[v].slug # write[r][u].slug

ParentsThere(r) ==
  \A x \in Writes(r) \ Tutors : There(write[r][x].tutor) \/ write[r][x].tutor \in Writes(r)

\* The statement goes through: INSERT meets UNIQUE and its foreign keys,
\* UPDATE finds its row.  DELETE of a row that is gone is only a warning.
Accepted(r) ==
  CASE does[r] = "insert" -> SlugFree(r) /\ ParentsThere(r)
    [] does[r] = "update" -> \A x \in Writes(r) : There(x)
    [] does[r] = "delete" -> TRUE

Flush(r) ==
  /\ pc[r] = "ready" /\ ~Waits(r) /\ Accepted(r)
  /\ pc' = [pc EXCEPT ![r] = "flushed"]
  /\ UNCHANGED <<db, does, write, sent, exact>>

\* Any end but a good one: IntegrityError, StaleDataError, a client that
\* goes away, a crash.
Rollback(r) ==
  /\ pc[r] # "idle"
  /\ End(r)
  /\ UNCHANGED db

\* Mutant: only the children the request had loaded go with their tutor.
Loaded(r, x) == x \in Writes(r)

\* ON DELETE CASCADE takes the children the request had not loaded as well.
Goes(r, x) == x \in Writes(r) \/ (x \notin Tutors /\ There(x) /\ db[x].tutor \in Writes(r))

Commit(r) ==
  /\ pc[r] = "flushed"
  /\ db' = [x \in Rows |->
       CASE does[r] = "insert" /\ x \in Writes(r) -> write[r][x]
         [] does[r] = "update" /\ x \in Writes(r) -> AllColumns(db[x], write[r][x])
         [] does[r] = "delete" /\ Goes(r, x) -> NoRow
         [] OTHER -> db[x]]
  /\ End(r)

Next ==
  \E r \in Requests :
    \/ Create(r) \/ ChooseSlug(r) \/ Update(r) \/ Delete(r)
    \/ AddSource(r) \/ RemoveSource(r)
    \/ CreateKey(r) \/ RevokeKey(r) \/ UseKey(r)
    \/ Flush(r) \/ Rollback(r) \/ Commit(r)

Spec == Init /\ [][Next]_vars

-----------------------------------------------------------------------------
(* Properties.                                                             *)

\* Sources and keys go with their tutor, those too that were added while the
\* tutor was being deleted.
NoOrphans == \A x \in Sources \cup Keys : There(x) => There(db[x].tutor)

\* Two tutors never share a slug, although the check that a slug is free and
\* the INSERT that takes it are two steps.
SlugsDistinct ==
  \A u, v \in Tutors : There(u) /\ There(v) /\ db[u].slug = db[v].slug => u = v

\* The limit on sources is checked before the INSERT, so requests in flight
\* can overrun it, but by less than their number, however long it goes on.
LimitOverrun ==
  \A u \in Tutors : Cardinality(SourcesOf(u)) < MaxSources + Cardinality(Requests)

\* A column changes only when a request that sent it commits: an edit never
\* takes back another edit, and a session opened never revives a revoked key.
OnlySentColumnsChange ==
  [][\A x \in Rows : There(x) /\ There(x)' =>
       \A c \in DOMAIN db[x] :
         db'[x][c] # db[x][c] =>
           \E r \in Requests : pc[r] = "flushed" /\ pc'[r] = "idle" /\ c \in sent[r]]_vars
=============================================================================
