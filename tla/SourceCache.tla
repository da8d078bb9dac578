---------------------------- MODULE SourceCache ----------------------------
(***************************************************************************)
(* The cache of downloaded knowledge sources (table source_documents) and  *)
(* the requests that fill it through SourceService.load and load_many.     *)
(*                                                                         *)
(* Three kinds of request load sources of a tutor, each with a database    *)
(* session of its own: a chat turn loads the catalogue and then whatever   *)
(* its tools ask for, the status page loads the catalogue, and a refresh   *)
(* loads one source whatever its age.  All of a request's writes wait for  *)
(* its commit, and the rows it wrote stay locked until then.               *)
(*                                                                         *)
(* Only sources with a URL are here (inline text is never cached), and the *)
(* origin of each shows the texts of Published one after the other, each   *)
(* under a validator (ETag) of its own.  Whether a cached document is      *)
(* still fresh is left open: the TTL is a setting, and any time may pass.  *)
(***************************************************************************)
EXTENDS Integers, Sequences

CONSTANTS
  Sources,    \* numbered in the order of created_at
  Turns, Statuses, Refreshes,   \* the requests, by kind
  Published,  \* the texts an origin shows, one after the other
  Removable,  \* the sources an administrator may remove
  WholeDb,    \* TRUE: SQLite, one write lock; FALSE: PostgreSQL, row locks
  Breaks,     \* TRUE: a body may break off while it is read
  MaxBatches, \* bound on the loads of a turn
  Nobody

Requests == Turns \cup Statuses \cup Refreshes
Versions == 1 .. Len(Published)

\* What a row holds of a document, and what stands for no row.
Document == [text : Nat \ {0}, tag : Versions]
Absent == [text |-> 0, tag |-> 0]
Failed == [text |-> 0, tag |-> -1]
NotModified == [text |-> 0, tag |-> -2]

ASSUME CacheAssumption ==
  /\ Sources \subseteq Nat /\ Removable \subseteq Sources
  /\ Published \in Seq(Nat \ {0}) /\ Len(Published) > 0
  /\ WholeDb \in BOOLEAN /\ Breaks \in BOOLEAN
  /\ MaxBatches \in Nat \ {0}
  /\ Nobody \notin Requests
  /\ Turns \cap (Statuses \cup Refreshes) = {} /\ Statuses \cap Refreshes = {}

VARIABLES
  version,    \* what each origin shows now
  listed,     \* rows of tutor_sources
  row,        \* committed rows of source_documents
  writer,     \* whose uncommitted write is on the row
  draft,      \* what that write leaves in it
  pc, batches,
  silent,     \* turns that emitted no event yet
  object,     \* the document objects a request's identity map holds on to
  stage, plan, reply   \* of each source in the batch at hand

loading == <<stage, plan, reply>>
vars == <<version, listed, row, writer, draft, pc, batches, silent, object, loading>>

TypeOK ==
  /\ version \in [Sources -> Versions]
  /\ listed \subseteq Sources
  /\ row \in [Sources -> Document \cup {Absent}]
  /\ writer \in [Sources -> Requests \cup {Nobody}]
  /\ draft \in [Sources -> Document \cup {Absent}]
  /\ pc \in [Requests -> {"new", "arrived", "loading", "broken", "raised", "done", "failed"}]
  /\ batches \in [Requests -> Nat]
  /\ silent \subseteq Turns
  /\ object \in [Requests -> [Sources -> Document \cup {Absent}]]
  /\ stage \in [Requests -> [Sources -> {"no", "wanted", "asked", "answered"}]]
  /\ plan \in [Requests -> [Sources -> Document \cup {Absent}]]
  /\ reply \in [Requests -> [Sources -> Document \cup {Absent, Failed, NotModified}]]

Shown(s) == [text |-> Published[version[s]], tag |-> version[s]]

\* The cache is empty, or holds what the origin showed first.
Init ==
  /\ version = [s \in Sources |-> 1]
  /\ listed = Sources
  /\ row \in [Sources -> {Absent, [text |-> Published[1], tag |-> 1]}]
  /\ writer = [s \in Sources |-> Nobody]
  /\ draft = [s \in Sources |-> Absent]
  /\ pc = [r \in Requests |-> "new"]
  /\ batches = [r \in Requests |-> 0]
  /\ silent = Turns
  /\ object = [r \in Requests |-> [s \in Sources |-> Absent]]
  /\ stage = [r \in Requests |-> [s \in Sources |-> "no"]]
  /\ plan = [r \in Requests |-> [s \in Sources |-> Absent]]
  /\ reply = [r \in Requests |-> [s \in Sources |-> Absent]]

-----------------------------------------------------------------------------
(* Locks.  On SQLite a turn holds the write lock of the database from its  *)
(* first flush, before it loads anything, to its end.                      *)

Holds(r) ==
  \/ r \in Turns /\ pc[r] \in {"loading", "broken"}
  \/ \E s \in Sources : writer[s] = r

DbFreeFor(r) == \A q \in Requests \ {r} : ~Holds(q)

CanWrite(r, s) ==
  IF WholeDb THEN DbFreeFor(r) ELSE writer[s] \in {r, Nobody}

\* Mutant: a request that ends badly keeps its transaction open.
ReleaseNothing(r) == UNCHANGED <<writer, draft>>

\* The locks of a transaction end with it.
Release(r) ==
  /\ writer' = [s \in Sources |-> IF writer[s] = r THEN Nobody ELSE writer[s]]
  /\ draft' = [s \in Sources |-> IF writer[s] = r THEN Absent ELSE draft[s]]

\* The request forgets the batch it was working on.
Forget(r) ==
  /\ stage' = [stage EXCEPT ![r] = [s \in Sources |-> "no"]]
  /\ plan' = [plan EXCEPT ![r] = [s \in Sources |-> Absent]]
  /\ reply' = [reply EXCEPT ![r] = [s \in Sources |-> Absent]]

Discard(r, end) ==
  /\ pc' = [pc EXCEPT ![r] = end]
  /\ Release(r)
  /\ Forget(r)
  /\ object' = [object EXCEPT ![r] = [s \in Sources |-> Absent]]
  /\ UNCHANGED <<version, listed, row, batches, silent>>

-----------------------------------------------------------------------------
(* A request.                                                              *)

\* The tutor is loaded, and with it its sources and their documents: those
\* objects live, with the values read here, as long as the request.
Arrive(r) ==
  /\ pc[r] = "new"
  /\ pc' = [pc EXCEPT ![r] = "arrived"]
  /\ object' = [object EXCEPT ![r] = [s \in Sources |-> IF s \in listed THEN row[s] ELSE Absent]]
  /\ UNCHANGED <<version, listed, row, writer, draft, batches, silent, loading>>

\* A turn stores its question; on SQLite that takes the write lock, or fails
\* when the driver has waited too long for it.
Enter(r) ==
  /\ pc[r] = "arrived"
  /\ r \in Turns /\ WholeDb => DbFreeFor(r)
  /\ pc' = [pc EXCEPT ![r] = "loading"]
  /\ UNCHANGED <<version, listed, row, writer, draft, batches, silent, object, loading>>

TurnedAway(r) ==
  /\ pc[r] = "arrived"
  /\ r \in Turns /\ WholeDb /\ ~DbFreeFor(r)
  /\ Discard(r, "failed")

\* Nothing of a batch is left to do.
Loaded(r) == pc[r] = "loading" /\ \A s \in Sources : stage[r][s] = "no"

\* The instructions of a turn need the whole catalogue; its tools, whose
\* calls are events, one source at a time or the catalogue again.
Batches(r) ==
  IF r \in Refreshes THEN {{s} : s \in listed}
  ELSE IF r \in Statuses \/ batches[r] = 0 THEN {listed}
  ELSE {listed} \cup {{s} : s \in listed}

Begin(r) ==
  /\ Loaded(r)
  /\ batches[r] < IF r \in Turns THEN MaxBatches ELSE 1
  /\ \E B \in Batches(r) :
       stage' = [stage EXCEPT ![r] = [s \in Sources |-> IF s \in B THEN "wanted" ELSE "no"]]
  /\ batches' = [batches EXCEPT ![r] = @ + 1]
  /\ silent' = IF batches[r] > 0 THEN silent \ {r} ELSE silent
  /\ UNCHANGED <<version, listed, row, writer, draft, pc, object, plan, reply>>

IsNext(r, s, st) ==
  /\ pc[r] = "loading" /\ stage[r][s] = st
  /\ \A t \in Sources : t < s => stage[r][t] # st

\* A row as the request sees it.
Visible(r, s) == IF writer[s] = r THEN draft[s] ELSE row[s]

\* Mutant: source.document is read in place of the table.
PlannedObject(r, s) == object[r][s]

\* SELECT finds the row, but an object already in the identity map keeps
\* the values it was loaded with.
Planned(r, s) == IF object[r][s] # Absent THEN object[r][s] ELSE Visible(r, s)

Plan(r, s) ==
  /\ IsNext(r, s, "wanted")
  /\ plan' = [plan EXCEPT ![r][s] = Planned(r, s)]
  /\ \/ /\ Planned(r, s) # Absent /\ r \notin Refreshes
        /\ stage' = [stage EXCEPT ![r][s] = "no"]
     \/ stage' = [stage EXCEPT ![r][s] = "asked"]
  /\ UNCHANGED <<version, listed, row, writer, draft, pc, batches, silent, object, reply>>

Asking(r, s) ==
  /\ pc[r] = "loading" /\ stage[r][s] = "asked"
  /\ \A t \in Sources : stage[r][t] # "wanted"

\* The origin answers: unchanged, the document it shows now, or not at all.
Fetch(r, s) ==
  /\ Asking(r, s)
  /\ \E a \in {Failed, IF plan[r][s].tag = version[s] THEN NotModified ELSE Shown(s)} :
       reply' = [reply EXCEPT ![r][s] = a]
  /\ stage' = [stage EXCEPT ![r][s] = "answered"]
  /\ UNCHANGED <<version, listed, row, writer, draft, pc, batches, silent, object, plan>>

\* Only SourceFetchError is caught: an error while the body is read is not.
FetchBreaks(r, s) ==
  /\ Breaks /\ Asking(r, s)
  /\ pc' = [pc EXCEPT ![r] = "broken"]
  /\ Forget(r)
  /\ UNCHANGED <<version, listed, row, writer, draft, batches, silent, object>>

\* Mutant: answers are stored as they arrive.
StoringAny(r, s) ==
  pc[r] = "loading" /\ stage[r][s] = "answered"

\* Answers are stored one after the other once all are there.
Storing(r, s) ==
  /\ IsNext(r, s, "answered")
  /\ \A t \in Sources : stage[r][t] \notin {"wanted", "asked"}

\* The row that INSERT needs free, or that UPDATE needs there.
Storable(r, s) ==
  IF plan[r][s] = Absent THEN s \in listed /\ Visible(r, s) = Absent
                         ELSE Visible(r, s) # Absent

\* Mutant: the validators of the new document are not kept.
WrittenUntagged(r, s) ==
  IF reply[r][s] = NotModified THEN Visible(r, s)
  ELSE IF plan[r][s] = Absent THEN reply[r][s]
  ELSE [text |-> reply[r][s].text, tag |-> Visible(r, s).tag]

\* What the flush leaves in the row.  UPDATE names only the columns whose
\* value differs from the one the object was loaded with.
Written(r, s) ==
  LET new == reply[r][s]
      old == plan[r][s]
      is == Visible(r, s)
  IN  IF new = NotModified THEN is
      ELSE IF old = Absent THEN new
      ELSE [text |-> IF new.text = old.text THEN is.text ELSE new.text,
            tag |-> IF new.tag = old.tag THEN is.tag ELSE new.tag]

\* Mutant: after a failed download the document in hand is written back.
StoreWritesBack(r, s) ==
  /\ Storing(r, s) /\ CanWrite(r, s) /\ Storable(r, s)
  /\ stage' = [stage EXCEPT ![r][s] = "no"]
  /\ writer' = [writer EXCEPT ![s] = r]
  /\ draft' = [draft EXCEPT ![s] =
       IF reply[r][s] = Failed THEN plan[r][s] ELSE Written(r, s)]
  /\ UNCHANGED <<version, listed, row, pc, batches, silent, object, plan, reply>>

\* A failed download leaves the cache alone; any other answer is flushed.
Store(r, s) ==
  /\ Storing(r, s)
  /\ stage' = [stage EXCEPT ![r][s] = "no"]
  /\ \/ reply[r][s] = Failed /\ UNCHANGED <<writer, draft, object>>
     \/ /\ reply[r][s] # Failed /\ CanWrite(r, s) /\ Storable(r, s)
        /\ writer' = [writer EXCEPT ![s] = r]
        /\ draft' = [draft EXCEPT ![s] = Written(r, s)]
        /\ object' = [object EXCEPT ![r][s] =
             IF @ = Absent \/ reply[r][s] = NotModified THEN @ ELSE reply[r][s]]
  /\ UNCHANGED <<version, listed, row, pc, batches, silent, plan, reply>>

\* IntegrityError when another request's INSERT got there first or the source
\* is gone, StaleDataError when the row is, OperationalError when SQLite stays
\* locked.  A flush that fails rolls the transaction back.
StoreRaises(r, s) ==
  /\ Storing(r, s) /\ reply[r][s] # Failed
  /\ \/ CanWrite(r, s) /\ ~Storable(r, s)
     \/ WholeDb /\ ~CanWrite(r, s)
  /\ Discard(r, "raised")

\* The row that keeps a request waiting, and the request it waits for.
Awaits(r, q) ==
  \E s \in Sources :
    Storing(r, s) /\ reply[r][s] # Failed /\ writer[s] = q /\ q # r

\* PostgreSQL finds a cycle of waiting transactions and fails one of them.
DeadlockVictim(r) ==
  /\ ~WholeDb
  /\ \E q \in Requests : Awaits(r, q) /\ Awaits(q, r)
  /\ Discard(r, "raised")

\* After a network error the runner starts a run that emitted nothing over,
\* in the same transaction; it does not after a failed flush.
Rerun(r) ==
  /\ pc[r] = "broken" /\ r \in silent /\ batches[r] < MaxBatches
  /\ pc' = [pc EXCEPT ![r] = "loading"]
  /\ stage' = [stage EXCEPT ![r] = [s \in Sources |-> IF s \in listed THEN "wanted" ELSE "no"]]
  /\ batches' = [batches EXCEPT ![r] = @ + 1]
  /\ UNCHANGED <<version, listed, row, writer, draft, silent, object, plan, reply>>

\* Whatever ends the request: the error, the agent's deadline, a client that
\* goes away.
Rollback(r) ==
  /\ pc[r] \in {"broken", "raised"} \/ (r \in Turns /\ pc[r] = "loading")
  /\ Discard(r, "failed")

\* The source to refresh is not there (any more).
NotFound(r) ==
  /\ r \in Refreshes /\ Loaded(r) /\ batches[r] = 0 /\ listed # Sources
  /\ Discard(r, "failed")

Commit(r) ==
  /\ Loaded(r) /\ batches[r] > 0
  /\ row' = [s \in Sources |-> IF writer[s] = r THEN draft[s] ELSE row[s]]
  /\ pc' = [pc EXCEPT ![r] = "done"]
  /\ Release(r)
  /\ Forget(r)
  /\ object' = [object EXCEPT ![r] = [s \in Sources |-> Absent]]
  /\ UNCHANGED <<version, listed, batches, silent>>

-----------------------------------------------------------------------------
(* The rest of the world.                                                  *)

Edit(s) ==
  /\ version[s] < Len(Published)
  /\ version' = [version EXCEPT ![s] = @ + 1]
  /\ UNCHANGED <<listed, row, writer, draft, pc, batches, silent, object, loading>>

\* TutorService.remove_source; the document goes with its source.
Remove(s) ==
  /\ s \in listed \cap Removable
  /\ IF WholeDb THEN DbFreeFor(Nobody) ELSE writer[s] = Nobody
  /\ listed' = listed \ {s}
  /\ row' = [row EXCEPT ![s] = Absent]
  /\ UNCHANGED <<version, writer, draft, pc, batches, silent, object, loading>>

Progress(r) ==
  \/ Enter(r) \/ TurnedAway(r) \/ Begin(r) \/ NotFound(r) \/ Commit(r) \/ DeadlockVictim(r)
  \/ \E s \in Sources :
       Plan(r, s) \/ Fetch(r, s) \/ FetchBreaks(r, s) \/ Store(r, s) \/ StoreRaises(r, s)

Next ==
  \/ \E r \in Requests : Arrive(r) \/ Progress(r) \/ Rerun(r) \/ Rollback(r)
  \/ \E s \in Sources : Edit(s) \/ Remove(s)

Spec == Init /\ [][Next]_vars

\* Downloads and the driver's waits have timeouts, a run has its deadline, and
\* a lock is taken when it is free.
FairSpec ==
  /\ Spec
  /\ \A r \in Requests : WF_vars(Rollback(r) \/ Progress(r))

-----------------------------------------------------------------------------
(* Properties.                                                             *)

\* The validator in a row is the one its text was shown under: else the next
\* conditional request would be answered 304 for another text, for ever.
Coherent ==
  \A s \in Sources : row[s] # Absent => row[s].text = Published[row[s].tag]

\* What SourceService.load promises: no failure propagates as an exception.
LoadNeverRaises == \A r \in Requests : pc[r] \notin {"broken", "raised"}

\* Two requests that are loading their first catalogue never wait for each
\* other, in whatever order their downloads end.
CatalogueNeverDeadlocks ==
  \A r, q \in Requests :
    Awaits(r, q) /\ Awaits(q, r) => batches[r] > 1 \/ batches[q] > 1

\* An older document never replaces a newer one.
NeverGoesBack ==
  [][\A s \in Sources : row'[s] # Absent => row'[s].tag >= row[s].tag]_vars

\* Every request that arrives ends, its locks with it.
EveryRequestEnds ==
  \A r \in Requests : pc[r] = "arrived" ~> pc[r] \in {"done", "failed"}
=============================================================================
