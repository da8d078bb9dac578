----------------------------- MODULE AgentTools -----------------------------
(***************************************************************************)
(* An agent run together with its tools: what list_sources,                *)
(* get_source_outline, search_source and fetch_source load, tell the model *)
(* and leave in AgentDeps for the DONE event.                              *)
(*                                                                         *)
(* The calls of a round run side by side, in the frameworks' own tasks and *)
(* over the one database session of the request.  That session holds one   *)
(* object per document, so all of them see its text as soon as one assigns *)
(* it.  It refuses a flush while another one is under way, and may refuse  *)
(* any statement while it is at another.                                   *)
(*                                                                         *)
(* A version is the number of a text the origin of a source showed, 0 no   *)
(* text at all.  Other requests, and the locks they hold, are in           *)
(* SourceCache.                                                            *)
(***************************************************************************)
EXTENDS AgentRun, SourceText

CONSTANTS
  Sources,   \* numbered in the order of created_at
  Inline,    \* those that have their text in the tutor
  Unknown,   \* an id that is none of theirs
  Texts,     \* of each source, the texts it shows one after the other
  Queries,   \* the words of a search
  Amounts,   \* max_chars or max_snippets, as the model asks for them
  MinRead, MaxRead, MaxSnippets  \* 500, MAX_READ_CHARS, MAX_SNIPPETS

ASSUME ToolsAssumption ==
  /\ Sources \subseteq Nat /\ Sources # {} /\ Inline \subseteq Sources /\ Unknown \in Nat \ Sources
  /\ Texts \in [Sources -> Seq(Seq(Lines))]
  /\ \A s \in Sources : Len(Texts[s]) > 0
  /\ \A s \in Inline : Len(Texts[s]) = 1
  \* The text of no characters has no lines.
  /\ \A s \in Sources : \A v \in 1 .. Len(Texts[s]) :
       ~(Len(Texts[s][v]) = 1 /\ Blank(Texts[s][v][1]))
  /\ Amounts \subseteq Int /\ MinRead \in Nat \ {0} /\ MaxRead \in Nat /\ MinRead <= MaxRead
  /\ MaxSnippets \in Nat \ {0}

Calls == 1 .. MaxCalls
Tools == {"list", "outline", "search", "fetch"}
Versions(s) == 0 .. Len(Texts[s])
Failed == -1

VARIABLES
  shown,     \* the version each origin shows
  view,      \* the version the session's document object has
  memo,      \* the version _chunk_cache was made from
  flushing,  \* the call whose flush is under way, or 0
  job,       \* what the model asked of each call
  stage,
  todo,      \* the sources a call has yet to plan
  asks,      \* those it downloads: the copy in hand, the answer
  outcome,   \* what it gave the model
  invocations, citations   \* of AgentDeps

work == <<job, stage, todo, asks, outcome>>
deps == <<invocations, citations>>
toolVars == <<shown, view, memo, flushing, work, deps>>
allVars == <<vars, toolVars>>

Text(s, v) == IF v = 0 THEN <<>> ELSE Texts[s][v]
Length(s, v) == IF Text(s, v) = <<>> THEN 0 ELSE Size(Text(s, v), UpTo(Len(Text(s, v))))

\* What a call quotes: a page, or a chunk; nothing.
Page(v, from, to) == <<v, from, to>>
Snippet(v, k) == <<v, k>>
Nothing == <<>>

NoJob == [tool |-> "list", source |-> Unknown, words |-> {}, offset |-> 0, amount |-> 0, round |-> 0]

\* What the model is told, but for a page.
Told(had, v, ok, quote) ==
  [ok |-> ok, had |-> had, version |-> v, quote |-> quote, next |-> 0, more |-> FALSE]

NoOutcome == Told(0, 0, FALSE, Nothing)

\* The tutor's sources come with the documents they have; a chat turn has
\* planned nothing yet.
ToolsInit ==
  /\ Init
  /\ shown = [s \in Sources |-> 1]
  /\ view \in [Sources -> {0, 1}] /\ \A s \in Inline : view[s] = 1
  /\ memo = [s \in Sources |-> 0]
  /\ flushing = 0
  /\ job = [c \in Calls |-> NoJob] /\ stage = [c \in Calls |-> "none"]
  /\ todo = [c \in Calls |-> {}] /\ asks = [c \in Calls |-> <<>>]
  /\ outcome = [c \in Calls |-> NoOutcome]
  /\ invocations = <<>> /\ citations = <<>>

-----------------------------------------------------------------------------
(* What a tool answers, once its source is loaded at version v.  From the  *)
(* end of the load to the invocation there is no await.                    *)

Clamp(low, x, high) == IF x < low THEN low ELSE IF x > high THEN high ELSE x

\* Mutant: the latest quotation of a source takes the place of the first.
RememberLatest(s, quote) ==
  IF quote = Nothing THEN citations
  ELSE Append(SelectSeq(citations, LAMBDA q : q.source # s), [source |-> s, quote |-> quote])

\* _remember_citation: the first quotation of a source stays.
Remember(s, quote) ==
  IF quote = Nothing \/ \E i \in DOMAIN citations : citations[i].source = s THEN citations
  ELSE Append(citations, [source |-> s, quote |-> quote])

\* Mutant: only what went well is reported.
RecordGood(c, o) ==
  /\ outcome' = [outcome EXCEPT ![c] = o]
  /\ invocations' = IF o.ok THEN Append(invocations, [call |-> c, ok |-> TRUE]) ELSE invocations
  /\ citations' = Remember(job[c].source, o.quote)
  /\ stage' = [stage EXCEPT ![c] = "done"]

\* _outcome.
Record(c, o) ==
  /\ outcome' = [outcome EXCEPT ![c] = o]
  /\ invocations' = Append(invocations, [call |-> c, ok |-> o.ok])
  /\ citations' = Remember(job[c].source, o.quote)
  /\ stage' = [stage EXCEPT ![c] = "done"]

AnswerList(c, cache) ==
  /\ job[c].tool = "list"
  /\ Record(c, Told(0, 0, TRUE, Nothing))
  /\ memo' = cache

AnswerOutline(c, had, v, cache) ==
  /\ job[c].tool = "outline"
  /\ Record(c, Told(had, v, Text(job[c].source, v) # <<>>, Nothing))
  /\ memo' = cache

\* SourceService.search over the chunks that are cached, if any are.
AnswerSearch(c, had, v, cache) ==
  LET s == job[c].source
      cut == IF cache[s] # 0 THEN cache[s] ELSE v
      limit == Clamp(1, job[c].amount, MaxSnippets)
  IN  /\ job[c].tool = "search"
      /\ IF Text(s, v) = <<>>
         THEN Record(c, Told(had, v, TRUE, Nothing)) /\ memo' = cache
         ELSE /\ memo' = [cache EXCEPT ![s] = cut]
              /\ \E found \in Results(Tidy(Text(s, cut)), job[c].words, limit) :
                   IF found = {} THEN Record(c, Told(had, v, TRUE, Nothing))
                   ELSE \E k \in found : Record(c, Told(had, v, TRUE, Snippet(cut, k)))

\* Mutant: the page that ends with the text is not known for the last.
AnswerFetchOnAndOn(c, had, v, cache) ==
  LET length == Length(job[c].source, v)
      from == Clamp(0, job[c].offset, length)
      to == Clamp(0, from + Clamp(MinRead, job[c].amount, MaxRead), length)
      page == [ok |-> TRUE, had |-> had, version |-> v, quote |-> Page(v, from, to),
               next |-> to, more |-> to <= length]
  IN  /\ job[c].tool = "fetch"
      /\ Record(c, IF from = to THEN Told(had, v, FALSE, Nothing) ELSE page)
      /\ memo' = cache

\* SourceService.read.
AnswerFetch(c, had, v, cache) ==
  LET length == Length(job[c].source, v)
      from == Clamp(0, job[c].offset, length)
      to == Clamp(0, from + Clamp(MinRead, job[c].amount, MaxRead), length)
      page == [ok |-> TRUE, had |-> had, version |-> v, quote |-> Page(v, from, to),
               next |-> to, more |-> to < length]
  IN  /\ job[c].tool = "fetch"
      /\ Record(c, IF from = to THEN Told(had, v, FALSE, Nothing) ELSE page)
      /\ memo' = cache

Loaded(c, had, v, cache) ==
  \/ AnswerList(c, cache) \/ AnswerOutline(c, had, v, cache)
  \/ AnswerSearch(c, had, v, cache) \/ AnswerFetch(c, had, v, cache)

-----------------------------------------------------------------------------
(* The steps of a call: SourceService.load, and load_many for the          *)
(* catalogue.  An error ends the call, and with it the run.                *)

To(c, st) == stage' = [stage EXCEPT ![c] = st]

\* The source is looked up and is not there.
NotFound(c) ==
  /\ stage[c] = "planning" /\ todo[c] = {Unknown}
  /\ todo' = [todo EXCEPT ![c] = {}]
  /\ Record(c, Told(0, 0, FALSE, Nothing))
  /\ UNCHANGED <<view, memo, flushing, asks>>

\* The catalogue is planned in its order.
Planning(c, s) ==
  /\ stage[c] = "planning" /\ s \in todo[c]
  /\ \A t \in todo[c] : s <= t
  /\ todo' = [todo EXCEPT ![c] = @ \ {s}]

Planned(c, s) == To(c, IF todo[c] = {s} THEN "fetching" ELSE "planning")

\* The text is at hand: inline, or cached and fresh.
PlanAtHand(c, s) ==
  /\ Planning(c, s)
  /\ view[s] # 0
  /\ IF todo[c] = {s} /\ asks[c] = <<>> THEN Loaded(c, view[s], view[s], memo)
     ELSE Planned(c, s) /\ UNCHANGED <<memo, outcome, deps>>
  /\ UNCHANGED <<view, flushing, asks>>

\* Mutant: inline sources are not told from the others.
PlanDownloadAny(c, s) ==
  /\ Planning(c, s)
  /\ asks' = [asks EXCEPT ![c] = Append(@, [source |-> s, had |-> view[s], got |-> Failed])]
  /\ Planned(c, s)
  /\ UNCHANGED <<view, memo, flushing, outcome, deps>>

\* It is not, or has expired.
PlanDownload(c, s) ==
  /\ Planning(c, s)
  /\ s \notin Inline
  /\ asks' = [asks EXCEPT ![c] = Append(@, [source |-> s, had |-> view[s], got |-> Failed])]
  /\ Planned(c, s)
  /\ UNCHANGED <<view, memo, flushing, outcome, deps>>

\* The session is at a SELECT or a flush of another call.
Occupied(c) == \E d \in Calls \ {c} : stage[d] \in {"planning", "flushing"}

\* It may then refuse the SELECT of this one, of a source or its document.
Refuse(c) ==
  /\ stage[c] = "planning" /\ Occupied(c)
  /\ To(c, "clashed")
  /\ UNCHANGED <<view, memo, flushing, todo, asks, outcome, deps>>

\* All downloads of the call have ended, some with SourceFetchError.
Download(c) ==
  /\ stage[c] = "fetching"
  /\ \E good \in SUBSET DOMAIN asks[c] :
       asks' = [asks EXCEPT ![c] = [i \in DOMAIN @ |->
                  [@[i] EXCEPT !.got = IF i \in good THEN shown[asks[c][i].source] ELSE Failed]]]
  /\ To(c, "storing")
  /\ UNCHANGED <<view, memo, flushing, todo, outcome, deps>>

\* Another error in a download, or the database refuses the flush.
Break(c) ==
  /\ stage[c] \in {"fetching", "flushing"}
  /\ To(c, "broken")
  /\ flushing' = IF flushing = c THEN 0 ELSE flushing
  /\ UNCHANGED <<view, memo, todo, asks, outcome, deps>>

\* The answer at hand is stored, at version v: on to the next, or done.
Stored(c, v, cache) ==
  /\ asks' = [asks EXCEPT ![c] = Tail(@)]
  /\ IF Tail(asks[c]) = <<>> THEN Loaded(c, Head(asks[c]).had, v, cache)
     ELSE To(c, "storing") /\ memo' = cache /\ UNCHANGED <<outcome, deps>>
  /\ UNCHANGED todo

\* Mutant: a failed download leaves no text.
KeepNothing(c) ==
  /\ stage[c] = "storing" /\ Head(asks[c]).got = Failed
  /\ Stored(c, 0, memo)
  /\ UNCHANGED <<view, flushing>>

\* A failed download: the copy in hand has to do.
Keep(c) ==
  LET a == Head(asks[c])
  IN  /\ stage[c] = "storing" /\ a.got = Failed
      /\ Stored(c, IF a.had = 0 THEN 0 ELSE view[a.source], memo)
      /\ UNCHANGED <<view, flushing>>

\* A 304 only extends the document's life, a new text is assigned to it.
Assigned(a) == IF a.got = a.had THEN view ELSE [view EXCEPT ![a.source] = a.got]

\* Mutant: a document is made for whatever was downloaded.
ClashesAlways(a) == flushing # 0 \/ view[a.source] # 0

\* The session is flushing already, or is given a second document of a source:
\* the flush is refused for certain.
Clashes(a) == flushing # 0 \/ (a.had = 0 /\ view[a.source] # 0)

Flush(c) ==
  LET a == Head(asks[c])
  IN  /\ stage[c] = "storing" /\ a.got # Failed /\ ~Clashes(a)
      /\ view' = Assigned(a) /\ flushing' = c
      /\ To(c, "flushing")
      /\ UNCHANGED <<memo, todo, asks, outcome, deps>>

Clash(c) ==
  LET a == Head(asks[c])
  IN  /\ stage[c] = "storing" /\ a.got # Failed /\ (Clashes(a) \/ Occupied(c))
      /\ view' = IF a.had = 0 THEN view ELSE Assigned(a)
      /\ To(c, "clashed")
      /\ UNCHANGED <<memo, flushing, todo, asks, outcome, deps>>

\* Mutant: the chunks of the text before are kept.
FlushEndsKeepingChunks(c) ==
  LET a == Head(asks[c])
  IN  /\ stage[c] = "flushing"
      /\ flushing' = 0
      /\ IF a.got = a.had THEN Stored(c, view[a.source], memo) ELSE Stored(c, a.got, memo)
      /\ UNCHANGED view

\* Only now are the chunks of the text before forgotten.
FlushEnds(c) ==
  LET a == Head(asks[c])
  IN  /\ stage[c] = "flushing"
      /\ flushing' = 0
      /\ IF a.got = a.had THEN Stored(c, view[a.source], memo)
         ELSE Stored(c, a.got, [memo EXCEPT ![a.source] = 0])
      /\ UNCHANGED view

Work(c) ==
  /\ at \in {"running", "yielding"}
  /\ \/ \E s \in Sources : PlanAtHand(c, s) \/ PlanDownload(c, s)
     \/ NotFound(c) \/ Refuse(c) \/ Download(c) \/ Break(c)
     \/ Keep(c) \/ Flush(c) \/ Clash(c) \/ FlushEnds(c)
  /\ UNCHANGED <<vars, shown, job>>

-----------------------------------------------------------------------------
(* The run.                                                                *)

\* Where a model may want to read on, from before the text to behind it.
Offsets ==
  {-1, 100} \cup {outcome[c].next : c \in {d \in Calls : stage[d] = "returned" /\ outcome[d].more}}

Request(tool, s, words, offset, amount) ==
  [tool |-> tool, source |-> s, words |-> words, offset |-> offset, amount |-> amount,
   round |-> turns]

\* The ids the model gives are those of the catalogue, or made up.
Requests ==
  LET ids == Sources \cup {Unknown}
  IN  {Request("list", Unknown, {}, 0, 0)}
      \cup {Request("outline", s, {}, 0, 0) : s \in ids}
      \cup {Request("search", s, words, 0, n) : s \in ids, words \in Queries, n \in Amounts}
      \cup {Request("fetch", s, {}, o, n) : s \in ids, o \in Offsets, n \in Amounts}

Call ==
  LET c == calls + 1
  IN  /\ CallTool
      /\ \E r \in Requests :
           /\ job' = [job EXCEPT ![c] = r]
           /\ todo' = [todo EXCEPT ![c] = IF r.tool = "list" THEN Sources ELSE {r.source}]
      /\ To(c, "planning")
      /\ UNCHANGED <<shown, view, memo, flushing, asks, outcome, deps>>

Return(c) ==
  /\ ToolReturns
  /\ stage[c] = "done" /\ To(c, "returned")
  /\ UNCHANGED <<shown, view, memo, flushing, job, todo, asks, outcome, deps>>

\* The catalogue in the instructions loads every source: Pydantic AI asks for
\* it before each turn, _build_prompt once an attempt.
Instruct(inDeltas) ==
  /\ BeginTurn(inDeltas)
  /\ \/ LangGraph /\ turns > 0 /\ UNCHANGED <<view, memo>>
     \/ /\ ~LangGraph \/ turns = 0
        /\ \E new \in SUBSET (Sources \ Inline) :
             /\ view' = [s \in Sources |-> IF s \in new THEN shown[s] ELSE view[s]]
             /\ memo' = [s \in Sources |-> IF s \in new THEN 0 ELSE memo[s]]
  /\ UNCHANGED <<shown, flushing, work, deps>>

\* An attempt that is not the last takes its records with it.
Fail(retryable) ==
  /\ Raise(retryable)
  /\ IF at' = "sleeping" THEN invocations' = <<>> /\ citations' = <<>> ELSE UNCHANGED deps
  /\ UNCHANGED <<shown, view, memo, flushing, work>>

Elsewhere ==
  /\ Resume \/ Say \/ EndTurn \/ Complete \/ Retry \/ Deadline \/ ClientGone \/ Close
  /\ UNCHANGED toolVars

\* The origin shows another text.
Edit(s) ==
  /\ shown[s] < Len(Texts[s]) /\ at \notin Ended
  /\ shown' = [shown EXCEPT ![s] = @ + 1]
  /\ UNCHANGED <<vars, view, memo, flushing, work, deps>>

ToolsNext ==
  \/ Call \/ Elsewhere
  \/ \E inDeltas \in BOOLEAN : Instruct(inDeltas)
  \/ \E retryable \in BOOLEAN : Fail(retryable)
  \/ \E c \in Calls : Return(c) \/ Work(c)
  \/ \E s \in Sources : Edit(s)

ToolsSpec == ToolsInit /\ [][ToolsNext]_allVars
ToolsFairSpec == ToolsSpec /\ WF_vars(Deadline) /\ WF_vars(Close)

-----------------------------------------------------------------------------
(* Properties.                                                             *)

Over(c) == stage[c] \in {"done", "returned"}
Clashed(c) == stage[c] = "clashed"
Raised(c) == stage[c] \in {"clashed", "broken"}

\* Records have their types: nothing but sources with a URL is downloaded,
\* versions are of texts there were, attempts no more than agent_max_attempts.
ToolsTypeOK ==
  /\ TypeOK
  /\ \A s \in Sources : {shown[s], view[s], memo[s]} \subseteq Versions(s)
  /\ flushing \in Calls \cup {0}
  /\ stage \in [Calls -> {"none", "planning", "fetching", "storing", "flushing", "clashed",
                          "broken", "done", "returned"}]
  /\ \A c \in Calls :
       /\ job[c].tool \in Tools /\ job[c].round \in Nat
       /\ todo[c] \subseteq Sources \cup {Unknown}
       /\ asks[c] \in Seq([source : Sources \ Inline, had : Nat, got : Nat \cup {Failed}])
       /\ outcome[c].version # 0 => outcome[c].version \in Versions(job[c].source)

\* DONE says of every call of the run once how it went.
EveryCallReported ==
  at = "answered" =>
    /\ \A c \in 1 .. calls : \E i \in DOMAIN invocations :
         invocations[i] = [call |-> c, ok |-> outcome[c].ok]
    /\ \A i, k \in DOMAIN invocations :
         invocations[i].call \in 1 .. calls /\ (invocations[i].call = invocations[k].call => i = k)

Quotes(i, s) == job[invocations[i].call].source = s /\ outcome[invocations[i].call].quote # Nothing

\* Each source the model was given text of is cited, once, and with the first
\* of that text, whatever order the calls of a round end in; no other is.
CitationsAreFirstQuotes ==
  /\ \A i \in DOMAIN invocations : \A s \in Sources :
       Quotes(i, s) => \E k \in DOMAIN citations : citations[k].source = s
  /\ \A k \in DOMAIN citations :
       /\ \A l \in DOMAIN citations : citations[l].source = citations[k].source => l = k
       /\ \E i \in DOMAIN invocations :
            /\ Quotes(i, citations[k].source)
            /\ citations[k].quote = outcome[invocations[i].call].quote
            /\ \A e \in 1 .. i - 1 : ~Quotes(e, citations[k].source)

\* A page is a stretch of the text, and the last one ends with it.  A model
\* that reads on where it is told to, as long as it is told that there is more,
\* reads each character once, unless the text was replaced in between.
ReadingOnCoversText ==
  \A c, d \in {e \in Calls : Over(e) /\ job[e].tool = "fetch"} :
    LET o == outcome[c]
        p == outcome[d]
        length == Length(job[c].source, o.version)
    IN  o.ok =>
          /\ 0 <= o.quote[2] /\ o.quote[2] < o.quote[3] /\ o.quote[3] <= length
          /\ job[c].offset <= 0 => o.quote[2] = 0
          /\ o.more \/ o.quote[3] = length
          /\ /\ o.more /\ job[d].offset = o.next
             /\ job[c].source = job[d].source /\ o.version = p.version
             => p.ok /\ p.quote[2] = o.quote[3]

\* The chunks a search looks through are those of the text the session has,
\* but while a new text of the source is being flushed or after a tool raised.
ChunksAreOfText ==
  \A s \in Sources :
    \/ memo[s] \in {0, view[s]}
    \/ flushing # 0 /\ Head(asks[flushing]).source = s
    \/ \E c \in Calls : Raised(c)

\* The one session fails a tool only where another works at its side: called
\* one at a time, tools get by with it.
OnlyCompanyClashes ==
  \A c \in Calls : Clashed(c) => \E d \in Calls \ {c} : job[d].round = job[c].round

\* A source is only said to be unavailable if there was no copy of it in hand
\* (or that has no text), however its download went; a page, if it lies behind
\* the text.
UnavailableOnlyWithoutText ==
  \A c \in Calls : Over(c) /\ job[c].source \in Sources /\ ~outcome[c].ok =>
    LET o == outcome[c]
        s == job[c].source
    IN  /\ o.version = 0 => o.had = 0
        /\ \/ Text(s, o.version) = <<>>
           \/ job[c].tool = "fetch" /\ job[c].offset >= Length(s, o.version)

\* The texts that searches which have just ended went through.
Searching(c) == stage[c] = "done" /\ job[c].tool = "search" /\ job[c].source \in Sources
Cut == {Tidy(Text(job[c].source, memo[job[c].source])) : c \in {d \in Calls : Searching(d)}}

\* Whatever headings and blank lines there are, each line of a text that is not
\* part of a heading is in one chunk, in the order of the text, and that chunk
\* carries the heading the line stands under.  Only a text of nothing but
\* headings has those in its chunks; normalising loses no line.
EveryLineInItsChunk ==
  /\ TidyLosesNothing /\ AllLinesAreKept
  /\ \A doc \in Cut : LinesAreKept(doc) /\ LinesKeepTheirHeading(doc)

\* A chunk is longer than a full one and a short one together only if it has
\* a paragraph too long by itself, and a chunk below the minimum is the last
\* of its heading.
ChunksHaveTheirSize ==
  /\ AllChunksFit
  /\ \A doc \in Cut : ChunksAreShort(doc) /\ ChunksAreLong(doc)

\* Every word of a body line that is not a stop word finds the line, however
\* many chunks have that word, unless better chunks fill the limit; stop words
\* find nothing.
SearchFindsEveryWord ==
  /\ AllWordsAreFound
  /\ \A doc \in Cut : WordsFindTheirLines(doc) /\ StopWordsFindNothing(doc)
=============================================================================
