---------------------------- MODULE TasteExtract ----------------------------
(***************************************************************************)
(* `jottrace taste extract` beside the ingest runs that fill the journal:  *)
(* which sessions it reads, when it takes the rows it wrote before for     *)
(* good, and what one transaction replaces.                                *)
(*                                                                         *)
(* extract and ingest hold the data lock (see DataLock), so the journal    *)
(* does not change during a run.  The sidecars belong to Claude, which may *)
(* remove them at any time.  A session is known once a line of it is; an   *)
(* ingest run links each known child to its parent when that is known (the *)
(* convergence checked in JsonlIngest), so the link is a function of the   *)
(* journal here.                                                           *)
(***************************************************************************)
EXTENDS Preferences

CONSTANTS
    Sessions,    \* rowids of sessions
    ParentOf,    \* session -> its parent or None
    CwdOf,       \* session -> its working directory
    Transcripts, \* session -> the transcripts Claude may write, line by line
    Sidecars,    \* backup file names
    TextOf,      \* sidecar -> its text
    MaxRewrites, \* session -> bound on how often its file is rewritten
    Version,     \* EXTRACTOR_VERSION
    OldVersion   \* that of the program installed before

ASSUME TasteAssumption ==
    /\ Sessions \subseteq Nat /\ IsFiniteSet(Sessions) /\ None \notin Sessions
    /\ ParentOf \in [Sessions -> Sessions \cup {None}]
    /\ \A s \in Sessions : ParentOf[s] # None => ParentOf[ParentOf[s]] = None
ASSUME TasteBoundAssumption ==
    MaxRewrites \in [Sessions -> Nat] /\ Version # OldVersion

ParsedTypes == {"file-history-snapshot", "assistant", "user"}
IsSeq(f) == f \in Seq(ToSet(f))
LinesOfTranscripts(s) == UNION {ToSet(t) : t \in Transcripts[s]}
ToolUses(s) ==
    UNION {ToSet(line.blocks) :
             line \in {l \in LinesOfTranscripts(s) : l.type = "assistant"}}

ASSUME TranscriptAssumption ==
    \A s \in Sessions :
        /\ \A t \in Transcripts[s] : IsSeq(t)
        /\ \A line \in LinesOfTranscripts(s) :
              /\ line.ts \in Nat /\ IsSeq(line.blocks)
              /\ line.blocks # <<>> => line.type \in ParsedTypes
              /\ line.type = "file-history-snapshot" =>
                    \A b \in ToSet(line.blocks) : b.ts \in Nat
\* Within a session and its subagents, uses of two tools have two names.
ASSUME ToolUseAssumption ==
    LET Root(s) == IF ParentOf[s] = None THEN s ELSE ParentOf[s]
    IN  \A s, t \in Sessions : Root(s) = Root(t) =>
            \A u \in ToolUses(s), v \in ToolUses(t) :
                u.ref = v.ref /\ u.ref # None => u.tool = v.tool

VARIABLES
    journal, \* session -> its generations, each a sequence of lines
    sidecar, \* sidecar -> "there", "missing" or "unreadable"
    meta,    \* session -> its row in taste_extractions
    rows,    \* session -> its rows in file_timelines
    examples,\* session -> its rows in preference_examples
    todo,    \* the sessions the running command has left
    force,   \* the option of the running command
    basis    \* history: session -> what its rows were computed from

tables == <<meta, rows, examples>>
vars == <<journal, sidecar, tables, todo, force, basis>>

------------------------------------------------------------------------------
(* Reading the journal. *)

Known(s) == journal[s] # <<>>
Linked(s) == ParentOf[s] # None /\ Known(ParentOf[s])
Rewrites(s) == IF Known(s) THEN Len(journal[s]) - 1 ELSE 0
Rewritten(s) == Rewrites(s) > 0

\* Mutant of ParentSessions: the sidechains are extracted as well.
AllSessions == {s \in Sessions : Known(s)}

\* list_parent_claude_sessions.
ParentSessions == {s \in Sessions : Known(s) /\ ~Linked(s)}

\* list_child_sessions.
Children(s) == {c \in Sessions : Known(c) /\ ParentOf[c] = s}

\* sessions.event_count is that of the current generation.
EventCount(s) == Len(Last(journal[s]))

\* Mutant of MergedCount: the sidechains are not counted.
ParentCount(s) == EventCount(s)

\* The sessions that are read together.
Tree(s) == {s} \cup Children(s)

\* count_merged_session_events: the sum of their event counts.
MergedCount(s) ==
    Cardinality(UNION {{t} \X (1..EventCount(t)) : t \in Tree(s)})

\* load_session_event_lines reads the events of every generation.
LinesOf(s) == FlattenSeq(journal[s])

\* The parent first, then its children in the order of rowids.
Members(s) == <<s>> \o Ordered(Children(s))

StreamsOf(s) ==
    [i \in DOMAIN Members(s) |-> ParseStream(Members(s)[i], LinesOf(Members(s)[i]))]

\* load_merged_session_events.
MergedEvents(s) == MergeStreams(StreamsOf(s))

Blobs ==
    [b \in Sidecars |-> CASE sidecar[b] = "there" -> TextOf[b]
                          [] sidecar[b] = "missing" -> None
                          [] sidecar[b] = "unreadable" -> Unreadable]

Timelines(s) == Materialize(CwdOf[s], Blobs, MergedEvents(s))
Labelled(s, v) == CompileExamples(CwdOf[s], MergedEvents(s), Timelines(s), v)
Source(s) == [events |-> MergedEvents(s), blobs |-> Blobs, linked |-> Linked(s)]

------------------------------------------------------------------------------
(* The decision to read a session again. *)

\* session_needs_extract: by the row of taste_extractions; without one, by
\* the versions of the examples an older program left.
NeedsExtract(s) ==
    \/ /\ meta[s] # None
       /\ meta[s].version # Version \/ meta[s].count # MergedCount(s)
    \/ /\ meta[s] = None
       /\ \/ examples[s] = <<>>
          \/ \E i \in DOMAIN examples[s] : examples[s][i].version # Version

\* The primary key of preference_examples.
KeysClash(xs) == \E i, j \in DOMAIN xs : i # j /\ xs[i].ref = xs[j].ref

ExtractFails(s) ==
    LET es == MergedEvents(s)
    IN  IF MaterializeFails(Blobs, es) THEN TRUE
        ELSE KeysClash(Modifications(es))

------------------------------------------------------------------------------
(* The initial states: a new journal, or one with a session that was       *)
(* extracted before, with another version or by a program that had no      *)
(* table taste_extractions yet.                                            *)

NoMeta == [s \in Sessions |-> None]
NoRows == [s \in Sessions |-> <<>>]

FreshInit ==
    /\ journal = NoRows /\ meta = NoMeta
    /\ rows = NoRows /\ examples = NoRows /\ basis = NoMeta

OldInit ==
    \E s \in Sessions : \E t \in Transcripts[s], v \in {OldVersion, Version} :
        /\ ParentOf[s] = None
        /\ journal = [NoRows EXCEPT ![s] = <<t>>]
        /\ ~ExtractFails(s)
        /\ rows = [NoRows EXCEPT ![s] = Timelines(s)]
        /\ examples = [NoRows EXCEPT ![s] = Labelled(s, v)]
        /\ basis = [NoMeta EXCEPT ![s] = Source(s)]
        /\ \/ meta = NoMeta
           \/ /\ v = OldVersion
              /\ meta = [NoMeta EXCEPT ![s] =
                           [version |-> v, count |-> MergedCount(s)]]

Init ==
    /\ sidecar = [b \in Sidecars |-> "there"]
    /\ todo = <<>> /\ force = FALSE
    /\ FreshInit \/ OldInit

Idle == todo = <<>>

\* An ingest run that finds one more line in a transcript.
IngestAppend(s) ==
    /\ Idle
    /\ LET read == IF Known(s) THEN Last(journal[s]) ELSE <<>>
           older == IF Known(s) THEN Front(journal[s]) ELSE <<>>
       IN  \E t \in Transcripts[s] :
              /\ IsStrictPrefix(read, t)
              /\ journal' = [journal EXCEPT ![s] =
                               Append(older, SubSeq(t, 1, Len(read) + 1))]
    /\ UNCHANGED <<sidecar, tables, todo, force, basis>>

\* An ingest run that finds a transcript rewritten: all of it is inserted as
\* the next generation.
IngestRewrite(s) ==
    /\ Idle /\ Known(s) /\ Rewrites(s) < MaxRewrites[s]
    /\ \E t \in Transcripts[s] :
          /\ ~IsPrefix(Last(journal[s]), t)
          /\ journal' = [journal EXCEPT ![s] = Append(@, t)]
    /\ UNCHANGED <<sidecar, tables, todo, force, basis>>

\* A sidecar is removed, or becomes unreadable.
SidecarChanges(b) ==
    /\ sidecar[b] = "there"
    /\ \E to \in {"missing", "unreadable"} : sidecar' = [sidecar EXCEPT ![b] = to]
    /\ UNCHANGED <<journal, tables, todo, force, basis>>

\* taste_extract_for_data_dir: all sessions, or the one that was asked for.
ExtractBegin(f) ==
    /\ Idle
    /\ \/ todo' = Ordered(ParentSessions)
       \/ \E s \in ParentSessions : todo' = <<s>>
    /\ todo' # <<>> /\ force' = f
    /\ UNCHANGED <<journal, sidecar, tables, basis>>

Skip ==
    /\ ~Idle /\ ~force /\ ~NeedsExtract(Head(todo))
    /\ todo' = Tail(todo) /\ force' = (force /\ Len(todo) > 1)
    /\ UNCHANGED <<journal, sidecar, tables, basis>>

\* One transaction per session.
Extract ==
    /\ ~Idle /\ (force \/ NeedsExtract(Head(todo)))
    /\ ~ExtractFails(Head(todo))
    /\ LET s == Head(todo)
       IN  /\ rows' = [rows EXCEPT ![s] = Timelines(s)]
           /\ examples' = [examples EXCEPT ![s] = Labelled(s, Version)]
           /\ basis' = [basis EXCEPT ![s] = Source(s)]
           /\ meta' = [meta EXCEPT ![s] =
                          [version |-> Version, count |-> MergedCount(s)]]
    /\ todo' = Tail(todo) /\ force' = (force /\ Len(todo) > 1)
    /\ UNCHANGED <<journal, sidecar>>

\* The transaction is rolled back.
Failed(s) == UNCHANGED tables

\* The first error ends the command, with the sessions after it not read.
ExtractError ==
    /\ ~Idle /\ (force \/ NeedsExtract(Head(todo)))
    /\ ExtractFails(Head(todo))
    /\ Failed(Head(todo))
    /\ todo' = <<>> /\ force' = FALSE
    /\ UNCHANGED <<journal, sidecar, basis>>

ExtractKilled ==
    /\ ~Idle
    /\ todo' = <<>> /\ force' = FALSE
    /\ UNCHANGED <<journal, sidecar, tables, basis>>

Next ==
    \/ \E s \in Sessions : IngestAppend(s) \/ IngestRewrite(s)
    \/ \E b \in Sidecars : SidecarChanges(b)
    \/ \E f \in BOOLEAN : ExtractBegin(f)
    \/ Skip \/ Extract \/ ExtractError \/ ExtractKilled

Spec == Init /\ [][Next]_vars

------------------------------------------------------------------------------
(* Properties. *)

\* The merged timeline keeps the order of each transcript whose times do not
\* go back (merge_streams sorts by a time many lines share or lack).
InOrder(s) ==
    LET es == ParseStream(s, LinesOf(s))
    IN  \A i, j \in DOMAIN es : i < j => es[i].ts <= es[j].ts
MergeKeepsStreams ==
    \A s \in ParentSessions : \A t \in Tree(s) :
        InOrder(t) =>
            [i \in DOMAIN ParseStream(t, LinesOf(t)) |->
                [ParseStream(t, LinesOf(t))[i] EXCEPT !.seq = 0]]
            = LET es == MergedEvents(s)
                  mine == Selected(es, {i \in DOMAIN es : es[i].stream = t})
              IN  [i \in DOMAIN mine |-> [mine[i] EXCEPT !.seq = 0]]

\* A session that extract skips has rows made of all of its events and those
\* of its subagents, unless a transcript was rewritten or an older program
\* made them: the count in taste_extractions stands for the content.
SkipIsSafe ==
    \A s \in ParentSessions :
        /\ meta[s] # None /\ ~NeedsExtract(s)
        /\ \A t \in Tree(s) : ~Rewritten(t)
        => basis[s].events = MergedEvents(s)

\* A label of full confidence agrees with the snapshots
\* (classify_present_at_session_end).  The effect of a proposal is the difference
\* between the last snapshot before it and the first after it; it is present when
\* the lines it added are in the last snapshot of the file and those it removed
\* are not.  The last snapshot is known.  Accepted: the first after it is known
\* too, the effect is present, and no other proposal naming the file came before
\* that snapshot.  Rejected, not denied, and naming its file: the effect is not
\* present, since an added line is gone or a removed one is back.
\* Exempted: a rejection says nothing when no snapshot came after the proposal, when
\* the first may show the work of another proposal, or when the sidecar of the
\* first is missing; and a missing one before the proposal counts as an empty file.
\* The last two have full confidence although docs/design.md:355 says "When blobs
\* are missing, affected proposals are flagged low-confidence rather than silently
\* emitted."
LabelsMatchTheFiles ==
    \A s \in Sessions : \A i \in DOMAIN examples[s] :
        LET ex == examples[s][i]
            own == RowsOf(rows[s], ex.file)
            after == {r \in own : rows[s][r].event_seq > ex.seq}
            first == rows[s][Min(after)]
            final == rows[s][Max(own)].content
            others == {e \in ToSet(basis[s].events) :
                         e.kind = "proposal" /\ e.ref # None}
            between == {e \in others :
                          /\ e.seq > ex.seq /\ e.seq < first.event_seq
                          /\ NormalizePath(e.path, CwdOf[s]) = ex.file}
            before == BeforeState(rows[s], ex.file, ex.seq)
            was == IF before = None THEN {} ELSE before
            missing == first.content = None
        IN  /\ ex.label.confidence = HighConfidence
            /\ ex.label.evidence # "permission_denial"
            => /\ own # {} /\ final # None
               /\ ex.label.outcome = "accepted" =>
                    /\ after # {} /\ between = {} /\ ~missing
                    /\ EffectPresent(was, first.content, final)
               /\ /\ ex.label.outcome = "rejected"
                  /\ \E e \in others : e.seq = ex.seq /\ e.path # None
                  => \/ after = {} \/ between # {} \/ missing
                     \/ ~EffectPresent(was, first.content, final)

\* A proposal of a transcript is exported once, whether its session or that of
\* its parent was read, as long as no session that was read on its own became a
\* child later.  Two transcripts may use the same name.
EachProposalOnce ==
    (\A s \in Sessions : Linked(s) /\ examples[s] # <<>> => basis[s].linked) =>
        \A s, t \in Sessions : \A i \in DOMAIN examples[s], j \in DOMAIN examples[t] :
            LET Stream(u, x) == basis[u].events[x.seq + 1].stream
            IN  /\ Stream(s, examples[s][i]) = Stream(t, examples[t][j])
                /\ ExportRecord(s, examples[s][i]).ref
                      = ExportRecord(t, examples[t][j]).ref
                => s = t /\ i = j

\* Once the session went on, its earlier proposals keep their place and their
\* context: nothing that happened after a proposal gets into what was known
\* before it (build_proposal_context).
ContextIsStable ==
    [][\A s \in Sessions :
          /\ basis[s] # None /\ basis'[s] # basis[s]
          /\ basis'[s].blobs = basis[s].blobs
          /\ IsPrefix(basis[s].events, basis'[s].events)
          => \A i \in DOMAIN examples[s] :
                LET was == examples[s][i]
                    is == examples'[s][i]
                IN  <<is.generation, is.seq, is.ref, is.context>>
                      = <<was.generation, was.seq, was.ref, was.context>>
      ]_vars

\* "A proposal is `accepted` iff its effect is still present in the final file
\* state of the session" (notes/taste-extraction-plan.md:44): a Write that was
\* carried out, and whose text is the last snapshot of its file, is not
\* labelled rejected with high confidence.
PresentIsNotRejected ==
    \A s \in Sessions : \A i \in DOMAIN examples[s] :
        LET ex == examples[s][i]
            own == RowsOf(rows[s], ex.file)
        IN  /\ meta[s] # None /\ ex.version = Version
            /\ ex.tool = "Write" /\ Executed(basis[s].events, ex.ref)
            /\ own # {} /\ rows[s][Max(own)].content = ex.content.lines
            => ex.label.outcome # "rejected" \/ ex.label.confidence < HighConfidence
==============================================================================
