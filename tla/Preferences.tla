----------------------------- MODULE Preferences -----------------------------
(***************************************************************************)
(* What `jottrace taste extract` computes of one session: the events that  *)
(* its transcript lines stand for, their merge with those of the subagents,*)
(* the timeline of every file, and the label of every proposal.            *)
(*                                                                         *)
(* A line is a record with the fields of the JSON the parser looks at.  A  *)
(* text is the set of its lines with the last token that looks like a path,*)
(* a path is <<directory, file>>, a time 0 is an absent time, and a        *)
(* confidence is in tenths.  A line of a type the parser skips has no      *)
(* blocks; the entries of a snapshot are its blocks.                       *)
(***************************************************************************)
EXTENDS Integers, Sequences, FiniteSets, SequencesExt

CONSTANTS
    None,        \* an absent field
    Unreadable,  \* the state of a sidecar that cannot be read
    ContextLimit \* PRIOR_EVENT_CONTEXT_LIMIT

HighConfidence == 10
FileTools == {"Edit", "Write", "NotebookEdit", "Bash", "mcp_edit"}
Correlated == {"Bash", "mcp_edit"}

------------------------------------------------------------------------------
(* Numbers and positions in order. *)

Ordered(S) ==
    [i \in 1..Cardinality(S) |->
        CHOOSE s \in S : Cardinality({t \in S : t <= s}) = i]

\* What a sequence has at these positions.
Selected(seq, S) ==
    LET order == Ordered(S)
    IN  [i \in DOMAIN order |-> seq[order[i]]]

------------------------------------------------------------------------------
(* The events of a line. *)

Event(kind, seq, stream, ts, path, content, ref, tool) ==
    [kind |-> kind, seq |-> seq, stream |-> stream, ts |-> ts, path |-> path,
     content |-> content, ref |-> ref, tool |-> tool]

SnapshotEvent(seq, stream, line, b) ==
    Event("snapshot", seq, stream, IF b.ts # 0 THEN b.ts ELSE line.ts,
          b.path, b.content, None, None)

ProposalEvent(seq, stream, line, b) ==
    Event("proposal", seq, stream, line.ts, b.path,
          IF b.tool \in FileTools THEN b.content ELSE None, b.ref, b.tool)

ResultEvent(seq, stream, line, b) ==
    Event(IF b.denied THEN "denial" ELSE "result", seq, stream, line.ts,
          None, b.content, b.ref, None)

ParseLine(seq, stream, line) ==
    [i \in DOMAIN line.blocks |->
        CASE line.type = "file-history-snapshot" ->
                SnapshotEvent(seq, stream, line, line.blocks[i])
          [] line.type = "assistant" ->
                ProposalEvent(seq, stream, line, line.blocks[i])
          [] line.type = "user" ->
                ResultEvent(seq, stream, line, line.blocks[i])]

ParseStream(stream, lines) ==
    FlattenSeq([i \in DOMAIN lines |-> ParseLine(i - 1, stream, lines[i])])

\* Mutant of Earlier: at equal times the later line of a stream comes first.
EarlierTies(es, i, j) ==
    \/ es[i].ts < es[j].ts
    \/ es[i].ts = es[j].ts /\ es[i].seq > es[j].seq
    \/ es[i].ts = es[j].ts /\ es[i].seq = es[j].seq /\ i < j

\* The order of merge_streams; its sort is stable.
Earlier(es, i, j) ==
    \/ es[i].ts < es[j].ts
    \/ es[i].ts = es[j].ts /\ es[i].seq < es[j].seq
    \/ es[i].ts = es[j].ts /\ es[i].seq = es[j].seq /\ i < j

MergeStreams(streams) ==
    LET es == FlattenSeq(streams)
        Rank(i) == Cardinality({j \in DOMAIN es : Earlier(es, j, i)})
        At(r) == CHOOSE i \in DOMAIN es : Rank(i) = r
    IN  [r \in DOMAIN es |-> [es[At(r - 1)] EXCEPT !.seq = r - 1]]

------------------------------------------------------------------------------
(* The timelines of files. *)

NormalizePath(path, cwd) ==
    IF path # None /\ cwd # None /\ path[1] = cwd
    THEN <<None, path[2]>> ELSE path

\* blobs gives the text of a sidecar, None when it is missing.
Resolve(blobs, content) ==
    IF "sidecar" \notin DOMAIN content
    THEN [content |-> content.lines, source_kind |-> "inline_snapshot"]
    ELSE IF blobs[content.sidecar] = None
         THEN [content |-> None, source_kind |-> "missing_sidecar"]
         ELSE [content |-> blobs[content.sidecar],
               source_kind |-> "sidecar_snapshot"]

Snapshots(es) ==
    Selected(es, {i \in DOMAIN es : es[i].kind = "snapshot" /\ es[i].content # None})

\* materialize returns an error on a sidecar that is there and not readable.
MaterializeFails(blobs, es) ==
    \E i \in DOMAIN es :
        /\ es[i].kind = "snapshot" /\ es[i].content # None
        /\ "sidecar" \in DOMAIN es[i].content
        /\ blobs[es[i].content.sidecar] = Unreadable

\* The last proposal on the file before the event, whatever became of it.
TriggerOf(es, cwd, e) ==
    LET file == NormalizePath(e.path, cwd)
        earlier == {i \in DOMAIN es :
            /\ es[i].kind = "proposal" /\ es[i].seq < e.seq
            /\ es[i].path # None /\ es[i].ref # None
            /\ NormalizePath(es[i].path, cwd) = file}
    IN  IF earlier = {} THEN None ELSE es[Max(earlier)].ref

Materialize(cwd, blobs, es) ==
    LET snaps == Snapshots(es)
        File(r) == NormalizePath(snaps[r].path, cwd)
    IN  [r \in DOMAIN snaps |->
            [file |-> File(r),
             seq |-> Cardinality({q \in 1..(r - 1) : File(q) = File(r)}),
             event_seq |-> snaps[r].seq,
             content |-> Resolve(blobs, snaps[r].content).content,
             source_kind |-> Resolve(blobs, snaps[r].content).source_kind,
             trigger |-> TriggerOf(es, cwd, snaps[r])]]

------------------------------------------------------------------------------
(* The labels of proposals. *)

DeniedRefs(es) ==
    {es[i].ref : i \in {j \in DOMAIN es : es[j].kind = "denial"}} \ {None}

\* The rows of a file, by their positions.
RowsOf(rows, file) == {r \in DOMAIN rows : rows[r].file = file}

\* Mutant of BeforeState: the content before is the last one known.
BeforeStateLatest(rows, file, seq) ==
    LET own == RowsOf(rows, file)
    IN  IF own = {} THEN None ELSE rows[Max(own)].content

\* before_state_content.
BeforeState(rows, file, seq) ==
    LET earlier == {r \in RowsOf(rows, file) : rows[r].event_seq < seq}
    IN  IF earlier = {} THEN None ELSE rows[Max(earlier)].content

\* Mutant of PostApply: the last row a proposal triggered.
PostApplyLast(tool, file, ref, seq, rows) ==
    LET mine == {r \in RowsOf(rows, file) : rows[r].trigger = ref}
        later == {r \in RowsOf(rows, file) : rows[r].event_seq > seq}
    IN  IF mine # {} THEN rows[Max(mine)].content
        ELSE IF tool \in Correlated /\ later # {}
             THEN rows[Min(later)].content ELSE None

\* post_apply_content: the first row a proposal triggered; for tools whose
\* file is only inferred, the next row of the file.
PostApply(tool, file, ref, seq, rows) ==
    LET mine == {r \in RowsOf(rows, file) : rows[r].trigger = ref}
        later == {r \in RowsOf(rows, file) : rows[r].event_seq > seq}
    IN  IF mine # {} THEN rows[Min(mine)].content
        ELSE IF tool \in Correlated /\ later # {}
             THEN rows[Min(later)].content ELSE None

EffectPresent(before, after, final) ==
    (after \ before) \subseteq final /\ (before \ after) \cap final = {}

PartialEffect(before, after, final) ==
    LET kept == (after \ before) \cap final
    IN  kept # {} /\ kept # after \ before

Label(outcome, confidence, evidence) ==
    [outcome |-> outcome, confidence |-> confidence, evidence |-> evidence]

EvidenceOf(tool) ==
    CASE tool \in {"Edit", "NotebookEdit"} -> "direct_edit"
      [] tool = "Write" -> "direct_write"
      [] tool = "Bash" -> "bash_correlation"
      [] tool = "mcp_edit" -> "mcp_correlation"

BaseConfidence(tool) == IF tool \in Correlated THEN 6 ELSE HighConfidence

Executed(es, ref) == \E i \in DOMAIN es : es[i].kind = "result" /\ es[i].ref = ref

\* The label of a proposal on a file without rows.
UnseenLabel(tool, ref, es) ==
    IF tool = "Write" /\ Executed(es, ref)
    THEN Label("accepted", 4, "missing_final_state")
    ELSE Label("rejected", 3, "missing_final_state")

\* The label of a proposal with the content before, after and at the end.
EffectLabel(tool, before, post, final) ==
    LET base == BaseConfidence(tool)
        was == IF before = None THEN {} ELSE before
    IN  IF final = None THEN Label("rejected", 3, "missing_final_state")
        ELSE IF post = None THEN Label("rejected", base, EvidenceOf(tool))
        ELSE IF EffectPresent(was, post, final)
             THEN Label("accepted", base, EvidenceOf(tool))
        ELSE IF PartialEffect(was, post, final)
             THEN Label("edited", base \div 2, EvidenceOf(tool))
             ELSE Label("rejected", base, EvidenceOf(tool))

\* classify_present_at_session_end.
Classify(tool, file, ref, seq, rows, es) ==
    LET own == RowsOf(rows, file)
    IN  IF file = None THEN Label("rejected", 2, "missing_final_state")
        ELSE IF own = {} THEN UnseenLabel(tool, ref, es)
        ELSE EffectLabel(tool, BeforeState(rows, file, seq),
                         PostApply(tool, file, ref, seq, rows),
                         rows[Max(own)].content)

\* format_prior_event_line.
PriorLine(e) ==
    [seq |-> e.seq, kind |-> e.kind,
     of |-> IF e.kind = "proposal" THEN <<e.tool, e.path>> ELSE <<e.ref>>]

\* build_proposal_context: the latest tool events before the proposal, and
\* the content of the file.
ContextOf(file, seq, rows, es) ==
    LET before == BeforeState(rows, file, seq)
        prior == Selected(es, {i \in DOMAIN es :
                                 es[i].seq < seq /\ es[i].kind # "snapshot"})
        from == IF Len(prior) > ContextLimit
                THEN Len(prior) - ContextLimit + 1 ELSE 1
    IN  IF file = None \/ before = None THEN None
        ELSE [prior |-> [i \in 1..(Len(prior) - from + 1) |->
                            PriorLine(prior[from + i - 1])],
              before |-> before]

\* The path a proposal names, or the one its text ends with.
FileOf(e, cwd) ==
    IF e.path # None THEN NormalizePath(e.path, cwd)
    ELSE IF e.content # None THEN NormalizePath(e.content.target, cwd) ELSE None

IsModification(e) == e.kind = "proposal" /\ e.tool \in FileTools /\ e.ref # None

Modifications(es) == Selected(es, {i \in DOMAIN es : IsModification(es[i])})

\* PreferenceCompiler::compile.
CompileExamples(cwd, es, rows, version) ==
    LET props == Modifications(es)
    IN  [g \in DOMAIN props |->
            LET e == props[g]
                file == FileOf(e, cwd)
            IN  [generation |-> g - 1, seq |-> e.seq, ref |-> e.ref,
                 file |-> file, tool |-> e.tool, content |-> e.content,
                 context |-> ContextOf(file, e.seq, rows, es),
                 label |-> IF e.ref \in DeniedRefs(es)
                           THEN Label("rejected", HighConfidence,
                                      "permission_denial")
                           ELSE Classify(e.tool, file, e.ref, e.seq, rows, es),
                 version |-> version]]

\* export_record.
ExportRecord(s, x) ==
    [session |-> s, ref |-> x.ref, context |-> x.context, label |-> x.label,
     chosen |-> IF x.label.outcome = "rejected" THEN None ELSE x.content,
     rejected |-> IF x.label.outcome = "rejected" THEN x.content ELSE None]
==============================================================================
