--------------------------- MODULE MCTasteExtract ---------------------------
(* Instances of TasteExtract for TLC. *)
EXTENDS TasteExtract

CONSTANTS absent, broken, wd, a, c, x, y, z, e1, w1, r1, b1, w2, blob, v0, v1

Another == 1
Session == 2
Subagent == 3

MCParentOf == [s \in Sessions |-> IF s = Subagent THEN Session ELSE absent]
MCCwdOf == [s \in Sessions |-> IF s = Another THEN absent ELSE wd]
MCTextOf == [b \in Sidecars |-> {x, y}]

Inline(lines) == [lines |-> lines, target |-> absent]
Command(file) == [lines |-> {}, target |-> <<absent, file>>]
Sidecar(name) == [sidecar |-> name]

Line(type, ts, blocks) == [type |-> type, ts |-> ts, blocks |-> blocks]
Backup(path, content, ts) == [path |-> path, content |-> content, ts |-> ts]
ToolUse(ref, tool, path, content) ==
    [ref |-> ref, tool |-> tool, path |-> path, content |-> content]
Answer(ref, denied) == [ref |-> ref, denied |-> denied, content |-> absent]
Snapshot(ts, backups) == Line("file-history-snapshot", ts, backups)
Assistant(ts, blocks) == Line("assistant", ts, blocks)
User(ts, blocks) == Line("user", ts, blocks)

First == Snapshot(1, <<Backup(<<wd, a>>, Inline({x}), 0)>>)
Edit == Assistant(2, <<ToolUse(e1, "Edit", <<absent, a>>, Inline({y}))>>)
Applied == Snapshot(4, <<Backup(<<absent, a>>, Sidecar(blob), 0)>>)
Write == Assistant(4, <<ToolUse(w1, "Write", <<wd, a>>, Inline({x, z}))>>)
Read == Assistant(4, <<ToolUse(r1, "Read", <<wd, a>>, absent)>>)
Written == User(4, <<Answer(w1, FALSE)>>)
Final == Snapshot(5, <<Backup(<<absent, a>>, Inline({x, z}), 0)>>)
Other == Assistant(1, <<ToolUse(w2, "Write", <<absent, c>>, Inline({z}))>>)
Undone == Snapshot(5, <<Backup(<<absent, a>>, Inline({x}), 6)>>)

\* The session edits a file and writes it, with snapshots before, between and
\* after, paths partly absolute, times partly equal; or the edit is undone.  Its
\* subagent runs a command on the file, or takes a snapshot without a time.
\* Another session, older than both, has a proposal that is denied, and its
\* file is rewritten with the same proposal in it.
MCTranscripts ==
    [s \in Sessions |->
       CASE s = Session ->
              {<<First, Edit, Applied, Write, Final>>,
               <<First, Edit, Applied, Undone>>}
         [] s = Subagent ->
              {<<Assistant(3, <<ToolUse(b1, "Bash", absent, Command(a))>>)>>,
               <<Snapshot(0, <<Backup(<<absent, a>>, Inline({y}), 0)>>)>>}
         [] s = Another ->
              {<<Other>>, <<User(2, <<Answer(w2, TRUE)>>), Other>>}]

\* The file is read after it was written and before its snapshot.
MCReadTranscripts ==
    [s \in Sessions |-> {<<First, Write, Read, Written, Final>>}]

\* Only the file of the other session is rewritten.
MCMaxRewrites == [s \in Sessions |-> IF s = Another THEN 1 ELSE 0]
==============================================================================
