----------------------------- MODULE ConfigEdit -----------------------------
(***************************************************************************)
(* `crosscodex config set` and `config unset`: editors of the user config  *)
(* that write a change only when the configuration loads with it, or when  *)
(* it repairs a configuration that does not load.  Several editors may run *)
(* at once, any may be killed, and the machine may lose power: a renamed   *)
(* file is on the disk once its directory is synced, and whole once it was *)
(* synced itself.                                                          *)
(***************************************************************************)
EXTENDS ConfigLoad

CONSTANTS Editors

VARIABLES disk,      \* the configuration files
          durable,   \* the contents the user config may have after a power loss
          options,   \* the profile and the environment of every command
          editor,    \* each editor's step, candidate and temporary file
          todo,      \* the edits each editor may be given, and how many it still is
          faults     \* the faults that may still happen

editVars == <<disk, durable, options, editor, todo, faults>>

-----------------------------------------------------------------------------
(* Changing a document. *)

setting(path, node) == [op |-> "set", path |-> path, node |-> node]
unsetting(path) == [op |-> "unset", path |-> path, node |-> Map]

\* The places that refer to each anchor: aliases, and the maps that merge it.
aliasPaths(doc, anchor) ==
  {p \in DOMAIN doc : doc[p].kind = "alias" /\ doc[p].of = anchor}
  \union {Append(p, "<<") : p \in {q \in DOMAIN doc : doc[q].kind = "map" /\ anchor \in Range(doc[q].merge)}}

\* An anchor below the value at path that is referred to from outside it.
refuseAnchorsBelow(doc, path) ==
  \E p \in DOMAIN doc : IsStrictPrefix(path, p) /\ \E a \in aliasPaths(doc, p) : ~IsPrefix(path, a)

\* Mutant: the sections on the way are not looked at.
refuseAnchorsAt(doc, path) ==
  path \in DOMAIN doc /\ (aliasPaths(doc, path) # {} \/ refuseAnchorsBelow(doc, path))

\* The value at path, or a section on the way to it, carries an anchor in use.
refuseSharedAnchors(doc, path) ==
  \/ \E p \in Prefixes(path) \ {<<>>} : p \in DOMAIN doc /\ aliasPaths(doc, p) # {}
  \/ path \in DOMAIN doc /\ refuseAnchorsBelow(doc, path)

isSection(doc, p) ==
  LET n == IF doc[p].kind = "alias" THEN doc[doc[p].of] ELSE doc[p] IN n.kind = "map"

\* The sections on the way are maps, as far as they exist.
sectionFor(doc, path) == \A p \in Prefixes(path) \ {path} : p \in DOMAIN doc => doc[p].kind = "map"

\* A change that cannot be made leaves the document as it is.
setYAMLPath(doc, path, node) ==
  IF ~sectionFor(doc, path) \/ (path \in DOMAIN doc /\ isSection(doc, path)) THEN doc
  ELSE (path :> node) @@ doc @@ buildNodeSimple(path, node)

unsetYAMLPath(doc, path) ==
  IF ~sectionFor(doc, path) THEN doc
  ELSE [p \in {q \in DOMAIN doc : ~IsPrefix(path, q)} |-> doc[p]]

Edited(doc, edit) ==
  IF edit.op = "set" THEN setYAMLPath(doc, edit.path, edit.node) ELSE unsetYAMLPath(doc, edit.path)

\* A missing or empty user config is edited as an empty mapping.
DocumentOf(content) == IF content.kind = "missing" THEN <<>> :> Map ELSE content.doc

\* The edit is refused before anything is checked.
CannotEdit(content, link, edit) ==
  \/ edit.path = <<>>
  \/ link = "dangling"
  \/ content.kind = "garbled"
  \/ refuseSharedAnchors(DocumentOf(content), edit.path)
  \/ edit.op = "unset" /\ edit.path \notin DOMAIN DocumentOf(content)
  \/ ~sectionFor(DocumentOf(content), edit.path)
  \/ edit.op = "set" /\ edit.path \in DOMAIN DocumentOf(content) /\ isSection(DocumentOf(content), edit.path)

-----------------------------------------------------------------------------
(* Judging a change. *)

load(d, o) == Load(d, o)
loadWith(d, o, content) == Load(d, [o EXCEPT !.userConfigContent = content])
NoUserConfig == Document(<<>> :> Map)

otherLayers(problems) == {v.source : v \in problems} \ {UserFile, SourceDefaults, ""}

CountAt(problems, path) == Cardinality({v \in problems : v.path = path})

\* The paths with more problems after than before.
compareProblems(before, after) == {v.path : v \in {w \in after : CountAt(after, w.path) > CountAt(before, w.path)}}

\* Mutant: only a change after which the configuration loads is accepted.
acceptFullRepair(current, candidate, withoutUser) == withoutUser.ok /\ candidate.ok

\* An edit of a configuration that loads neither before nor after it.
judgeRepair(current, candidate, withoutUser) ==
  /\ IF current.complete THEN otherLayers(current.problems) = {} ELSE withoutUser.ok
  /\ current.complete /\ candidate.complete
  /\ compareProblems(current.problems, candidate.problems) = {}
  /\ Cardinality(candidate.problems) < Cardinality(current.problems)

checkEdit(d, o, content) ==
  \E candidate \in {loadWith(d, o, content)} :
    \/ candidate.ok
    \/ \E current \in {load(d, o)} : ~current.ok /\ judgeRepair(current, candidate, loadWith(d, o, NoUserConfig))

-----------------------------------------------------------------------------
(* The steps of an editor. *)

NoTemp == [content |-> Missing, synced |-> FALSE]
Idle == [pc |-> "idle", edit |-> unsetting(<<>>), read |-> Missing, candidate |-> Missing, temp |-> NoTemp]

Step(e, pc) == editor[e].pc = pc
Moves(e, to) == editor' = [editor EXCEPT ![e] = to]
Ends(e) == Moves(e, Idle)

\* The command reads the file through its link and makes its change.
editUserConfig(e) ==
  /\ Step(e, "idle") /\ todo[e].left > 0
  /\ todo' = [todo EXCEPT ![e].left = @ - 1]
  /\ \E edit \in todo[e].edits :
       IF CannotEdit(disk.user, disk.link, edit) THEN UNCHANGED editor
       ELSE Moves(e, [Idle EXCEPT !.pc = "check", !.edit = edit, !.read = disk.user,
                                  !.candidate = Document(Edited(DocumentOf(disk.user), edit))])
  /\ UNCHANGED <<disk, durable, options, faults>>

\* The candidate loads, with the other layers as they are.
CheckCandidate(e) ==
  /\ Step(e, "check")
  /\ Moves(e, [editor[e] EXCEPT !.pc = IF loadWith(disk, options, editor[e].candidate).ok THEN "write" ELSE "judge"])
  /\ UNCHANGED <<disk, durable, options, todo, faults>>

\* It does not: the file, read again, must not load either.
CheckRepair(e) ==
  /\ Step(e, "judge")
  /\ \E current \in {load(disk, options)}, candidate \in {loadWith(disk, options, editor[e].candidate)} :
       IF ~current.ok /\ judgeRepair(current, candidate, loadWith(disk, options, NoUserConfig))
       THEN Moves(e, [editor[e] EXCEPT !.pc = "write"])
       ELSE Ends(e)
  /\ UNCHANGED <<disk, durable, options, todo, faults>>

\* writeFileAtomic: a temporary file with the owner and mode of the target ...
CreateTemp(e) ==
  /\ Step(e, "write")
  /\ Moves(e, [editor[e] EXCEPT !.pc = "fill", !.temp = [content |-> Garbled, synced |-> FALSE]])
  /\ UNCHANGED <<disk, durable, options, todo, faults>>

WriteTemp(e) ==
  /\ Step(e, "fill")
  /\ Moves(e, [editor[e] EXCEPT !.pc = "sync", !.temp.content = editor[e].candidate])
  /\ UNCHANGED <<disk, durable, options, todo, faults>>

\* Mutant: the temporary file is not synced.
SkipSync(e) ==
  /\ Step(e, "sync")
  /\ Moves(e, [editor[e] EXCEPT !.pc = "rename"])
  /\ UNCHANGED <<disk, durable, options, todo, faults>>

SyncTemp(e) ==
  /\ Step(e, "sync")
  /\ Moves(e, [editor[e] EXCEPT !.pc = "rename", !.temp.synced = TRUE])
  /\ UNCHANGED <<disk, durable, options, todo, faults>>

\* ... renamed over the user config ...
RenameTemp(e) ==
  /\ Step(e, "rename")
  /\ disk' = [disk EXCEPT !.user = editor[e].temp.content]
  /\ durable' = durable \union {IF editor[e].temp.synced THEN editor[e].temp.content ELSE Garbled}
  /\ Moves(e, [editor[e] EXCEPT !.pc = "settle", !.temp = NoTemp])
  /\ UNCHANGED <<options, todo, faults>>

\* ... whose directory is then synced.
SyncDir(e) ==
  /\ Step(e, "settle")
  /\ durable' = {disk.user}
  /\ Ends(e)
  /\ UNCHANGED <<disk, options, todo, faults>>

\* A step of writing fails and the temporary file is removed, or the process
\* is killed and leaves it; nothing reads it.
Stops(e) ==
  /\ faults > 0 /\ faults' = faults - 1
  /\ ~Step(e, "idle")
  /\ Ends(e)
  /\ UNCHANGED <<disk, durable, options, todo>>

PowerLoss ==
  /\ faults > 0 /\ faults' = faults - 1
  /\ \E content \in durable : disk' = [disk EXCEPT !.user = content] /\ durable' = {content}
  /\ editor' = [e \in Editors |-> Idle]
  /\ UNCHANGED <<options, todo>>

EditNext ==
  \/ \E e \in Editors : \/ editUserConfig(e) \/ CheckCandidate(e) \/ CheckRepair(e) \/ CreateTemp(e) \/ WriteTemp(e)
                        \/ SyncTemp(e) \/ RenameTemp(e) \/ SyncDir(e) \/ Stops(e)
  \/ PowerLoss

-----------------------------------------------------------------------------
(* Properties. *)

\* The configuration loads with the user config as it is, and as a power loss
\* may leave it.
LoadsForGood(d, contents, o) == \A content \in contents \union {d.user} : load([d EXCEPT !.user = content], o).ok

\* A configuration that loads keeps loading, whatever the editors do, one of
\* them being killed half way or the power failing included: a candidate is
\* written only after it was loaded (or only over a file that did not load),
\* and replaces the file whole (checkEdit, writeFileAtomic).
ConfigKeepsLoading ==
  [][(disk' # disk \/ durable' # durable) /\ LoadsForGood(disk, durable, options) =>
       LoadsForGood(disk', durable', options')]_editVars

\* A user config whose problems are all its own, in a file without anchors,
\* never leaves the operator stuck: one key or section can be unset, or one
\* of the given values set, that the editor accepts, even when no single
\* change makes the file load (judgeRepair).
Repairs(doc, given) == {unsetting(p) : p \in DOMAIN doc \ {<<>>}} \union given

Repairable(given) ==
  \E found \in {load(disk, options)}, doc \in {DocumentOf(disk.user)} :
    \/ found.ok \/ ~found.complete \/ otherLayers(found.problems) # {}
    \/ \E p \in DOMAIN doc : doc[p].kind = "alias" \/ (doc[p].kind = "map" /\ doc[p].merge # <<>>)
    \/ \E edit \in Repairs(doc, given) :
         ~CannotEdit(disk.user, disk.link, edit) /\ checkEdit(disk, options, Document(Edited(doc, edit)))

\* A change that is about to be written changes no setting but the one it
\* names (or those below it): not what an alias or a merge key elsewhere in
\* the file takes from the place it edits (refuseSharedAnchors).
EditStaysLocal ==
  \A e \in Editors : editor[e].pc \in {"write", "fill", "sync", "rename"} =>
    LET path == editor[e].edit.path
        settings(nodes) == [p \in {q \in DOMAIN nodes : nodes[q].kind # "map" /\ ~IsPrefix(path, q)} |-> nodes[p]]
    IN \A before \in {resolveReferences(DocumentOf(editor[e].read))}, after \in {resolveReferences(editor[e].candidate.doc)} :
         settings(before) = settings(after)

=============================================================================
