------------------------------ MODULE TestCerts ------------------------------
(***************************************************************************)
(* internal/testcerts' Ensure: the certificate directory the development   *)
(* and test commands share.  Runs in many processes take a file lock,      *)
(* verify the directory, and otherwise build a new set in a staging        *)
(* directory and rename it into place.  A directory is a function from its *)
(* files to the generation that wrote them; a key is part of its           *)
(* certificate's file, and the fingerprint names the set it was taken of.  *)
(***************************************************************************)
EXTENDS Integers, FiniteSets, Sequences, FiniteSetsExt, SequencesExt

CONSTANTS Runs,          \* processes that call Ensure
          Foreign,       \* the set somebody else supplied
          Generations    \* how many sets may be generated, a bound

VARIABLES dir,           \* the certificate directory, or Gone
          leftovers,     \* staging and set-aside directories in its parent, by run and use
          lock,          \* the runs that hold the file lock
          run,           \* each run's step and its generation
          expired,       \* generations that are past, or near, their end
          keepUnmanaged, \* EnsureOptions.KeepUnmanaged
          kills          \* the runs that may still be killed, or fail

certVars == <<dir, leftovers, lock, run, expired, keepUnmanaged, kills>>

certFiles == <<"ca", "server", "client">>
Gone == [exists |-> FALSE, files |-> <<>>]
Holding(files) == [exists |-> TRUE, files |-> files]

Has3(d) == d.exists /\ Range(certFiles) \subseteq DOMAIN d.files
GenerationsIn(d) == {d.files[f] : f \in Range(certFiles)}

\* The set the PEM files of a directory make up; one generation's, or a mix.
ComputeFingerprint(d) == [f \in Range(certFiles) |-> d.files[f]]
ReadFingerprint(d) == IF d.exists /\ "fingerprint" \in DOMAIN d.files THEN {d.files["fingerprint"]} ELSE {}

\* A set supplied from outside need only be valid now, which it stays; a
\* generated one is replaced some time before its end.
checkValidity(g, ours) == ours => g \notin expired

\* The CA signs the leaf, and the leaf's key is its own.
verifyLeaf(d, leaf) == d.files[leaf] = d.files["ca"]

verifyDir(d, ours) ==
  /\ Has3(d)
  /\ \A g \in GenerationsIn(d) : checkValidity(g, ours)
  /\ verifyLeaf(d, "server") /\ verifyLeaf(d, "client")
  /\ ours => /\ ReadFingerprint(d) = {ComputeFingerprint(d)}
             /\ "extra" \in DOMAIN d.files

isUnmanaged(d) == d.exists /\ DOMAIN d.files # {} /\ "fingerprint" \notin DOMAIN d.files

-----------------------------------------------------------------------------
At(r, pc) == run[r].pc = pc
Goes(r, pc) == run' = [run EXCEPT ![r].pc = pc]
Staging(r) == <<r, "new">>
Aside(r) == <<r, "old">>
Generation(r) == run[r].generation

Returns(r, result) == run' = [run EXCEPT ![r].pc = result] /\ lock' = lock \ {r}

Begin(r) ==
  /\ At(r, "idle")
  /\ Goes(r, "lock")
  /\ UNCHANGED <<dir, leftovers, lock, expired, keepUnmanaged, kills>>

\* Mutant: the lock keeps nobody out.
lockShared(r) ==
  /\ At(r, "lock")
  /\ lock' = lock \union {r}
  /\ Goes(r, "clean")
  /\ UNCHANGED <<dir, leftovers, expired, keepUnmanaged, kills>>

lockFile(r) ==
  /\ At(r, "lock") /\ lock = {}
  /\ lock' = {r}
  /\ Goes(r, "clean")
  /\ UNCHANGED <<dir, leftovers, expired, keepUnmanaged, kills>>

\* Deleting a directory takes a step per file; the others may run between.
removeLeftovers(r) ==
  /\ At(r, "clean")
  /\ IF \A n \in DOMAIN leftovers : ~leftovers[n].exists THEN Goes(r, "verify") /\ UNCHANGED leftovers
     ELSE \E n \in DOMAIN leftovers :
            /\ leftovers[n].exists
            /\ UNCHANGED run
            /\ LET files == leftovers[n].files
               IN IF DOMAIN files = {} THEN leftovers' = [leftovers EXCEPT ![n] = Gone]
                  ELSE \E f \in DOMAIN files :
                         leftovers' = [leftovers EXCEPT ![n].files = [g \in DOMAIN files \ {f} |-> files[g]]]
  /\ UNCHANGED <<dir, lock, expired, keepUnmanaged, kills>>

\* A set supplied by somebody else is kept or refused, a good one kept.
Ensure(r) ==
  /\ At(r, "verify")
  /\ \/ /\ keepUnmanaged /\ isUnmanaged(dir)
        /\ Returns(r, IF verifyDir(dir, FALSE) THEN "kept" ELSE "refused")
        /\ UNCHANGED leftovers
     \/ /\ ~(keepUnmanaged /\ isUnmanaged(dir)) /\ verifyDir(dir, TRUE)
        /\ Returns(r, "kept")
        /\ UNCHANGED leftovers
     \/ /\ ~(keepUnmanaged /\ isUnmanaged(dir)) /\ ~verifyDir(dir, TRUE)
        /\ Cardinality({Generation(q) : q \in Runs} \ {0}) < Generations
        /\ leftovers' = [leftovers EXCEPT ![Staging(r)] = Holding(<<>>)]
        /\ run' = [run EXCEPT ![r].pc = "fill", ![r].generation = 1 + Max({Generation(q) : q \in Runs})]
        /\ UNCHANGED lock
  /\ UNCHANGED <<dir, expired, keepUnmanaged, kills>>

\* WriteToDir, WriteFingerprint and WriteExtra, a file at a time.
FileOrder == certFiles \o <<"fingerprint", "extra">>

WriteFile(d, f, g) ==
  Holding([h \in DOMAIN d.files \union {f} |->
             IF h # f THEN d.files[h]
             ELSE IF f = "fingerprint" THEN ComputeFingerprint(d) ELSE g])

\* A file that cannot be written, or is missing when the fingerprint is taken
\* or the set verified, fails the run, which removes its staging directory.
populate(r) ==
  /\ At(r, "fill")
  /\ LET d == leftovers[Staging(r)]
         left == SelectSeq(FileOrder, LAMBDA f : f \notin DOMAIN d.files)
         next == Head(left)
     IN CASE left = <<>> ->
              IF verifyDir(d, TRUE) THEN Goes(r, "swap") /\ UNCHANGED <<leftovers, lock>>
              ELSE Returns(r, "failed") /\ leftovers' = [leftovers EXCEPT ![Staging(r)] = Gone]
          [] left # <<>> /\ d.exists /\ (next = "fingerprint" => Has3(d)) ->
              leftovers' = [leftovers EXCEPT ![Staging(r)] = WriteFile(d, next, Generation(r))] /\ UNCHANGED <<run, lock>>
          [] OTHER -> Returns(r, "failed") /\ leftovers' = [leftovers EXCEPT ![Staging(r)] = Gone]
  /\ UNCHANGED <<dir, expired, keepUnmanaged, kills>>

\* A step may fail, on a full disk for one: the staging directory is removed,
\* and what is set aside stays for the next run to remove.
StepFails(r) ==
  /\ run[r].pc \in {"fill", "swap", "discard"}
  /\ kills > 0 /\ kills' = kills - 1
  /\ Returns(r, "failed") /\ leftovers' = [leftovers EXCEPT ![Staging(r)] = Gone]
  /\ UNCHANGED <<dir, expired, keepUnmanaged>>

\* swapInto: the old directory goes aside, if there is one ...
MoveAside(r) ==
  /\ At(r, "swap") /\ dir.exists
  /\ leftovers' = [leftovers EXCEPT ![Aside(r)] = dir]
  /\ dir' = Gone
  /\ Goes(r, "install")
  /\ UNCHANGED <<lock, expired, keepUnmanaged, kills>>

\* ... the new one is renamed into its place, or the old one back ...
Install(r) ==
  /\ At(r, "install") \/ (At(r, "swap") /\ ~dir.exists)
  /\ LET free == leftovers[Staging(r)].exists /\ (dir.exists => DOMAIN dir.files = {})
     IN \/ /\ free
           /\ dir' = leftovers[Staging(r)]
           /\ leftovers' = [leftovers EXCEPT ![Staging(r)] = Gone]
           /\ Goes(r, "discard") /\ UNCHANGED <<lock, kills>>
        \/ /\ free => kills > 0
           /\ kills' = IF free THEN kills - 1 ELSE kills
           /\ dir' = IF ~dir.exists /\ leftovers[Aside(r)].exists THEN leftovers[Aside(r)] ELSE dir
           /\ leftovers' = [leftovers EXCEPT ![Staging(r)] = Gone, ![Aside(r)] = IF dir.exists THEN @ ELSE Gone]
           /\ Returns(r, "failed")
  /\ UNCHANGED <<expired, keepUnmanaged>>

\* ... and the old one removed.
RemoveOld(r) ==
  /\ At(r, "discard")
  /\ leftovers' = [leftovers EXCEPT ![Aside(r)] = Gone]
  /\ Returns(r, "generated")
  /\ UNCHANGED <<dir, expired, keepUnmanaged, kills>>

\* A run dies, and the kernel drops its lock.
Killed(r) ==
  /\ kills > 0 /\ kills' = kills - 1
  /\ run[r].pc \in {"clean", "verify", "fill", "swap", "install", "discard"}
  /\ Returns(r, "dead")
  /\ UNCHANGED <<dir, leftovers, expired, keepUnmanaged>>

\* The set in the directory comes near its end.
Expires ==
  /\ Has3(dir) /\ \E g \in GenerationsIn(dir) \ expired : expired' = expired \union {g}
  /\ \A r \in Runs : run[r].pc \in {"idle", "lock", "kept", "generated", "refused", "failed", "dead"}
  /\ UNCHANGED <<dir, leftovers, lock, run, keepUnmanaged, kills>>

CertNext ==
  \/ \E r \in Runs : \/ Begin(r) \/ lockFile(r) \/ removeLeftovers(r) \/ Ensure(r) \/ populate(r) \/ StepFails(r) \/ MoveAside(r)
                     \/ Install(r) \/ RemoveOld(r) \/ Killed(r)
  \/ Expires

-----------------------------------------------------------------------------
(* Properties. *)

\* The directory Ensure leaves is a whole set of one generation, whoever ran
\* at the same time or died half way: a reader finds no directory, the old
\* set or the new one, a run that reports success leaves a set that verifies,
\* and a set somebody supplied is not touched (Ensure, swapInto).
Untouched(d) == keepUnmanaged /\ isUnmanaged(d)

EnsuredSetIsWhole ==
  [][/\ dir' # dir => ~Untouched(dir) /\ (dir'.exists => verifyDir(dir', TRUE) \/ \E r \in Runs : dir' = leftovers[Aside(r)])
     /\ \A r \in Runs : run'[r].pc \in {"kept", "generated"} /\ run[r].pc # run'[r].pc =>
                           verifyDir(dir', ~Untouched(dir'))]_certVars

=============================================================================
