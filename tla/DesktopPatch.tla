------------------------------ MODULE DesktopPatch ------------------------------
(***************************************************************************)
(* The patcher of the Codex desktop application,                           *)
(* src/proxy/codex_desktop_offline_patch.py, next to the application's own *)
(* updater, which knows nothing of it and may replace the bundle, or take  *)
(* it away and put a newer one in its place, between any two steps.        *)
(*                                                                         *)
(* A bundle is a version, the inode it is known by, the state of its       *)
(* archive and the signature on it.  A file lock keeps patchers apart.  An *)
(* exchange of two paths is atomic (renameatx_np on the Mac); a copy made  *)
(* while the bundle changes is found out by the identity check behind it.  *)
(***************************************************************************)
EXTENDS Naturals, FiniteSets

CONSTANTS
    MaxUpdates,   \* bound: updates by the application's own updater
    MaxRuns       \* bound: runs of the patcher

VARIABLES
    app,        \* the bundle at the application's path, or Gone
    staged,     \* the bundle in the patcher's staging directory, or Gone
    originals,  \* versions with a full original backup
    recorded,   \* versions whose patched archive is in the manifest of that version
    patcher,    \* its place, and what it remembers of the bundle
    inodes,     \* the last inode given out
    updated,    \* the newest version the updater brought
    away,       \* the updater has taken the bundle away and will bring a newer one
    kept,       \* versions preserved in abandoned staging directories
    history     \* history: <<"torn", v>> and <<"ousted", v>> for a version v, see below

patchVars == <<app, staged, originals, recorded, patcher, inodes, updated, away, kept, history>>

Gone == [version |-> 0, inode |-> 0, archive |-> "none", signed |-> "no"]
Bundle(v, i, a, s) == [version |-> v, inode |-> i, archive |-> a, signed |-> s]

\* _bundle_identity: everything but the signature.
Same(b, c) == <<b.version, b.inode, b.archive>> = <<c.version, c.inode, c.archive>>
OpenAI(b) == b.signed = "openai"

Rest == [at |-> "idle", version |-> 0, state |-> "none", live |-> Gone, next |-> Gone, run |-> 0]

\* Every state earlier runs, earlier releases and a damaged disk can have left.
PatchInit ==
    /\ \E state \in {"original", "legacy", "patched"}, signed \in {"openai", "adhoc", "damaged"} :
          /\ (state = "original") <=> (signed = "openai")
          /\ app = Bundle(1, 1, state, signed)
    /\ originals \in IF app.archive = "original" THEN {{}, {1}} ELSE {{1}}
    /\ recorded \in SUBSET originals
    /\ staged = Gone
    /\ patcher = Rest
    /\ inodes = 1
    /\ updated = 1
    /\ away = FALSE
    /\ kept = {}
    /\ history = {}

-----------------------------------------------------------------------------
(* The updater *)

UpdateRemoves ==
    /\ updated <= MaxUpdates
    /\ app # Gone /\ ~away
    /\ app' = Gone
    /\ away' = TRUE
    /\ UNCHANGED <<staged, originals, recorded, patcher, inodes, updated, kept, history>>

\* The new bundle replaces whatever is there.
UpdateInstalls ==
    /\ updated <= MaxUpdates
    /\ updated' = updated + 1
    /\ away' = FALSE
    /\ inodes' = inodes + 1
    /\ app' = Bundle(updated', inodes', "original", "openai")
    /\ UNCHANGED <<staged, originals, recorded, patcher, kept, history>>

-----------------------------------------------------------------------------
(* The patcher *)

PatcherGoes(place) == patcher' = [patcher EXCEPT !.at = place]

\* An error, or the end of a run: its staging directory is removed.
RunEnds ==
    /\ patcher' = [Rest EXCEPT !.run = patcher.run]
    /\ staged' = Gone

\* The staging directory is left for somebody to look at.
RunEndsPreserving ==
    /\ patcher' = [Rest EXCEPT !.run = patcher.run]
    /\ staged' = Gone
    /\ kept' = kept \union {staged.version}

Unmoved == Same(app, patcher.live)

\* patch_desktop_app and restore_desktop_app: the version is read first.
RunBegins(place) ==
    /\ patcher.at = "idle" /\ patcher.run < MaxRuns
    /\ app # Gone
    /\ patcher' = [Rest EXCEPT !.at = place, !.version = app.version, !.run = patcher.run + 1]
    /\ UNCHANGED <<app, staged, originals, recorded, inodes, updated, away, kept, history>>

PatchBegins == RunBegins("looks")
RestoreBegins == RunBegins("restores")

LooksAtArchive ==
    /\ patcher.at = "looks"
    /\ IF app = Gone THEN RunEnds
       ELSE patcher' = [patcher EXCEPT !.at = "identifies", !.state = app.archive] /\ UNCHANGED staged
    /\ UNCHANGED <<app, originals, recorded, inodes, updated, away, kept, history>>

LooksAtBundle ==
    /\ patcher.at = "identifies"
    /\ IF app = Gone THEN RunEnds
       ELSE /\ patcher' = [patcher EXCEPT
                    !.at = IF patcher.state = "patched" THEN "verifies" ELSE "secures",
                    !.live = app]
            /\ UNCHANGED staged
    /\ UNCHANGED <<app, originals, recorded, inodes, updated, away, kept, history>>

\* The patch is in place: it must carry a valid signature and have its original
\* on record, or the original application is restored.
VerifiesPatched ==
    /\ patcher.at = "verifies"
    /\ IF app.signed \in {"openai", "adhoc"} /\ (app.archive = "patched" => patcher.version \in recorded)
       THEN RunEnds
       ELSE PatcherGoes("restores") /\ UNCHANGED staged
    /\ UNCHANGED <<app, originals, recorded, inodes, updated, away, kept, history>>

\* Mutant: a legacy patch is replaced without its original.
MutSecures ==
    /\ patcher.at = "secures"
    /\ IF Unmoved THEN PatcherGoes("copies") /\ UNCHANGED staged ELSE RunEnds
    /\ UNCHANGED <<app, originals, recorded, inodes, updated, away, kept, history>>

\* A full backup of an original is made once, verified, and moved into place whole;
\* a legacy patch needs the one made before it.
Secures ==
    /\ patcher.at = "secures"
    /\ \/ /\ patcher.state = "original"
          /\ patcher.version \notin originals
          /\ app.version = patcher.version /\ OpenAI(app)
          /\ originals' = originals \union {patcher.version}
          /\ PatcherGoes("compares") /\ UNCHANGED staged
       \/ /\ patcher.version \in originals
          /\ PatcherGoes("compares") /\ UNCHANGED <<staged, originals>>
       \/ /\ patcher.version \notin originals
          /\ patcher.state = "legacy" \/ app.version # patcher.version \/ ~OpenAI(app)
          /\ RunEnds /\ UNCHANGED originals
    /\ UNCHANGED <<app, recorded, inodes, updated, away, kept, history>>

\* The bundle is the one looked at, and an original one equals its backup.
Compares ==
    /\ patcher.at = "compares"
    /\ IF /\ Unmoved
          /\ patcher.state = "original" =>
                patcher.live.version = patcher.version /\ patcher.live.archive = "original"
       THEN PatcherGoes("copies") /\ UNCHANGED staged
       ELSE RunEnds
    /\ UNCHANGED <<app, originals, recorded, inodes, updated, away, kept, history>>

CopiesBundle ==
    /\ patcher.at = "copies"
    /\ IF Unmoved
       THEN /\ inodes' = inodes + 1
            /\ staged' = [app EXCEPT !.inode = inodes']
            /\ PatcherGoes("patches")
       ELSE RunEnds /\ UNCHANGED inodes
    /\ UNCHANGED <<app, originals, recorded, updated, away, kept, history>>

\* apply_archive_patch, on the copy: the original archive is backed up, the patch
\* written, and the pair recorded under the version read first.
PatchesArchive ==
    /\ patcher.at = "patches"
    /\ staged' = [staged EXCEPT !.archive = "patched", !.signed = "damaged"]
    /\ recorded' = IF staged.version = patcher.version
                   THEN recorded \union {patcher.version} ELSE recorded
    /\ PatcherGoes("signs")
    /\ UNCHANGED <<app, originals, inodes, updated, away, kept, history>>

\* Mutant: the copy is signed once it is in place.
MutSigns ==
    /\ patcher.at = "signs"
    /\ IF Unmoved THEN patcher' = [patcher EXCEPT !.at = "swaps", !.next = staged] /\ UNCHANGED staged
       ELSE RunEnds
    /\ UNCHANGED <<app, originals, recorded, inodes, updated, away, kept, history>>

\* codesign, its verification, and a last look at the application.
Signs ==
    /\ patcher.at = "signs"
    /\ \/ RunEnds
       \/ /\ Unmoved
          /\ staged' = [staged EXCEPT !.signed = "adhoc"]
          /\ patcher' = [patcher EXCEPT !.at = "swaps", !.next = staged']
    /\ UNCHANGED <<app, originals, recorded, inodes, updated, away, kept, history>>

\* _restore_full_bundle: the bundle to be replaced is looked at here, the version
\* was read earlier.
RestoreLooks ==
    /\ patcher.at = "restores"
    /\ IF app = Gone \/ patcher.version \notin originals THEN RunEnds
       ELSE patcher' = [patcher EXCEPT !.at = "unpacks", !.live = app] /\ UNCHANGED staged
    /\ UNCHANGED <<app, originals, recorded, inodes, updated, away, kept, history>>

RestoreCopies ==
    /\ patcher.at = "unpacks"
    /\ IF Unmoved
       THEN /\ inodes' = inodes + 1
            /\ staged' = Bundle(patcher.version, inodes', "original", "openai")
            /\ patcher' = [patcher EXCEPT !.at = "swaps", !.next = staged']
       ELSE RunEnds /\ UNCHANGED inodes
    /\ UNCHANGED <<app, originals, recorded, updated, away, kept, history>>

-----------------------------------------------------------------------------
(* _activate_staged_bundle *)

Exchange == app' = staged /\ staged' = app

\* "torn" remembers a bundle that is replaced by a run that took it for another version:
\* patch_desktop_app and restore_desktop_app read the version first, and look at the bundle
\* (_restore_full_bundle, after it has verified the backup) later.
Swaps ==
    /\ patcher.at = "swaps"
    /\ IF app = Gone THEN RunEnds /\ UNCHANGED <<app, history>>
       ELSE /\ Exchange /\ PatcherGoes("inspects")
            /\ history' = IF patcher.live.version = patcher.version THEN history
                          ELSE history \union {<<"torn", patcher.live.version>>}
    /\ UNCHANGED <<originals, recorded, inodes, updated, away, kept>>

\* The bundle in place cannot be read: what was displaced goes back, if it is the
\* one looked at or genuine.
FindsUnreadable ==
    /\ patcher.at = "inspects"
    /\ app = Gone
    /\ IF Same(staged, patcher.live) \/ OpenAI(staged)
       THEN PatcherGoes("undoes") /\ UNCHANGED <<staged, kept>>
       ELSE RunEndsPreserving
    /\ UNCHANGED <<app, originals, recorded, inodes, updated, away, history>>

Undoes ==
    /\ patcher.at = "undoes"
    /\ app' = staged
    /\ patcher' = [Rest EXCEPT !.run = patcher.run]
    /\ staged' = Gone
    /\ kept' = IF app = Gone THEN kept ELSE kept \union {app.version}
    /\ UNCHANGED <<originals, recorded, inodes, updated, away, history>>

\* Another bundle is in place: a genuine one stays, any other is put aside.
FindsReplaced ==
    /\ patcher.at = "inspects"
    /\ app # Gone /\ ~Same(app, patcher.next)
    /\ IF OpenAI(app) THEN RunEnds /\ UNCHANGED <<app, kept>>
       ELSE /\ RunEnds
            /\ app' = staged
            /\ kept' = kept \union {app.version}
    /\ UNCHANGED <<originals, recorded, inodes, updated, away, history>>

FindsInstalled ==
    /\ patcher.at = "inspects"
    /\ app # Gone /\ Same(app, patcher.next)
    /\ PatcherGoes("settles")
    /\ UNCHANGED <<app, staged, originals, recorded, inodes, updated, away, kept, history>>

\* What was displaced must be what was looked at; a genuine newcomer goes back.  "ousted"
\* remembers what it goes back over, when that is a second newcomer.
Settles ==
    /\ patcher.at = "settles"
    /\ IF Same(staged, patcher.live)
       THEN RunEnds /\ UNCHANGED <<app, kept, history>>
       ELSE IF OpenAI(staged) /\ app # Gone
       THEN /\ RunEnds
            /\ app' = staged
            /\ history' = IF Same(app, patcher.next) THEN history
                          ELSE history \union {<<"ousted", app.version>>}
            /\ UNCHANGED kept
       ELSE RunEndsPreserving /\ UNCHANGED <<app, history>>
    /\ UNCHANGED <<originals, recorded, inodes, updated, away>>

\* A patcher that dies leaves its staging directory and its lock is freed.
PatcherDies ==
    /\ patcher.at # "idle"
    /\ RunEndsPreserving
    /\ UNCHANGED <<app, originals, recorded, inodes, updated, away, history>>

PatchNext ==
    \/ UpdateRemoves \/ UpdateInstalls
    \/ PatchBegins \/ RestoreBegins
    \/ LooksAtArchive \/ LooksAtBundle \/ VerifiesPatched
    \/ Secures \/ Compares \/ CopiesBundle \/ PatchesArchive \/ Signs
    \/ RestoreLooks \/ RestoreCopies
    \/ Swaps \/ FindsUnreadable \/ Undoes \/ FindsReplaced \/ FindsInstalled \/ Settles
    \/ PatcherDies

PatchSpec == PatchInit /\ [][PatchNext]_patchVars

-----------------------------------------------------------------------------
(* Properties *)

\* Whatever is interrupted or overtaken by an update, the bundle in place can be
\* started: no step of the patcher puts one there whose signature does not hold.
AppStaysWhole == [][app'.signed = "damaged" => app'.inode = app.inode \/ Same(app', patcher.live)]_patchVars

\* A patched application can be taken back to the original of its own version.  The
\* exception is an update that came between a run's look at the version and its look at
\* the bundle: the run patches it as the version before.
CanBeRestored ==
    app.archive = "patched" /\ <<"torn", app.version>> \notin history => app.version \in originals

\* No patcher, killed or not, leaves an older application in the place of an update: the
\* newest is in place, on its way, or preserved in a staging directory.  Two exceptions: an
\* update that came between a run's look at the version and its look at the bundle (for a
\* restore the codesign of the whole backup lies between) is replaced by the version
\* before; and of two updates that come within one exchange the second may be replaced by
\* the first.
UpdateSurvives ==
    /\ patcher.at = "idle" /\ ~away
    /\ <<"torn", updated>> \notin history /\ <<"ousted", updated>> \notin history
    => updated \in {app.version} \union kept

\* Neither the original of a patched application nor an update is ever lost.
NothingIsLost == CanBeRestored /\ UpdateSurvives
=============================================================================
