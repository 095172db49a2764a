----------------------------- MODULE PullSystem -----------------------------
(***************************************************************************)
(* Two hosts, as the README's section on sftpSync has them: one runs local *)
(* profiles (LocalBackup), the other pulls their archives (SftpSync), each *)
(* from its own crontab.  Nothing in the code keeps a sync from listing    *)
(* and downloading while the backup host writes, deletes and purges.       *)
(***************************************************************************)
EXTENDS LocalBackup, Sequences

CONSTANTS
    SyncProfiles, \* as in SftpSync
    SyncFaults

VARIABLES
    lfiles, lgood, spc, sprof, d, locals, diff, cur, src, sdel, sres, listed, complete,
    caught        \* what is here of archives opened while a run had them unfinished (history)

pullerVars == <<lfiles, lgood, spc, sprof, d, locals, diff, cur, src, sdel, sres,
                listed, complete, caught>>

Sync == INSTANCE SftpSync WITH rfiles <- files, rgood <- good

\* SftpSync's assumption.
ASSUME PullAssumption ==
    /\ SyncProfiles \subseteq [dirs : Seq(Names), keep : Int]
    /\ SyncProfiles # {}
    /\ SyncFaults \subseteq Sync!SyncFaultKinds

\* The archives that a run has created and neither completed nor deleted.
Unfinished == {zip[p] : p \in {r \in Procs : pc[r] \in {"copy", "delzip"}}}

\* The archive a step opens for download is caught if a run is not done with it.
Noted == caught' = (caught \cap lfiles') \cup ((cur' \ cur) \cap Unfinished)

PullInit == Init /\ Sync!Init /\ caught = {}

\* A step of the backup host.
BackupNext == Next /\ UNCHANGED pullerVars

remoteOnlyVars == <<clock, dest, pc, prof, zip, handle, left, todel, result>>

\* The crontab of the pulling host starts a sync.
SyncStarts == (\E q \in SyncProfiles : Sync!SyncBegin(q)) /\ Noted /\ UNCHANGED remoteOnlyVars

SyncGoes == Sync!SyncStep /\ Noted /\ UNCHANGED remoteOnlyVars

\* The pulling process is not killed here: SftpSync has that (SyncCrash).
PullNext == BackupNext \/ SyncStarts \/ SyncGoes

pullVars == <<vars, pullerVars>>

PullSpec == PullInit /\ [][PullNext]_pullVars

\* Runs and syncs that have begun go on, and the crontab of the pulling host
\* starts syncs for ever.
PullFairSpec ==
    /\ PullSpec
    /\ \A p \in Procs : WF_pullVars(RunStep(p) /\ UNCHANGED pullerVars)
    /\ WF_pullVars(SyncGoes)
    /\ WF_pullVars(SyncStarts)

-----------------------------------------------------------------------------
\* A goback running local profiles is a remote host as SftpSync expects it: its
\* archives appear in order, become complete and are removed, nothing else.
SyncSpec == Sync!Spec

\* What a sync that reported success has pulled, whatever runs on the backup host
\* while it lists and downloads: of every archive that was complete when it was
\* listed there is a complete copy here, or Keep newer archives are.  Excepted is
\* what a sync opened while a run had it unfinished: the partial copy is taken
\* for the archive ever after (findDifferentProfiles compares names).
PulledWhatWasComplete ==
    spc = "idle" /\ sres = "ok" =>
      \A f \in complete \ caught : f \in lgood \/ Sync!Superseded(f, lfiles)

\* Where the pulling host's own operations do not fail, a sync fails only because
\* something it had listed is gone when sftpDownload opens it; and what was
\* complete when it was listed is gone only because ExpurgeDir on the backup host
\* has left Keep newer ones, however runs have failed or crashed there meanwhile.
SyncFailsOnlyForGone ==
    [][sres # "failed" /\ sres' = "failed" =>
         /\ diff \ files # {}
         /\ \A f \in (diff \cap complete) \ files : Superseded(f, files)]_pullVars

\* No run is on while a sync is.
Apart == spc # "idle" => \A p \in Procs : pc[p] = "idle"

\* If from some time on the crontabs keep runs and syncs apart, an archive that
\* the backup host has completed is eventually complete on the pulling host too,
\* or gone from the backup host, or superseded, or caught before that time.
EventuallyPulled ==
    <>[]Apart =>
      \A f \in File :
        f \in good ~> f \in lgood \/ f \notin good \/ f \in caught \/ Sync!Superseded(f, lfiles)
=============================================================================
